------------------------------ MODULE Campaign ------------------------------
(***************************************************************************)
(* scripts/run_final_campaign.py over the directory results/final: the     *)
(* ledger every attempt is appended to, the raw output write_run leaves,   *)
(* and the process that works through the conditions, is signalled, runs   *)
(* out of time, meets failing infrastructure, is killed, and is started    *)
(* again from the ledger.                                                  *)
(*                                                                         *)
(* The disk survives the process.  The campaign knows a configuration by   *)
(* the commit that is checked out (git rev-parse HEAD) and by what config/ *)
(* holds (its hash), and compares both: an edit that is undone, or a       *)
(* checkout of where it began, brings back the configuration it froze.     *)
(* What a run computes is ScenarioRunner's subject; here it ends well,     *)
(* with errors, or by an exception.                                        *)
(***************************************************************************)
EXTENDS Integers, Sequences, Vocabulary

CONSTANTS
  Strategies,     \* a sequence: PRIMARY_STRATEGIES
  Seeds,          \* a sequence: the frozen seeds
  Contents,       \* what config/ may hold
  MaxRetries,     \* --max-retries
  MaxRuns,        \* bound on the runs that write output
  MaxTroubles     \* bound on what goes wrong: failures, defects, signals, deadlines, kills, edits, checkouts

ASSUME CampaignAssumption ==
  /\ \A i, j \in DOMAIN Strategies : Strategies[i] = Strategies[j] => i = j
  /\ \A i, j \in DOMAIN Seeds : Seeds[i] = Seeds[j] => i = j
  /\ MaxRetries \in Nat /\ MaxRuns \in Nat /\ MaxTroubles \in Nat

ASSUME NoResultAssumption == None \notin Nat

VARIABLES
  ledger,     \* run_ledger.csv, with the place of the run in the timeline as history
  raw,        \* raw/ and metadata/, by the number of the run
  config,     \* what config/ holds in the working tree
  commits,    \* what it holds in each commit
  head,       \* the commit that is checked out
  pc,         \* where the campaign process is; "down" when there is none
  session,    \* the locals of main
  attempt,    \* the locals of the attempt in hand
  past,       \* history: sessions begun and troubles met
  timeline    \* history: the configurations that have been in force

disk == <<ledger, raw>>
tree == <<config, commits, head, timeline>>
process == <<pc, session, attempt>>
campaignVars == <<disk, tree, process, past>>

-----------------------------------------------------------------------------
(* The key of a condition, for one scenario at one device level. *)
Condition(i, k) == [strategy |-> Strategies[i], seed |-> Seeds[k]]

Conditions == {Condition(i, k) : i \in DOMAIN Strategies, k \in DOMAIN Seeds}

(* build_conditions: the seeds within a strategy, the strategies in order. *)
Before(c, d) ==
  \E i, j \in DOMAIN Strategies, k, l \in DOMAIN Seeds :
    /\ c = Condition(i, k) /\ d = Condition(j, l)
    /\ i < j \/ (i = j /\ k < l)

(* What git_sha and config_hash tell of the tree, and what git_dirty does. *)
InForce == [sha |-> head, hash |-> config]
Dirty == config # commits[head]

(* Statuses of a row.  classify_failure tells the middle two apart: a text *)
(* that carries an infrastructure marker, and any other.                   *)
Statuses == {"VALID", "INFRA", "DEFECT", "ABORTED"}

Rows(status) == {i \in DOMAIN ledger : ledger[i].status = status}

(* Mutant: any attempt that left output counts as done. *)
CompletedByOutput == {ledger[i].cond : i \in {j \in DOMAIN ledger : ledger[j].run # None}}

(* Mutant: only the rows of the configuration in force count. *)
CompletedHere == {ledger[i].cond : i \in {j \in Rows("VALID") : ledger[j].config = InForce}}

(* Ledger.completed *)
Completed == {ledger[i].cond : i \in Rows("VALID")}

NoSession == [frozen |-> None, pending |-> {}, interrupted |-> FALSE]
NoAttempt == [cond |-> None, count |-> 0, status |-> None, run |-> None, ran |-> None]
NoPast == [sessions |-> 0, troubles |-> 0]

CampaignInit ==
  /\ ledger = << >> /\ raw = << >>
  /\ config \in Contents /\ commits = <<config>> /\ head = 1 /\ timeline = <<InForce>>
  /\ pc = "down" /\ session = NoSession /\ attempt = NoAttempt
  /\ past = NoPast

(* Something goes wrong. *)
Trouble == /\ past.troubles < MaxTroubles
           /\ past' = [past EXCEPT !.troubles = @ + 1]

-----------------------------------------------------------------------------
(* main: a session begins *)

(* Refused on a dirty tree; without pending conditions there is nothing to *)
(* do.  The resume reads statuses and keys, no configuration.              *)
Start ==
  /\ pc = "down"
  /\ ~Dirty
  /\ Conditions \ Completed # {}
  /\ session' = [frozen |-> InForce, pending |-> Conditions \ Completed, interrupted |-> FALSE]
  /\ pc' = "head"
  /\ past' = [past EXCEPT !.sessions = @ + 1]
  /\ UNCHANGED <<disk, tree, attempt>>

Row(cond, status, run, ran) ==
  [cond |-> cond, status |-> status, config |-> session.frozen, run |-> run, ran |-> ran,
   session |-> past.sessions]

(* The loop comes to c, the first condition that is left. *)
Reaches(c) ==
  /\ pc = "head"
  /\ c \in session.pending /\ \A d \in session.pending : ~Before(d, c)
  /\ session' = [session EXCEPT !.pending = @ \ {c}]

(* After a signal the conditions that are left are recorded, not run. *)
Abort(c) ==
  /\ Reaches(c)
  /\ session.interrupted
  /\ ledger' = Append(ledger, Row(c, "ABORTED", None, None))
  /\ UNCHANGED <<raw, tree, pc, attempt, past>>

(* The campaign deadline leaves them pending without a word. *)
Deadline ==
  /\ pc = "head" /\ session.pending # {}
  /\ ~session.interrupted
  /\ Trouble
  /\ pc' = "finish"
  /\ UNCHANGED <<disk, tree, session, attempt>>

Take(c) ==
  /\ Reaches(c)
  /\ ~session.interrupted
  /\ attempt' = [NoAttempt EXCEPT !.cond = c]
  /\ pc' = "attempt"
  /\ UNCHANGED <<disk, tree, past>>

AllTaken ==
  /\ pc = "head" /\ session.pending = {}
  /\ pc' = "finish"
  /\ UNCHANGED <<disk, tree, session, attempt, past>>

-----------------------------------------------------------------------------
(* execute *)

(* The access source is not there, or run raises for want of an            *)
(* application state: nothing is written.                                  *)
ExecuteRaises(status) ==
  /\ pc = "attempt"
  /\ Trouble
  /\ attempt' = [attempt EXCEPT !.count = @ + 1, !.status = status, !.run = None, !.ran = None]
  /\ pc' = "append"
  /\ UNCHANGED <<disk, tree, session>>

(* The scenario runs under the configuration it finds: load_settings reads *)
(* it again.  An error inside it is kept with the result, and the result   *)
(* is written all the same.                                                *)
ExecuteRuns(status) ==
  /\ pc = "attempt"
  /\ Len(raw) < MaxRuns
  /\ IF status = "VALID" THEN UNCHANGED past ELSE Trouble
  /\ attempt' = [attempt EXCEPT !.count = @ + 1, !.status = status, !.run = Len(raw) + 1,
                                !.ran = Len(timeline)]
  /\ pc' = "write"
  /\ UNCHANGED <<disk, tree, session>>

Files == <<"events and decisions", "metrics", "metadata">>

Complete(run) == raw[run].files = Len(Files)

(* Mutant: the row is appended once the first file is there. *)
WriteFileThenRow ==
  /\ pc = "write"
  /\ raw' = Append(raw, [cond |-> attempt.cond, ran |-> attempt.ran,
                         ok |-> attempt.status = "VALID", files |-> 1])
  /\ pc' = "append"
  /\ UNCHANGED <<ledger, tree, session, attempt, past>>

(* write_run, one file after the other into a directory of its own. *)
WriteFile ==
  /\ pc = "write"
  /\ LET run == attempt.run
         entry == [cond |-> attempt.cond, ran |-> attempt.ran, ok |-> attempt.status = "VALID",
                   files |-> 1]
     IN /\ raw' = IF run > Len(raw) THEN Append(raw, entry)
                  ELSE [raw EXCEPT ![run].files = @ + 1]
        /\ pc' = IF raw'[run].files = Len(Files) THEN "append" ELSE "write"
  /\ UNCHANGED <<ledger, tree, session, attempt, past>>

(* The disk refuses a file: OSError reaches main, which forgets the run. *)
WriteRaises ==
  /\ pc = "write"
  /\ Trouble
  /\ attempt' = [attempt EXCEPT !.status = "INFRA", !.run = None, !.ran = None]
  /\ pc' = "append"
  /\ UNCHANGED <<disk, tree, session>>

-----------------------------------------------------------------------------
(* the row, and what follows from it *)

(* A good run that took longer than its budget is not a result. *)
OverBudget ==
  /\ pc = "append" /\ attempt.status = "VALID"
  /\ Trouble
  /\ attempt' = [attempt EXCEPT !.status = "INFRA"]
  /\ UNCHANGED <<disk, tree, pc, session>>

(* A defect ends the session, a failure of the infrastructure is retried   *)
(* with the same condition while retries are left.                         *)
AfterRow(status) ==
  IF status = "DEFECT" THEN "finish"
  ELSE IF status = "INFRA" /\ attempt.count <= MaxRetries THEN "attempt"
  ELSE "drift"

AppendRow ==
  /\ pc = "append"
  /\ ledger' = Append(ledger, Row(attempt.cond, attempt.status, attempt.run, attempt.ran))
  /\ pc' = AfterRow(attempt.status)
  /\ UNCHANGED <<raw, tree, session, attempt, past>>

(* Mutant: nobody looks whether the configuration has changed. *)
NoDriftCheck ==
  /\ pc = "drift"
  /\ pc' = "head"
  /\ UNCHANGED <<disk, tree, session, attempt, past>>

(* Once per condition, after its row. *)
DriftCheck ==
  /\ pc = "drift"
  /\ pc' = IF InForce # session.frozen THEN "finish" ELSE "head"
  /\ UNCHANGED <<disk, tree, session, attempt, past>>

(* The session log is written and the process ends. *)
Finish ==
  /\ pc = "finish"
  /\ pc' = "down" /\ session' = NoSession /\ attempt' = NoAttempt
  /\ UNCHANGED <<disk, tree, past>>

-----------------------------------------------------------------------------
(* What happens to the process, and to the tree *)

(* on_signal: the condition in hand is finished first, its retries too. *)
Signal ==
  /\ pc # "down" /\ ~session.interrupted
  /\ Trouble
  /\ session' = [session EXCEPT !.interrupted = TRUE]
  /\ UNCHANGED <<disk, tree, pc, attempt>>

Crash ==
  /\ pc # "down"
  /\ Trouble
  /\ pc' = "down" /\ session' = NoSession /\ attempt' = NoAttempt
  /\ UNCHANGED <<disk, tree>>

(* Whatever happens to the tree shows in what is in force. *)
TreeMoves == /\ timeline' = Append(timeline, InForce')
             /\ UNCHANGED <<disk, process>>

(* Someone edits config/, or undoes an edit. *)
Edit(content) ==
  /\ content # config
  /\ Trouble
  /\ config' = content /\ UNCHANGED <<commits, head>>
  /\ TreeMoves

Commit ==
  /\ Dirty
  /\ commits' = Append(commits, config) /\ head' = Len(commits) + 1
  /\ UNCHANGED <<config, past>>
  /\ TreeMoves

(* Another commit is checked out, with nothing left to commit. *)
Checkout(sha) ==
  /\ ~Dirty /\ sha # head
  /\ Trouble
  /\ head' = sha /\ config' = commits[sha] /\ UNCHANGED commits
  /\ TreeMoves

-----------------------------------------------------------------------------
Execute ==
  \/ \E status \in {"INFRA", "DEFECT"} : ExecuteRaises(status)
  \/ \E status \in {"VALID", "INFRA", "DEFECT"} : ExecuteRuns(status)

Work ==
  \/ \E c \in Conditions : Abort(c) \/ Take(c)
  \/ AllTaken \/ Execute \/ WriteFile \/ AppendRow \/ DriftCheck \/ Finish

CampaignNext ==
  \/ Start \/ Work
  \/ Deadline \/ WriteRaises \/ OverBudget \/ Signal \/ Crash
  \/ \E content \in Contents : Edit(content)
  \/ Commit
  \/ \E sha \in DOMAIN commits : Checkout(sha)

CampaignSpec == CampaignInit /\ [][CampaignNext]_campaignVars

(* The process goes on while it is up, and whoever runs the campaign       *)
(* commits what was edited and follows "rerun to continue".                *)
CampaignFairness ==
  /\ WF_campaignVars(Work)
  /\ WF_campaignVars(Start)
  /\ WF_campaignVars(Commit)

-----------------------------------------------------------------------------
Configurations == [sha : Nat, hash : Contents]

LedgerRows ==
  [cond : Conditions, status : Statuses, config : Configurations \cup {None}, run : Nat \cup {None},
   ran : Nat \cup {None}, session : Nat]

Outputs == [cond : Conditions, ran : Nat, ok : BOOLEAN, files : 1..Len(Files)]

SessionStates ==
  [frozen : Configurations \cup {None}, pending : SUBSET Conditions, interrupted : BOOLEAN]

AttemptStates ==
  [cond : Conditions \cup {None}, count : Nat, status : Statuses \cup {None},
   run : Nat \cup {None}, ran : Nat \cup {None}]

Pasts == [sessions : Nat, troubles : Nat]

CampaignTypeOK ==
  /\ ledger \in Seq(LedgerRows) /\ raw \in Seq(Outputs)
  /\ config \in Contents /\ commits \in Seq(Contents) /\ head \in DOMAIN commits
  /\ timeline \in Seq(Configurations) /\ timeline # << >> /\ timeline[Len(timeline)] = InForce
  /\ pc \in {"down", "head", "attempt", "write", "append", "drift", "finish"}
  /\ session \in SessionStates /\ attempt \in AttemptStates /\ past \in Pasts

-----------------------------------------------------------------------------
(* The result a condition has, by the ledger. *)
ResultOf(c) ==
  LET rows == {i \in Rows("VALID") : ledger[i].cond = c}
  IN IF rows = {} THEN None ELSE ledger[CHOOSE i \in rows : \A j \in rows : j <= i].run

Contract == INSTANCE CampaignContract
              WITH Results <- 1..MaxRuns, NoResult <- None,
                   result <- [c \in Conditions |-> ResultOf(c)]

(* "an interrupted campaign resumes rather than starting again or          *)
(* duplicating": through kills, signals, failures and changes of the       *)
(* configuration, the ledger keeps the promise of CampaignContract.        *)
KeepsContract == Contract!Spec

(* Every condition is eventually recorded VALID: failures of the           *)
(* infrastructure, defects, signals, deadlines, kills and edits delay it,  *)
(* and as long as they end none of them leaves a condition behind.         *)
CampaignCompletes == <>[](\A c \in Conditions : \E i \in Rows("VALID") : ledger[i].cond = c)

(* A row is appended after write_run has returned: a VALID row names the   *)
(* complete output of a good run of its own condition, and no two rows     *)
(* share an output.                                                        *)
ValidRowHasOutput ==
  \A i \in Rows("VALID") :
    /\ ledger[i].run \in DOMAIN raw
    /\ Complete(ledger[i].run) /\ raw[ledger[i].run].ok
    /\ raw[ledger[i].run].cond = ledger[i].cond
    /\ \A j \in DOMAIN ledger : ledger[j].run = ledger[i].run => i = j

(* A row that states another configuration than its run had. *)
Drifted(row) == timeline[row.ran] # row.config

(* The configuration is compared once per condition, after the row, and    *)
(* for equality: a session may record a run of a configuration other than  *)
(* the one its rows state.  Before another VALID run of that session the   *)
(* stated configuration must have been in force again, so that drifted     *)
(* runs of one session never share a change of the configuration.          *)
DriftBounded ==
  \A i, j \in Rows("VALID") :
    (i < j /\ ledger[i].session = ledger[j].session /\ Drifted(ledger[i])) =>
      \E k \in (ledger[i].ran + 1)..ledger[j].ran : timeline[k] = ledger[i].config

-----------------------------------------------------------------------------
(* What the documentation says and the code does not keep. *)

(* "results from two configurations must never share a primary dataset":   *)
(* all VALID rows were recorded under one configuration.                   *)
OneConfiguration == \A i, j \in Rows("VALID") : ledger[i].config = ledger[j].config
=============================================================================
