------------------------------ MODULE Analysis ------------------------------
(***************************************************************************)
(* How the runs of a campaign become findings: the loading and the pairing *)
(* of experiments/analysis/final_report.py, the tests of                   *)
(* experiments/analysis/statistics.py, and the sorting into findings and   *)
(* non-findings of experiments/analysis/final_findings.py.                 *)
(*                                                                         *)
(* The computations are pure.  The module lets their inputs grow step by   *)
(* step, one kind of input at a time: a ledger of one metric in one        *)
(* scenario, or a table of binary outcomes.  A probability is a number of  *)
(* parts of a whole (scale).  What SciPy computes is external: a p-value   *)
(* of a rank test may be any of PValues, and the exact binomial test       *)
(* behind McNemar's is a table.                                            *)
(***************************************************************************)
EXTENDS Integers, Sequences, Functions, FiniteSets, FiniteSetsExt, Vocabulary

CONSTANTS
  Primary,        \* PRIMARY, a sequence of three strategies
  RunSeeds,       \* the seeds, numbers
  Measurements,   \* what the runs measure: functions of strategy and seed
  PValues,        \* what a rank test may return, in thousandths
  MaxFailed,      \* bound on rows that are not VALID
  MaxMissing,     \* bound on VALID rows without the metric
  MaxPairs,       \* bound on the paired runs of a table
  Binomtest,      \* binomtest(b, b + c, 0.5), two-sided, for each b and c
  Parts           \* the parts of a whole its p-values count

(* How so many pairs at most may be discordant, either way. *)
Splits == {d \in (0..MaxPairs) \X (0..MaxPairs) : d[1] + d[2] <= MaxPairs}

ASSUME AnalysisAssumption ==
  /\ Len(Primary) = 3 /\ \A i, j \in DOMAIN Primary : Primary[i] = Primary[j] => i = j
  /\ RunSeeds \subseteq Nat /\ IsFiniteSet(RunSeeds) /\ PValues \subseteq 0..1000
  /\ Measurements \subseteq [Range(Primary) \X RunSeeds -> Nat]
  /\ MaxFailed \in Nat /\ MaxMissing \in Nat /\ MaxPairs \in Nat

(* A fair coin favours neither side. *)
ASSUME BinomtestAssumption ==
  /\ Parts \in Nat /\ Binomtest \in [Splits -> 0..Parts]
  /\ \A d \in Splits : Binomtest[d] = Binomtest[<<d[2], d[1]>>]

VARIABLES
  measured,   \* the measurements the runs of this campaign make, once there is one
  rows,       \* run_ledger.csv, each row with what its output holds
  table,      \* how many paired runs had each pattern of binary outcomes
  report      \* findings and non-findings once build_findings has run, or None

analysisVars == <<measured, rows, table, report>>

(* One binary outcome for each strategy, in the order of Primary. *)
Patterns == {0, 1} \X {0, 1} \X {0, 1}

AnalysisInit == /\ measured = None
                /\ rows = << >>
                /\ table = [p \in Patterns |-> 0]
                /\ report = None

-----------------------------------------------------------------------------
(* Multiplicity *)

(* The pairs of conditions, and the order in which they are tested. *)
Comparisons == {k \in (1..3) \X (1..3) : k[1] < k[2]}
Earlier(k, l) == k[1] < l[1] \/ (k[1] = l[1] /\ k[2] < l[2])

Less(a, b) == IF a < b THEN a ELSE b

(* sorted by p, ties in the order of testing *)
Ahead(p, k, l) == p[k] < p[l] \/ (p[k] = p[l] /\ Earlier(k, l))

(* min(1.0, (m - index) * raw): so many are left when it is k's turn. *)
Candidate(p, scale, k) ==
  Less(scale, Cardinality({l \in DOMAIN p : ~Ahead(p, l, k)}) * p[k])

(* Mutant: the running maximum is left out. *)
HolmPlain(p, scale) == [k \in DOMAIN p |-> Candidate(p, scale, k)]

(* holm: the greatest candidate so far *)
Holm(p, scale) ==
  IF p = << >> THEN << >>
  ELSE [k \in DOMAIN p |->
     Max({Candidate(p, scale, l) : l \in {j \in DOMAIN p : ~Ahead(p, k, j)}})]

(* p < ALPHA, which is 0.05 *)
Significant(p, scale) == 20 * p < scale

-----------------------------------------------------------------------------
(* Loading and pairing *)

(* load_final_runs: the VALID rows; a metric that was not recorded stays   *)
(* None.                                                                   *)
Load == {i \in DOMAIN rows : rows[i].status = "VALID"}

(* By strategy and seed the value of the last run, or None. *)
BySeed ==
  LET Of(s, n) == {i \in Load : rows[i].strategy = s /\ rows[i].seed = n}
  IN [s \in Range(Primary) |-> [n \in RunSeeds |->
        IF Of(s, n) = {} THEN None ELSE rows[Max(Of(s, n))].value]]

(* sorted(by_seed) *)
Sorted(S) ==
  [i \in 1..Cardinality(S) |-> CHOOSE n \in S : Cardinality({m \in S : m <= n}) = i]

(* Mutant: each strategy skips the seeds it has no value for. *)
PairedSeriesApart ==
  LET by == BySeed
      seeds(s) == Sorted({n \in RunSeeds : by[s][n] # None})
  IN [s \in Range(Primary) |-> [i \in DOMAIN seeds(s) |-> by[s][seeds(s)[i]]]]

(* paired_series: the seeds every strategy has a value for *)
PairedSeries ==
  LET by == BySeed
      seeds == Sorted({n \in RunSeeds : \A s \in Range(Primary) : by[s][n] # None})
  IN [s \in Range(Primary) |-> [i \in DOMAIN seeds |-> by[s][seeds[i]]]]

(* The strategies that recorded the metric at all. *)
Producing == {rows[i].strategy : i \in {j \in Load : rows[j].value # None}}

-----------------------------------------------------------------------------
(* A continuous comparison *)

Record(kind, about) == [kind |-> kind, about |-> about]

(* One record about all strategies. *)
Whole == << >>

(* build_findings on the pairs: raw p-values where a test applied. *)
PairRecords(p, scale) ==
  LET adjusted == Holm(p, scale)
  IN {Record(IF k \in DOMAIN p /\ Significant(adjusted[k], scale) THEN "finding" ELSE "non-finding", k)
        : k \in Comparisons}

(* The pairs on which the rank test is tried: not all pairs identical. *)
Testable(series) ==
  {k \in Comparisons : series[Primary[k[1]]] # series[Primary[k[2]]]}

Constant(series) ==
  \E v \in Range(series[Primary[1]]) : \A s \in Range(Primary) : Range(series[s]) = {v}

(* compare_three_paired gets as far as the omnibus test. *)
Tested == LET series == PairedSeries
          IN Len(series[Primary[1]]) >= 3 /\ ~Constant(series)

(* Mutant: a comparison without paired runs is passed over. *)
UntestedPaired ==
  IF PairedSeries[Primary[1]] = << >> THEN {} ELSE {Record("non-finding", Whole)}

(* What only some strategies measure, or too few runs, or with one         *)
(* constant value, is described and not tested; what nobody measures is    *)
(* left out.                                                               *)
Untested == IF Producing = {} THEN {} ELSE {Record("non-finding", Whole)}

(* The omnibus test, and when it is significant the p-values of the pairs  *)
(* the rank test answers.                                                  *)
Continuous(friedman, wilcoxon) ==
  IF ~Significant(friedman, 1000) THEN {Record("non-finding", Whole)}
  ELSE PairRecords(wilcoxon, 1000)

-----------------------------------------------------------------------------
(* Paired binary outcomes *)

Count(t, P) ==
  LET n(a, b, c) == IF <<a, b, c>> \in P THEN t[<<a, b, c>>] ELSE 0
  IN n(0, 0, 0) + n(0, 0, 1) + n(0, 1, 0) + n(0, 1, 1)
       + n(1, 0, 0) + n(1, 0, 1) + n(1, 1, 0) + n(1, 1, 1)

Paired(t) == Count(t, Patterns)

Successes(t, i) == Count(t, {p \in Patterns : p[i] = 1})

RowTotal(p) == p[1] + p[2] + p[3]
RowsWith(t, total) == Count(t, {p \in Patterns : RowTotal(p) = total})

(* _cochran_q_manual; this SciPy has no helper of its own.  The p-value is *)
(* below ALPHA when Q exceeds 5.99146, the 95 % point of chi-squared with  *)
(* two degrees of freedom.                                                 *)
CochranSignificant(t) ==
  LET k == 3
      a == Successes(t, 1)
      b == Successes(t, 2)
      c == Successes(t, 3)
      grand == a + b + c
      squares == a * a + b * b + c * c
      numerator == (k - 1) * (k * squares - grand * grand)
      denominator == k * grand - (RowsWith(t, 1) + 4 * RowsWith(t, 2) + 9 * RowsWith(t, 3))
  IN denominator # 0 /\ numerator * 100000 > 599146 * denominator

Discordant(t, i, j) == Count(t, {p \in Patterns : p[i] = 1 /\ p[j] = 0})

(* Fewer than three pairs, or one constant outcome: not applicable. *)
Applicable(t) ==
  Paired(t) >= 3 /\ ~\E p \in Patterns : RowTotal(p) \in {0, 3} /\ t[p] = Paired(t)

(* The raw p-values of the follow-up. *)
FollowUp(t) ==
  LET b(k) == Discordant(t, k[1], k[2])
      c(k) == Discordant(t, k[2], k[1])
  IN [k \in {l \in Comparisons : b(l) + c(l) # 0} |-> Binomtest[<<b(k), c(k)>>]]

(* cochran_q: the pairs of conditions it calls significant *)
CochranQ(t) ==
  LET p == FollowUp(t)
      adjusted == Holm(p, Parts)
  IN IF Applicable(t) /\ CochranSignificant(t)
     THEN {{k[1], k[2]} : k \in {l \in DOMAIN p : Significant(adjusted[l], Parts)}}
     ELSE {}

-----------------------------------------------------------------------------
(* The inputs *)

NoRows == rows = << >> /\ report = None
NoTable == \A p \in Patterns : table[p] = 0

Failed == {i \in DOMAIN rows : rows[i].status # "VALID"}
Missing == {i \in DOMAIN rows : rows[i].value = None}
Done == {<<rows[i].strategy, rows[i].seed>> : i \in DOMAIN rows \ Failed}
Tried == {<<rows[i].strategy, rows[i].seed>> : i \in DOMAIN rows}

(* Conditions come in their order, those that failed again later. *)
Due(s, n) ==
  LET Before(t, m) == \E i, j \in DOMAIN Primary : /\ Primary[i] = t /\ Primary[j] = s
                                                   /\ i < j \/ (i = j /\ m < n)
  IN \A t \in Range(Primary), m \in RunSeeds : Before(t, m) => <<t, m>> \in Tried

(* A run of a condition is recorded, VALID at most once, and the metric    *)
(* with it or not.  A run that failed measured something else.             *)
AddRow(s, n, status, recorded) ==
  /\ report = None /\ NoTable
  /\ Due(s, n) /\ <<s, n>> \notin Done
  /\ status # "VALID" => recorded /\ Cardinality(Failed) < MaxFailed
  /\ ~recorded => Cardinality(Missing) < MaxMissing
  /\ IF rows = << >> THEN measured' \in Measurements ELSE UNCHANGED measured
  /\ rows' = Append(rows, [strategy |-> s, seed |-> n, status |-> status,
                           value |-> IF ~recorded THEN None
                                     ELSE IF status = "VALID" THEN measured'[<<s, n>>]
                                     ELSE measured'[<<s, n>>] + 100])
  /\ UNCHANGED <<table, report>>

(* build_statistics and build_findings for the metric of the rows *)
Report(p, records) ==
  /\ rows # << >>
  /\ report' = [p |-> p, records |-> records]
  /\ UNCHANGED <<measured, rows, table>>

Describe == report = None /\ ~Tested /\ Report(<< >>, Untested)

(* The rank test may refuse a pair with a ValueError. *)
Compare ==
  /\ report = None /\ Tested
  /\ \E friedman \in PValues, answering \in SUBSET Testable(PairedSeries) :
       \E wilcoxon \in [answering -> PValues] :
         Report(wilcoxon, Continuous(friedman, wilcoxon))

AddPairedRun(p) ==
  /\ NoRows
  /\ Paired(table) < MaxPairs
  /\ table' = [table EXCEPT ![p] = @ + 1]
  /\ UNCHANGED <<measured, rows, report>>

AnalysisNext ==
  \/ \E s \in Range(Primary), n \in RunSeeds, status \in {"VALID", "INFRA"}, recorded \in BOOLEAN :
       AddRow(s, n, status, recorded)
  \/ Describe \/ Compare
  \/ \E p \in Patterns : AddPairedRun(p)

AnalysisSpec == AnalysisInit /\ [][AnalysisNext]_analysisVars

-----------------------------------------------------------------------------
(* "One value per seed per strategy, aligned by seed so pairs stay pairs": *)
(* whatever the order of the rows, the failed attempts among them and the  *)
(* values that were not recorded, the i-th values of the strategies are    *)
(* of one seed.                                                            *)
PairsStayPairs ==
  rows # << >> =>
    LET series == PairedSeries
    IN \E seeds \in {Sorted(S) : S \in SUBSET RunSeeds} :
         \A s \in Range(Primary) : series[s] = [i \in DOMAIN seeds |-> measured[<<s, seeds[i]>>]]

(* "Negative and inconclusive results stay visible": a metric that any     *)
(* strategy recorded is reported as a whole or pair by pair, and a pair is *)
(* a finding exactly when Holm's step-down procedure rejects it among the  *)
(* pairs that could be tested: every p-value up to its own passes, counted *)
(* against those not below it.                                             *)
ReportIsHonest ==
  report # None =>
    LET p == report.p
        tested == DOMAIN p
        Passes(k) == Significant(Cardinality({l \in tested : p[l] >= p[k]}) * p[k], 1000)
    IN /\ Producing # {} => report.records # {}
       /\ \A r \in report.records :
            /\ r.about # Whole => {q.about : q \in report.records} = Comparisons
            /\ r.kind = "finding" <=> /\ r.about \in tested
                                     /\ \A k \in tested : p[k] <= p[r.about] => Passes(k)

Swapped(i, j) == IF j = i THEN i + 1 ELSE IF j = i + 1 THEN i ELSE j

(* "Declaration order only; it carries no ranking": two neighbours may     *)
(* change places, and hence all strategies any way, without a change in    *)
(* which pairs differ, ties between p-values included.                     *)
NoRanking ==
  ~NoTable =>
    LET differ == CochranQ(table)
    IN \A i \in 1..2 :
         CochranQ([p \in Patterns |-> table[<<p[Swapped(i, 1)], p[Swapped(i, 2)], p[Swapped(i, 3)]>>]])
           = {{Swapped(i, j) : j \in pair} : pair \in differ}
=============================================================================
