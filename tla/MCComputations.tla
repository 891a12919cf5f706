--------------------------- MODULE MCComputations ---------------------------
(***************************************************************************)
(* The pure computations of the system side by side: the rules that judge  *)
(* evidence, and the analysis that judges the runs.  Their inputs grow     *)
(* step by step, the ones while the others have not begun.                 *)
(***************************************************************************)
EXTENDS EvidenceEvolution, Analysis, Combinatorics

MCPrimary == <<"independent", "static_continuity", "ca_ztcf">>
MCRunSeeds == 1..3

(* Two strategies that measure the same and one that differs, and three    *)
(* that measure one constant.                                              *)
MCMeasurements ==
  {[c \in Range(MCPrimary) \X MCRunSeeds |-> IF c[1] = "ca_ztcf" THEN 4 - c[2] ELSE c[2] * 2],
   [c \in Range(MCPrimary) \X MCRunSeeds |-> 1]}

(* The two-sided p-value of so many heads and tails, in parts of           *)
(* 2^MaxPairs.                                                             *)
MCParts == 2^MaxPairs
MCBinomtest ==
  [d \in Splits |->
     LET n == d[1] + d[2]
         tail == MapThenSumSet(LAMBDA i : choose(n, i), 0..Less(d[1], d[2]))
     IN Less(2 * tail, 2^n) * 2^(MaxPairs - n)]

First == ev.at = 0 /\ ev.count = 0
NoAnalysis == NoRows /\ NoTable

ComputationsInit == EvidenceInit /\ AnalysisInit

ComputationsNext ==
  \/ NoAnalysis /\ EvidenceNext /\ UNCHANGED analysisVars
  \/ EvidenceInit /\ First /\ AnalysisNext /\ UNCHANGED evidenceVars

ComputationsSpec == ComputationsInit /\ [][ComputationsNext]_<<evidenceVars, analysisVars>>
=============================================================================
