----------------------- MODULE MCTransitionCollector -----------------------
(***************************************************************************)
(* Small instances of TransitionCollector.  The domains are the strings    *)
(* the context distinguishes.                                              *)
(***************************************************************************)
EXTENDS TransitionCollector, TLC

MCDomains == {"NR", "WLAN"}
Earliest == {0}
Symmetry == Permutations(Addresses) \cup Permutations(Threads) \cup Permutations(Devices)
=============================================================================
