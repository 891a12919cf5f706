-------------------------- MODULE MCBindingStore --------------------------
(***************************************************************************)
(* A small instance of BindingStore: two devices compete for an address    *)
(* while the clock passes the binding lifetime.                            *)
(***************************************************************************)
EXTENDS BindingStore, TLC

Symmetry == Permutations(Addresses) \cup Permutations(Devices)
              \cup Permutations(Domains) \cup Permutations(Threads)
===========================================================================
