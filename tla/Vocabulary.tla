----------------------------- MODULE Vocabulary -----------------------------
(***************************************************************************)
(* Names several components share.                                         *)
(***************************************************************************)
CONSTANT None    \* Python's None: no entry, no attribution, no expiry

(* How requests reach the service.  In a single process,                   *)
(* LocalDecisionClient.decide runs on the event loop and awaits nothing,   *)
(* so a request ends before the next one starts.  Behind HTTP the          *)
(* synchronous endpoints run in a thread pool, side by side.               *)
Deployments == {"local", "http"}

(* TransitionContext of collectors/transition.py, one axis of the matrix. *)
TransitionContexts == {"NONE", "NR_TO_WLAN", "WLAN_TO_NR", "INTRA", "REPEATED"}
=============================================================================
