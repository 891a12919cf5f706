-------------------------- MODULE CampaignContract --------------------------
(***************************************************************************)
(* What scripts/run_final_campaign.py promises of a campaign that may be   *)
(* interrupted, fail and be started again: every condition obtains one     *)
(* result, none obtains a second, and a result once obtained is neither    *)
(* lost nor replaced ("an interrupted campaign resumes rather than         *)
(* starting again or duplicating").                                        *)
(***************************************************************************)
CONSTANTS
  Conditions,
  Results,
  NoResult

VARIABLE result   \* the result each condition has obtained

Init == result = [c \in Conditions |-> NoResult]

Obtain(c, r) == /\ result[c] = NoResult
                /\ \A d \in Conditions : result[d] # r
                /\ result' = [result EXCEPT ![c] = r]

Next == \E c \in Conditions, r \in Results : Obtain(c, r)

Spec == Init /\ [][Next]_result
=============================================================================
