-------------------------- MODULE ExecutionOutcome ---------------------------
(***************************************************************************)
(* What an execution promises to whoever asks for its outcome, with every  *)
(* mechanism left out.  The outcome is decided at most once and never      *)
(* changes.  What is published in the store is the outcome, or "Failed"    *)
(* (the API writes that verdict on its own account), or nothing yet; a     *)
(* published verdict is only taken back when drivers may overlap.          *)
(***************************************************************************)
CONSTANT Serial     \* drivers of the execution never overlap

VARIABLES outcome, published

Outcome == {"Completed", "Failed", "Cancelled", "Stopped", "Timeout"}

Init == outcome = "Undecided" /\ published = "Undecided"

Decide ==
    /\ outcome = "Undecided"
    /\ outcome' \in Outcome
    /\ UNCHANGED published

Publish ==
    /\ published' \in {outcome, "Failed"}
    /\ UNCHANGED outcome

\* A verdict that the API pronounced alone does not bind a later driver.
Withdraw ==
    /\ Serial => published = "Failed"
    /\ published' = "Undecided"
    /\ UNCHANGED outcome

Next == Decide \/ Publish \/ Withdraw

Spec == Init /\ [][Next]_<<outcome, published>>

==============================================================================
