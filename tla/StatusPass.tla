----------------------------- MODULE StatusPass -----------------------------
(***************************************************************************)
(* One pass over the balloons of a batch as the closing handler sees it:   *)
(* Miriada records statuses, some of them are acknowledged, and the pass   *)
(* ends "sent" when all are acknowledged or "error" when one is not.       *)
(* BalloonsBatch takes PostOk and PostFail at this grain.                  *)
(***************************************************************************)
CONSTANT Jobs

VARIABLES recorded, acknowledged, outcome

vars == <<recorded, acknowledged, outcome>>

Init ==
    /\ recorded = {}
    /\ acknowledged = {}
    /\ outcome = "pending"

\* Miriada records a status, whether or not its answer arrives.
Record(j) ==
    /\ outcome = "pending"
    /\ recorded' = recorded \cup {j}
    /\ \/ acknowledged' = acknowledged \cup {j}
       \/ UNCHANGED acknowledged
    /\ UNCHANGED outcome

Finish ==
    /\ outcome = "pending"
    /\ outcome' = IF acknowledged = Jobs THEN "sent" ELSE "error"
    /\ UNCHANGED <<recorded, acknowledged>>

Next == Finish \/ \E j \in Jobs : Record(j)

Spec == Init /\ [][Next]_vars
=============================================================================
