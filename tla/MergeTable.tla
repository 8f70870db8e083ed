----------------------------- MODULE MergeTable -----------------------------
(***************************************************************************)
(* What one day partition of the log table promises when the runs of the   *)
(* compactor do not overlap: to merge is one step.  A row is in no batch,  *)
(* or in one for good, and a batch is taken whole from the rows in none.   *)
(***************************************************************************)
CONSTANTS
    Files,      \* what may be shipped
    Lots        \* the sets of rows that a run may merge

VARIABLES
    unmerged,   \* the rows shipped that are in no batch
    batches     \* the sets of rows that have been merged

Init == unmerged = {} /\ batches = {}

Ship(f) == /\ f \notin unmerged \cup UNION batches
           /\ unmerged' = unmerged \cup {f}
           /\ UNCHANGED batches

Merge(lot) == /\ lot \in Lots /\ lot \subseteq unmerged
              /\ unmerged' = unmerged \ lot
              /\ batches' = batches \cup {lot}

Next == \/ \E f \in Files : Ship(f)
        \/ \E lot \in Lots : Merge(lot)

Spec == Init /\ [][Next]_<<unmerged, batches>>
=============================================================================
