------------------------------ MODULE LogTable ------------------------------
(***************************************************************************)
(* What one day partition of the log table promises to a query, whatever   *)
(* the compactor is doing: a row can be read from the moment it is shipped *)
(* on, and no row is read that was not shipped.  A row is named by the     *)
(* file that shipped it; how often it is counted is not promised here.     *)
(***************************************************************************)
CONSTANT Files

VARIABLES
    shipped,    \* the rows the extension has put into the partition
    readable    \* the rows a query over the partition finds

Init == shipped = {} /\ readable = {}

Ship(f) == /\ f \notin shipped
           /\ shipped' = shipped \cup {f}
           /\ readable' = readable \cup {f}

Next == \E f \in Files : Ship(f)

Spec == Init /\ [][Next]_<<shipped, readable>>
=============================================================================
