---------------------------- MODULE LogShipping ----------------------------
(***************************************************************************)
(* What the extension promises of the function's log.  Records of          *)
(* sufficient level wait in the order they are logged in; they depart in   *)
(* batches, the oldest first; and a batch that is under way is stored as a *)
(* whole, or given up as a whole, after which none of it comes back.       *)
(*                                                                         *)
(* A record is a pair of numbers: the invocation and the place in its log. *)
(***************************************************************************)
EXTENDS Naturals

CONSTANT Kept       \* the records of sufficient level

VARIABLES
    waiting,        \* the records that are logged and have not departed
    flights,        \* the batches that are under way
    stored,         \* the records that are in S3
    dropped         \* the records whose upload failed

Before(r, s) == r[1] < s[1] \/ (r[1] = s[1] /\ r[2] < s[2])

Known == waiting \cup (UNION flights) \cup stored \cup dropped

Init == waiting = {} /\ flights = {} /\ stored = {} /\ dropped = {}

\* A record is logged, after all that were before.
Log(r) == /\ \A s \in Known : Before(s, r)
          /\ waiting' = waiting \cup {r}
          /\ UNCHANGED <<flights, stored, dropped>>

\* Some of those that wait depart, and none overtakes another.
Depart(batch) == /\ batch # {}
                 /\ \A r \in batch, s \in waiting \ batch : Before(r, s)
                 /\ waiting' = waiting \ batch
                 /\ flights' = flights \cup {batch}
                 /\ UNCHANGED <<stored, dropped>>

Store(batch) == /\ flights' = flights \ {batch}
                /\ stored' = stored \cup batch
                /\ UNCHANGED <<waiting, dropped>>

GiveUp(batch) == /\ flights' = flights \ {batch}
                 /\ dropped' = dropped \cup batch
                 /\ UNCHANGED <<waiting, stored>>

Next == \/ \E r \in Kept : Log(r)
        \/ \E batch \in SUBSET waiting : Depart(batch)
        \/ \E batch \in flights : Store(batch) \/ GiveUp(batch)

Spec == Init /\ [][Next]_<<waiting, flights, stored, dropped>>
=============================================================================
