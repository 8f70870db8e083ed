---------------------------- MODULE MCCompaction ----------------------------
(* Values of Compaction's constants for TLC. *)
EXTENDS Compaction, TLC

FirstDay == {1}
NoDays == {}
NoManifest == {}

\* Every source the same size ...
UnitSize == [f \in Files |-> 1]
TwoEach == [f \in Files |-> 2]

\* ... or one of them as large as the byte cap.
OneLarge == [f \in Files |-> IF f = 2 THEN 3 ELSE 1]

\* The limits: of a deployment, of a next one that allows more, and ones that
\* MinFiles files do not fit.
Steady == {[minFiles |-> 2, maxFiles |-> 3, maxBytes |-> 4]}
Changing == {[minFiles |-> 2, maxFiles |-> 2, maxBytes |-> 4],
             [minFiles |-> 2, maxFiles |-> 3, maxBytes |-> 4]}
Tight == {[minFiles |-> 3, maxFiles |-> 4, maxBytes |-> 4]}

\* One manifest is enough to be damaged.
OneManifest == {{1, 2}}

Never == [d \in 0 .. LookbackDays + 1 |-> {}]
Always == [d \in 0 .. LookbackDays + 1 |-> Labels]

\* While uploads still land a run may die at any seam but one, the call that
\* writes the manifest; then at every seam; on the last day at none.
OneSeamThenAny ==
    [d \in 0 .. LookbackDays + 1 |->
        CASE d = 1 -> Labels \ {"putManifest"}
          [] d \in 2 .. LookbackDays - 1 -> Labels
          [] OTHER -> {}]

RunSymmetry == Permutations(Runs)
=============================================================================
