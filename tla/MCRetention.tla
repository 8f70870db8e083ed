---------------------------- MODULE MCRetention ----------------------------
(* Values of Retention's constants for TLC. *)
EXTENDS Retention

\* Two files are a batch; in a day of four, of which three fit, or two with
\* the first among them, there are two.
FilesOfMC == <<4, 2, 0, 0, 0, 0, 0>>
SizeMC == <<2, 1, 1, 1>>

\* The defaults, whose steps all come after the last day; expiry alone;
\* an early archive; rules written out; nothing at all; and both at once.
BucketPropsMC ==
    {[s \in {} |-> 0],
     [infrequentAccessAfter |-> 0, glacierAfter |-> 0, expireAfter |-> 3],
     [glacierAfter |-> 1, expireAfter |-> 2],
     [lifecycleRules |-> [expireAfter |-> 2]],
     [infrequentAccessAfter |-> 0, glacierAfter |-> 0, expireAfter |-> 0,
      abortIncompleteUploadsAfter |-> 0],
     [expireAfter |-> 1, lifecycleRules |-> [expireAfter |-> 2]]}
=============================================================================
