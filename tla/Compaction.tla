----------------------------- MODULE Compaction -----------------------------
(***************************************************************************)
(* The compactor of extension-go/compactor at work on one day partition.   *)
(*                                                                         *)
(* The partition is a set of S3 objects: source files the extension        *)
(* uploaded, merged outputs (part-<digest>.parquet) and manifests          *)
(* (_part-<digest>.manifest.json).  A run of CompactPartition lists them,  *)
(* finishes what earlier runs left behind, merges a batch of sources into  *)
(* an output and deletes the batch, one S3 call per step.  Any call may    *)
(* fail and any run may be killed between two calls, which to the bucket   *)
(* is the same thing: the run stops where it is and forgets its locals.    *)
(*                                                                         *)
(* Abstractions.  A source file is a number, in key order, and stands for  *)
(* the rows it holds.  A digest is the set of keys it was computed from    *)
(* (sha256 is taken to be injective), so the set itself names an output    *)
(* and its manifest.  Sorting, Parquet and the key's directory are left    *)
(* out: merging is the union of rows.                                      *)
(***************************************************************************)
EXTENDS Integers, FiniteSets, FiniteSetsExt

CONSTANTS
    Files,           \* the source files the extension may upload to this day
    FirstPage,       \* those whose keys sort before the manifests in a listing
    Size,            \* Size[f]: bytes of f
    Caps,            \* the limits of cfg a run may have been deployed with
    LookbackDays,    \* cfg.LookbackDays
    Runs,            \* invocations of the compactor that may overlap
    LateDays,        \* ages at which an upload keyed to this day still lands
    Faults,          \* Faults[d]: where a run may die at age d ("idle": before it starts)
    Damageable       \* the manifests, by id, that something outside may damage

ASSUME FilesAssumption == Files \subseteq Nat /\ IsFiniteSet(Files)
ASSUME SizeAssumption == Size \in [Files -> Nat]
\* envInt and the MaxBytes parser of LoadConfig admit positive values only.
ASSUME LimitsAssumption ==
    /\ Caps \subseteq [minFiles : Nat \ {0}, maxFiles : Nat \ {0}, maxBytes : Nat \ {0}]
    /\ LookbackDays \in Nat \ {0}
ASSUME DamageAssumption == Damageable \subseteq SUBSET Files

VARIABLES
    age,         \* days since the partition's day, up to LookbackDays + 1
    invoked,     \* whether a run has been started at this age
    uploaded,    \* every source file ever uploaded
    sources,     \* the source objects in the bucket
    outputs,     \* the merged objects: [id, rows]
    manifests,   \* the manifests: [id, sources, readable]
    pc,          \* where each run is
    seen,        \* the source keys of its listing
    pending,     \* the manifests of its listing it has yet to look at
    recovered,   \* whether it has finished an interrupted run
    batch,       \* the source set it is recovering or merging
    todo,        \* the part of the batch its current loop has left
    rows         \* the rows it has read

clock == <<age, invoked>>
bucket == <<uploaded, sources, outputs, manifests>>
locals == <<seen, pending, recovered, batch, todo, rows>>
vars == <<clock, bucket, pc, locals>>

Ids == SUBSET Files
Output == [id : Ids, rows : SUBSET Files]
Manifest == [id : Ids, sources : SUBSET Files, readable : BOOLEAN]
Labels == {"idle", "list", "listRest", "recover", "recoverDelete",
           "recoverForget", "relist", "relistRest", "select", "get",
           "putOutput", "putManifest", "delete", "forget"}

-----------------------------------------------------------------------------
(* selectSources *)

\* The loop's two breaks: a prefix of the candidates is within the caps when
\* it has at most maxFiles files and, past the first file, at most maxBytes.
Fits(prefix, cfg) ==
    /\ Cardinality(prefix) <= cfg.maxFiles
    /\ Cardinality(prefix) > 1 =>
          MapThenSumSet(LAMBDA f : Size[f], prefix) <= cfg.maxBytes

\* The longest prefix, in key order, within the caps.
SelectSources(candidates, cfg) ==
    {f \in candidates :
        \E g \in candidates : f <= g /\ Fits({h \in candidates : h <= g}, cfg)}

-----------------------------------------------------------------------------
Init ==
    /\ age = 0
    /\ invoked = FALSE
    /\ uploaded = {}
    /\ sources = {}
    /\ outputs = {}
    /\ manifests = {}
    /\ pc = [r \in Runs |-> "idle"]
    /\ seen = [r \in Runs |-> {}]
    /\ pending = [r \in Runs |-> {}]
    /\ recovered = [r \in Runs |-> FALSE]
    /\ batch = [r \in Runs |-> {}]
    /\ todo = [r \in Runs |-> {}]
    /\ rows = [r \in Runs |-> {}]

Goto(r, label) == pc' = [pc EXCEPT ![r] = label]

\* CompactPartition returns, with an error or without; its locals are gone.
Return(r) ==
    /\ Goto(r, "idle")
    /\ seen' = [seen EXCEPT ![r] = {}]
    /\ pending' = [pending EXCEPT ![r] = {}]
    /\ recovered' = [recovered EXCEPT ![r] = FALSE]
    /\ batch' = [batch EXCEPT ![r] = {}]
    /\ todo' = [todo EXCEPT ![r] = {}]
    /\ rows' = [rows EXCEPT ![r] = {}]

(* The world around the runs *)

\* The extension writes one object, under a key whose date it fixed before
\* the upload began: while the day lasts, or late.
Upload(f) ==
    /\ age \in {0} \cup LateDays
    /\ f \in Files \ uploaded
    /\ uploaded' = uploaded \cup {f}
    /\ sources' = sources \cup {f}
    /\ UNCHANGED <<clock, outputs, manifests, pc, locals>>

\* Midnight UTC.  The schedule invokes the compactor every closed day, and
\* a run is over by the end of its day; an invocation may be lost.
NextDay ==
    /\ age <= LookbackDays
    /\ \A r \in Runs : pc[r] = "idle"
    /\ invoked \/ age = 0 \/ "idle" \in Faults[age]
    /\ age' = age + 1
    /\ invoked' = FALSE
    /\ UNCHANGED <<bucket, pc, locals>>

\* A store call of the run returns an error, or its function is killed.
Fail(r) ==
    /\ pc[r] # "idle"
    /\ pc[r] \in Faults[age]
    /\ Return(r)
    /\ UNCHANGED <<clock, bucket>>

\* Something other than the compactor leaves a manifest unparsable.
DamageManifest ==
    /\ \E m \in manifests :
          /\ m.id \in Damageable /\ m.readable
          /\ manifests' = (manifests \ {m}) \cup {[m EXCEPT !.readable = FALSE]}
    /\ UNCHANGED <<clock, uploaded, sources, outputs, pc, locals>>

(* Listing and recovery *)

\* Partitions(): the closed days a run considers, as ages.
Window == 1 .. LookbackDays

\* The handler reaches this partition.
Start(r) ==
    /\ pc[r] = "idle"
    /\ age \in Window
    /\ invoked' = TRUE
    /\ Goto(r, "list")
    /\ UNCHANGED <<age, bucket, locals>>

\* List is paginated, so a listing is not a snapshot: the first page ...
ListFirstPage(r) ==
    /\ \/ pc[r] = "list" /\ Goto(r, "listRest")
       \/ pc[r] = "relist" /\ Goto(r, "relistRest")
    /\ seen' = [seen EXCEPT ![r] = sources \cap FirstPage]
    /\ UNCHANGED <<clock, bucket, pending, recovered, batch, todo, rows>>

\* Mutant: CompactPartition no longer finishes interrupted runs.
ListRestWithoutRecovery(r) ==
    /\ pc[r] = "listRest"
    /\ seen' = [seen EXCEPT ![r] = @ \cup (sources \ FirstPage)]
    /\ Goto(r, "select")
    /\ UNCHANGED <<clock, bucket, pending, recovered, batch, todo, rows>>

\* ... and the rest, the manifests among it.
ListRest(r) ==
    /\ pc[r] = "listRest"
    /\ seen' = [seen EXCEPT ![r] = @ \cup (sources \ FirstPage)]
    /\ pending' = [pending EXCEPT ![r] = {m.id : m \in manifests}]
    /\ Goto(r, "recover")
    /\ UNCHANGED <<clock, bucket, recovered, batch, todo, rows>>

\* After a recovery the partition is listed again; only the sources are used.
RelistRest(r) ==
    /\ pc[r] = "relistRest"
    /\ seen' = [seen EXCEPT ![r] = @ \cup (sources \ FirstPage)]
    /\ Goto(r, "select")
    /\ UNCHANGED <<clock, bucket, pending, recovered, batch, todo, rows>>

\* Mutant: recovery deletes every source it listed, not the manifest's.
ReadManifestDeletingAll(r) ==
    /\ pc[r] = "recover"
    /\ \E id \in pending[r] :
          /\ pending' = [pending EXCEPT ![r] = @ \ {id}]
          /\ \E m \in manifests :
                /\ m.id = id
                /\ m.readable
                /\ batch' = [batch EXCEPT ![r] = id]
                /\ todo' = [todo EXCEPT ![r] = seen[r]]
                /\ Goto(r, "recoverDelete")
    /\ UNCHANGED <<clock, bucket, seen, recovered, rows>>

\* Get and parse one listed manifest.  Gone since the listing: the run fails.
\* Unparsable: leave it.  Otherwise its sources that were listed are stale.
ReadManifest(r) ==
    /\ pc[r] = "recover"
    /\ \E id \in pending[r] :
          \/ /\ \A m \in manifests : m.id # id
             /\ Return(r)
          \/ \E m \in manifests :
                /\ m.id = id
                /\ ~ m.readable
                /\ pending' = [pending EXCEPT ![r] = @ \ {id}]
                /\ UNCHANGED <<pc, seen, recovered, batch, todo, rows>>
          \/ \E m \in manifests :
                /\ m.id = id
                /\ m.readable
                /\ pending' = [pending EXCEPT ![r] = @ \ {id}]
                /\ batch' = [batch EXCEPT ![r] = id]
                /\ todo' = [todo EXCEPT ![r] = m.sources \cap seen[r]]
                /\ Goto(r, "recoverDelete")
                /\ UNCHANGED <<seen, recovered, rows>>
    /\ UNCHANGED <<clock, bucket>>

\* Mutant: recovery forgets the manifest before it deletes the sources.
RecoverForgetEarly(r) ==
    /\ pc[r] = "recoverDelete"
    /\ \E m \in manifests : m.id = batch[r]
    /\ manifests' = {m \in manifests : m.id # batch[r]}
    /\ UNCHANGED <<clock, uploaded, sources, outputs, pc, locals>>

\* The sources of an interrupted run are gone: delete its manifest.
RecoverForget(r) ==
    /\ pc[r] = "recoverDelete"
    /\ todo[r] = {}
    /\ manifests' = {m \in manifests : m.id # batch[r]}
    /\ recovered' = [recovered EXCEPT ![r] = TRUE]
    /\ Goto(r, "recover")
    /\ UNCHANGED <<clock, uploaded, sources, outputs,
                   seen, pending, batch, todo, rows>>

\* No manifest left: list again if anything was recovered.
EndRecovery(r) ==
    /\ pc[r] = "recover"
    /\ pending[r] = {}
    /\ Goto(r, IF recovered[r] THEN "relist" ELSE "select")
    /\ UNCHANGED <<clock, bucket, locals>>

(* Merging *)

\* Choose the batch; too few files and the partition is skipped.  A deployment
\* between two runs may change the limits.
Select(r) ==
    /\ pc[r] = "select"
    /\ \E cfg \in Caps : LET chosen == SelectSources(seen[r], cfg) IN
          \/ /\ Cardinality(chosen) < cfg.minFiles
             /\ Return(r)
          \/ /\ Cardinality(chosen) >= cfg.minFiles
             /\ batch' = [batch EXCEPT ![r] = chosen]
             /\ todo' = [todo EXCEPT ![r] = chosen]
             /\ rows' = [rows EXCEPT ![r] = {}]
             /\ Goto(r, "get")
             /\ UNCHANGED <<seen, pending, recovered>>
    /\ UNCHANGED <<clock, bucket>>

\* Mutant: a source that cannot be read is skipped.
GetSourceSkipping(r) ==
    /\ pc[r] = "get"
    /\ \E f \in todo[r] :
          /\ \A g \in todo[r] : f <= g
          /\ todo' = [todo EXCEPT ![r] = @ \ {f}]
          /\ rows' = [rows EXCEPT ![r] = @ \cup ({f} \cap sources)]
          /\ IF todo[r] = {f} THEN Goto(r, "putOutput") ELSE UNCHANGED pc
    /\ UNCHANGED <<clock, bucket, seen, pending, recovered, batch>>

\* Read the sources in key order; one that is gone ends the run.
GetSource(r) ==
    /\ pc[r] = "get"
    /\ \E f \in todo[r] :
          /\ \A g \in todo[r] : f <= g
          /\ \/ f \notin sources /\ Return(r)
             \/ /\ f \in sources
                /\ todo' = [todo EXCEPT ![r] = @ \ {f}]
                /\ rows' = [rows EXCEPT ![r] = @ \cup {f}]
                /\ IF todo[r] = {f} THEN Goto(r, "putOutput") ELSE UNCHANGED pc
                /\ UNCHANGED <<seen, pending, recovered, batch>>
    /\ UNCHANGED <<clock, bucket>>

\* Mutant: an error of the Put is not looked at.
PutOutputUnchecked(r) ==
    /\ pc[r] = "putOutput"
    /\ \/ outputs' = {o \in outputs : o.id # batch[r]}
                        \cup {[id |-> batch[r], rows |-> rows[r]]}
       \/ pc[r] \in Faults[age] /\ UNCHANGED outputs
    /\ Goto(r, "putManifest")
    /\ UNCHANGED <<clock, uploaded, sources, manifests, locals>>

\* Write the merged object; an object of that name is overwritten.
PutOutput(r) ==
    /\ pc[r] = "putOutput"
    /\ outputs' = {o \in outputs : o.id # batch[r]}
                     \cup {[id |-> batch[r], rows |-> rows[r]]}
    /\ Goto(r, "putManifest")
    /\ UNCHANGED <<clock, uploaded, sources, manifests, locals>>

\* Mutant: the run goes on to delete when the manifest could not be written.
PutManifestUnchecked(r) ==
    /\ pc[r] = "putManifest"
    /\ \/ manifests' = {m \in manifests : m.id # batch[r]} \cup
             {[id |-> batch[r], sources |-> batch[r], readable |-> TRUE]}
       \/ pc[r] \in Faults[age] /\ UNCHANGED manifests
    /\ todo' = [todo EXCEPT ![r] = batch[r]]
    /\ Goto(r, "delete")
    /\ UNCHANGED <<clock, uploaded, sources, outputs,
                   seen, pending, recovered, batch, rows>>

\* Record the sources next to it.
PutManifest(r) ==
    /\ pc[r] = "putManifest"
    /\ manifests' = {m \in manifests : m.id # batch[r]} \cup
          {[id |-> batch[r], sources |-> batch[r], readable |-> TRUE]}
    /\ todo' = [todo EXCEPT ![r] = batch[r]]
    /\ Goto(r, "delete")
    /\ UNCHANGED <<clock, uploaded, sources, outputs,
                   seen, pending, recovered, batch, rows>>

\* Delete one more of the batch.  DeleteObjects takes a thousand keys at a
\* time, drops them in any order and may stop part way.
DeleteSource(r) ==
    /\ pc[r] \in {"recoverDelete", "delete"}
    /\ \E f \in todo[r] :
          /\ sources' = sources \ {f}
          /\ todo' = [todo EXCEPT ![r] = @ \ {f}]
    /\ UNCHANGED <<clock, uploaded, outputs, manifests, pc,
                   seen, pending, recovered, batch, rows>>

\* The batch is gone: delete the manifest and report success.
Forget(r) ==
    /\ pc[r] = "delete"
    /\ todo[r] = {}
    /\ manifests' = {m \in manifests : m.id # batch[r]}
    /\ Return(r)
    /\ UNCHANGED <<clock, uploaded, sources, outputs>>

-----------------------------------------------------------------------------
\* One step of CompactPartition.
Step(r) ==
    \/ ListFirstPage(r) \/ ListRest(r) \/ RelistRest(r)
    \/ ReadManifest(r) \/ RecoverForget(r) \/ EndRecovery(r)
    \/ Select(r) \/ GetSource(r) \/ PutOutput(r) \/ PutManifest(r)
    \/ DeleteSource(r) \/ Forget(r)

Next ==
    \/ \E f \in Files : Upload(f)
    \/ NextDay
    \/ DamageManifest
    \/ \E r \in Runs : Start(r) \/ Step(r) \/ Fail(r)

Spec == Init /\ [][Next]_vars

\* Days pass however often the compactor is invoked in one of them; it is
\* invoked every day; and a run that is not killed goes on.
Fairness ==
    /\ SF_vars(NextDay)
    /\ \A r \in Runs : WF_vars(Start(r)) /\ WF_vars(Step(r))

FairSpec == Spec /\ Fairness

-----------------------------------------------------------------------------
(* Properties *)

\* Types; and a loop that deletes or reads has left only keys of its batch.
TypeOK ==
    /\ age \in 0 .. LookbackDays + 1
    /\ invoked \in BOOLEAN
    /\ uploaded \subseteq Files
    /\ sources \subseteq uploaded
    /\ outputs \subseteq Output
    /\ manifests \subseteq Manifest
    /\ pc \in [Runs -> Labels]
    /\ seen \in [Runs -> SUBSET uploaded]
    /\ pending \in [Runs -> SUBSET Ids]
    /\ recovered \in [Runs -> BOOLEAN]
    /\ batch \in [Runs -> Ids]
    /\ todo \in [Runs -> SUBSET Files]
    /\ rows \in [Runs -> SUBSET Files]
    /\ \A r \in Runs : todo[r] \subseteq batch[r]

\* How many copies of f's rows a query counts.
Copies(f) == (IF f \in sources THEN 1 ELSE 0)
             + Cardinality({o \in outputs : f \in o.rows})

Readable == sources \cup UNION {o.rows : o \in outputs}

\* Whatever runs overlap, fail or die, every uploaded row stays readable, no
\* row is invented, and only an upload changes what a query finds: the
\* compactor is invisible to a query that does not count.
Table == INSTANCE LogTable WITH shipped <- uploaded, readable <- Readable
QueriesSeeEveryRow == Table!Spec

\* Every uploaded row is in some object of the partition.
NoRowLost == \A f \in uploaded : f \in Readable

\* A manifest licenses the deletion of its sources by a later run that never
\* looks at the output: the output is there and holds them all.
ManifestVouched ==
    \A m \in manifests :
       \E o \in outputs : o.id = m.id /\ m.sources \subseteq o.rows

\* "Re-running after a crash rewrites the identical object": no run ever
\* changes or removes a merged object that is already there.
OutputsKept == [][outputs \subseteq outputs']_vars

\* Runs that do not overlap leave what an atomic merge would: no row is ever
\* merged twice, a batch is merged whole and within the limits, and nothing
\* that dies half way shows in any other way than as a duplicate.
Batches == {o.rows : o \in outputs}
Lots == {S \in SUBSET Files :
            \E cfg \in Caps : Cardinality(S) >= cfg.minFiles /\ Fits(S, cfg)}
Merges == INSTANCE MergeTable WITH unmerged <- uploaded \ UNION Batches,
                                   batches <- Batches
MergesAreAtomic == Merges!Spec

\* No two merged objects hold the same row.
MergedOnce ==
    \A o, p \in outputs : o # p => o.rows \cap p.rows = {}

\* A row is in both a merged object and a source only where it is cleaned up:
\* under a manifest, by the run about to write one, or in the very batch the
\* next run will select again.
DuplicatesRecoverable ==
    \A o \in outputs :
       \/ o.rows \cap sources = {}
       \/ \E m \in manifests : m.id = o.id /\ m.readable
       \/ \E r \in Runs : pc[r] = "putManifest" /\ batch[r] = o.id
       \/ \E cfg \in Caps : o.id = SelectSources(sources, cfg)

\* Once the partition leaves the look-back window it is clean: each row is
\* there once, and no manifest is left that no run would ever look at.
CleanAfterWindow ==
    age > LookbackDays =>
       manifests = {} /\ \A f \in uploaded : Copies(f) = 1

\* "Anything left over is picked up on the next run": what the window leaves
\* unmerged is less than a batch.
LeftoverBelowMinimum ==
    age > LookbackDays => \A cfg \in Caps : Cardinality(sources) < cfg.minFiles

\* Crashes within the window are made good: from some day on each row counts
\* exactly once, for ever.
EventuallyExactlyOnce == <>[](\A f \in uploaded : Copies(f) = 1)
=============================================================================
