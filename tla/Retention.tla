------------------------------ MODULE Retention ------------------------------
(***************************************************************************)
(* The log table over the days: the extension writes objects under the     *)
(* date of their keys, the compactor's handler goes over the closed days   *)
(* of its look-back window, the lifecycle of the bucket archives and       *)
(* expires objects, and a query sees the days of the table's projection    *)
(* window.                                                                 *)
(*                                                                         *)
(* Abstractions.  Time is a count of UTC days.  A source file is a number, *)
(* in the order of the keys, which is not that of time; a merged object is *)
(* the set of files it was made of.  What CompactPartition does call by    *)
(* call is the subject of Compaction: here it skips its partition, merges  *)
(* one batch of it or fails without a trace, in one step.                  *)
(***************************************************************************)
EXTENDS Integers, FiniteSets, FiniteSetsExt

CONSTANTS
    BucketProps,    \* LogBucketProps; options not given are fields not there
    Lookback,       \* LogCompactionProps.lookback, in days
    MinFiles,       \* minFilesPerPartition
    MaxFiles,       \* maxFilesPerRun
    MaxBytes,       \* maxBytesPerRun
    Size,           \* Size[n]: bytes of a file numbered n
    Window,         \* LogAnalyticsProps.projectionWindow, in days
    FilesOf,        \* bound: FilesOf[d] files are written for day d
    LastDay,        \* bound: days
    Flaky,          \* the days on which the schedule and the runs may fail
    Stuck,          \* the sets of partitions whose compaction may always fail
    MaxRetries      \* how often Lambda retries an asynchronous invocation

Days == 1 .. LastDay

\* Both constructs refuse less than a day, LoadConfig limits that are not
\* positive.
ASSUME DurationsAssumption ==
    /\ Lookback \in Nat \ {0}
    /\ Window \in Nat \ {0}
    /\ {MinFiles, MaxFiles, MaxBytes} \subseteq Nat \ {0}
    /\ LastDay \in Nat \ {0}
    /\ FilesOf \in [Days -> Nat]
    /\ MaxRetries \in Nat

Source == [day : Days, made : Days, file : Nat]
Output == [day : Days, made : Days, files : SUBSET Nat]

VARIABLES
    bucket,    \* the LogBucketProps the bucket was made with
    stuck,     \* the partitions whose compaction always fails
    today,
    written,   \* every source file ever written, as it was made
    sources,   \* the source files in the bucket
    outputs,   \* the merged objects in the bucket
    pc,        \* where the handler is
    started,   \* the day its run began, by which Partitions goes
    at,        \* the partition the run considers next
    failed,    \* the partitions in its report.Errors
    compacted, \* those counted in its report.Compacted
    retries,   \* retries Lambda has left
    invoked    \* whether the schedule has fired today

config == <<bucket, stuck>>
objects == <<written, sources, outputs>>
handler == <<pc, started, at, failed, compacted, retries>>
vars == <<config, today, objects, handler, invoked>>

-----------------------------------------------------------------------------
(* LogBucket *)

Shorthand == {"infrequentAccessAfter", "glacierAfter", "expireAfter",
              "abortIncompleteUploadsAfter"}

\* Durations are whole days; a rule of CDK's has a positive number of them.
ASSUME BucketAssumption ==
    \A props \in BucketProps :
       /\ \A step \in Shorthand \cap DOMAIN props : props[step] \in Nat
       /\ "lifecycleRules" \in DOMAIN props =>
             \A step \in DOMAIN props.lifecycleRules :
                props.lifecycleRules[step] \in Nat \ {0}

DefaultAfter(step) ==
    CASE step = "infrequentAccessAfter"       -> 30
      [] step = "glacierAfter"                -> 90
      [] step = "expireAfter"                 -> 180
      [] step = "abortIncompleteUploadsAfter" -> 7

After(props, step) ==
    IF step \in DOMAIN props THEN props[step] ELSE DefaultAfter(step)

\* Mutant: a duration of zero is a step like any other.
BuildLifecycleRulesZero(props) ==
    [step \in Shorthand |-> After(props, step)]

\* Zero disables a step; with no step left there is no rule.
BuildLifecycleRules(props) ==
    [step \in {s \in Shorthand : After(props, s) > 0} |-> After(props, step)]

\* The constructor throws when given both ways to say it.
Contradictory(props) ==
    "lifecycleRules" \in DOMAIN props /\ DOMAIN props \cap Shorthand # {}

LifecycleRules(props) ==
    IF "lifecycleRules" \in DOMAIN props THEN props.lifecycleRules
    ELSE BuildLifecycleRules(props)

\* S3 counts days from the making of an object and acts at a midnight.
Due(o, step, day) ==
    LET rules == LifecycleRules(bucket) IN
    step \in DOMAIN rules /\ day > o.made + rules[step]

\* Neither Athena nor the compactor can read an archived object.
Archived(o) == Due(o, "glacierAfter", today)

-----------------------------------------------------------------------------
Init ==
    /\ bucket \in {props \in BucketProps : ~ Contradictory(props)}
    /\ stuck \in Stuck
    /\ today = 1
    /\ written = {}
    /\ sources = {}
    /\ outputs = {}
    /\ pc = "idle"
    /\ started = 1
    /\ at = 1
    /\ failed = {}
    /\ compacted = {}
    /\ retries = 0
    /\ invoked = FALSE

\* An upload ends: the object is made now, in the partition of the day on which
\* Upload built its key, which is over if midnight came in between.  No upload
\* sees two midnights.
Write ==
    /\ \E d \in {today, today - 1} \cap Days : \E n \in 1 .. FilesOf[d] :
          /\ \A w \in written : <<w.day, w.file>> # <<d, n>>
          /\ written' = written \cup {[day |-> d, made |-> today, file |-> n]}
          /\ sources' = sources \cup {[day |-> d, made |-> today, file |-> n]}
    /\ UNCHANGED <<config, today, outputs, handler, invoked>>

\* Midnight UTC, when S3 expires what is due.  A run of minutes sees one
\* midnight at most.
NextDay ==
    /\ today < LastDay
    /\ invoked \/ today \in Flaky
    /\ pc # "idle" => started = today
    /\ today' = today + 1
    /\ sources' = {o \in sources : ~ Due(o, "expireAfter", today + 1)}
    /\ outputs' = {o \in outputs : ~ Due(o, "expireAfter", today + 1)}
    /\ invoked' = FALSE
    /\ UNCHANGED <<config, written, handler>>

\* The locals of a run, which has none of the one before.
Fresh == at' = 1 /\ failed' = {} /\ compacted' = {}

\* A run starts: it fixes the days it goes over.
Run(left) ==
    /\ pc' = "run"
    /\ started' = today
    /\ Fresh
    /\ retries' = left
    /\ UNCHANGED <<config, today, objects>>

\* The schedule fires, once a day.
Invoke ==
    /\ pc = "idle"
    /\ ~ invoked
    /\ Run(MaxRetries)
    /\ invoked' = TRUE

\* Lambda tries a failed invocation again.
Retry ==
    /\ pc = "retry"
    /\ Run(retries - 1)
    /\ UNCHANGED invoked

\* Mutant: the window begins with today.
PartitionToday(i) == started - i + 1

\* Partitions(): the closed days, most recent first.
Partition(i) == started - i

\* Mutant: the window of n days is taken to end with today.
ProjectedShort == today - Window + 1 .. today

\* The partitions a query finds: projection.dt.range is NOW-nDAYS,NOW.
Projected == today - Window .. today

Sources(d) == {o \in sources : o.day = d}
Outputs(d) == {o \in outputs : o.day = d}

\* The loop's two breaks: at most MaxFiles files and, past the first of them,
\* at most MaxBytes.
Fits(prefix) ==
    /\ Cardinality(prefix) <= MaxFiles
    /\ Cardinality(prefix) > 1 => MapThenSumSet(LAMBDA o : Size[o.file], prefix) <= MaxBytes

\* selectSources: the longest prefix, in key order, within the caps.
SelectSources(candidates) ==
    {o \in candidates : Fits({p \in candidates : p.file <= o.file})}

Selected(d) == SelectSources(Sources(d))

\* Nothing is left in the partition that a run would merge.
Settled(d) == Cardinality(Selected(d)) < MinFiles

\* CompactPartition selects fewer than MinFiles files, and reads none of them.
Skip ==
    /\ Settled(Partition(at))
    /\ UNCHANGED <<sources, outputs, compacted>>

\* It merges what it selects; the rest of the partition stays as it is.
Merge ==
    LET d == Partition(at) IN
    /\ ~ Settled(d)
    /\ \A o \in Selected(d) : ~ Archived(o)
    /\ sources' = sources \ Selected(d)
    /\ outputs' = outputs \cup
          {[day |-> d, made |-> today, files |-> {o.file : o \in Selected(d)}]}
    /\ compacted' = compacted \cup {d}

\* CompactPartition succeeds.
Compact ==
    /\ pc = "run"
    /\ at <= Lookback
    /\ Partition(at) \notin stuck
    /\ Skip \/ Merge
    /\ at' = at + 1
    /\ UNCHANGED <<config, today, written, pc, started, failed, retries, invoked>>

\* It fails for what is wrong with the day or the partition, or for a selected
\* file that it cannot read.
CompactFails ==
    /\ pc = "run"
    /\ at <= Lookback
    /\ LET d == Partition(at) IN
          \/ d \in stuck
          \/ started \in Flaky
          \/ ~ Settled(d) /\ \E o \in Selected(d) : Archived(o)
    /\ UNCHANGED <<config, today, objects, pc, started, compacted, retries, invoked>>

\* Mutant: an error ends the loop.
FailOneAndStop ==
    /\ CompactFails
    /\ failed' = failed \cup {Partition(at)}
    /\ at' = Lookback + 1

\* Mutant: an error is logged and forgotten.
FailOneSilently ==
    /\ CompactFails
    /\ at' = at + 1
    /\ UNCHANGED failed

\* CompactPartition fails: the error is kept and the loop goes on.
FailOne ==
    /\ CompactFails
    /\ failed' = failed \cup {Partition(at)}
    /\ at' = at + 1

Again == IF retries > 0 THEN "retry" ELSE "idle"

\* The handler returns its report, or an error if any partition failed.
Return ==
    /\ pc = "run"
    /\ at > Lookback
    /\ pc' = IF failed = {} THEN "idle" ELSE Again
    /\ Fresh
    /\ UNCHANGED <<config, today, objects, started, retries, invoked>>

\* The function times out, or is killed.
Die ==
    /\ pc = "run"
    /\ started \in Flaky
    /\ pc' = Again
    /\ Fresh
    /\ UNCHANGED <<config, today, objects, started, retries, invoked>>

Handler == Compact \/ FailOne \/ Return
Next == Write \/ NextDay \/ Invoke \/ Retry \/ Handler \/ Die

Spec == Init /\ [][Next]_vars

-----------------------------------------------------------------------------
(* Properties *)

\* Types; and a source is made on its day or the next, a merged object by the
\* run of a later day, of enough files that were written.
TypeOK ==
    /\ bucket \in BucketProps
    /\ stuck \in Stuck
    /\ today \in Days
    /\ written \subseteq Source
    /\ \A w \in written : w.made \in {w.day, w.day + 1} /\ w.file \in 1 .. FilesOf[w.day]
    /\ sources \subseteq written
    /\ outputs \subseteq Output
    /\ \A o \in outputs :
          /\ o.made > o.day
          /\ Cardinality(o.files) >= MinFiles
          /\ o.files \subseteq {w.file : w \in {v \in written : v.day = o.day}}
    /\ pc \in {"idle", "run", "retry"}
    /\ started \in Days
    /\ at \in 1 .. Lookback + 1
    /\ retries \in 0 .. MaxRetries
    /\ invoked \in BOOLEAN

\* For how long each step is put off; zero is for ever.
Asked(step) ==
    IF "lifecycleRules" \in DOMAIN bucket
    THEN IF step \in DOMAIN bucket.lifecycleRules THEN bucket.lifecycleRules[step] ELSE 0
    ELSE After(bucket, step)

KeepFor == Asked("expireAfter")

\* What is made that day is to be kept today.
Kept(made) == KeepFor > 0 => today <= made + KeepFor

\* What is kept can be queried.  "Wider than how long you keep the data" is
\* wider by the look-back window and a midnight, since a merged object starts
\* to age again.
KeptIsQueryable ==
    KeepFor > 0 /\ Window > KeepFor + Lookback =>
       \A o \in sources \cup outputs : o.day \in Projected

\* Nothing goes early: the rows of a file are in an object of its day for as
\* long as expireAfter says, and for ever when it is disabled.
KeptLongEnough ==
    \A w \in written : Kept(w.made) =>
       w \in sources \/ \E o \in outputs : o.day = w.day /\ w.file \in o.files

\* The good days of a day's look-back window: those without failures, on which
\* none of its files came late.
GoodDays(d) ==
    {day \in d + 1 .. d + Lookback :
        day \notin Flaky /\ ~ \E w \in written : w.day = d /\ w.made = day}

\* "A failed or skipped run catches up by itself", and "one bad partition must
\* not stop the others": when a day leaves the window a batch of it has been
\* merged for each of its good days, or there is no batch left in it, whatever
\* the other days and the other partitions did, unless its objects were
\* archived or expired first.
MergedOnLeaving ==
    \A d \in Days :
       /\ today > d + Lookback + 1
       /\ d \notin stuck
       /\ Asked("glacierAfter") \notin 1 .. Lookback
       /\ Kept(d)
       => Settled(d) \/ Cardinality(Outputs(d)) >= Cardinality(GoodDays(d))

\* The run has merged a batch of the partition.
MergedInRun(d) == d \in compacted /\ \E o \in Outputs(d) : o.made >= started

\* An invocation that reports success has merged a batch of every partition of
\* its window in which it found one, and one that reports an error gets its
\* retries.  What came late, or has expired, may be different by then.
SuccessMeansMerged ==
    [][pc = "run" /\ pc' = "idle" /\ retries > 0 =>
          \A i \in 1 .. Lookback :
             LET d == Partition(i) IN
             \/ MergedInRun(d)
             \/ Settled(d)
             \/ \E w \in written : w.day = d /\ w.made >= started
             \/ ~ Kept(d)]_vars

\* "Today is left alone while the extension is still writing into it", also by
\* a run that sees midnight.
OnlyClosedDays ==
    [][\A o \in (sources \ sources') \cup (outputs \ outputs') : o.day < today]_vars
=============================================================================
