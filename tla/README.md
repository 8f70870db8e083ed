# A verification of cdk-log-to-s3 in TLA+

cdk-log-to-s3 ships the logs of Lambda functions to S3 as Parquet files, lays
an Athena table over them and merges the small files once a day. This directory
holds TLA+ models of its parts, TLC runs that check them on small instances and
TLAPS proofs for every instance.

## The system

| Component | Code | State | Operations | Talks to | Module |
|---|---|---|---|---|---|
| Compactor, one partition | `extension-go/compactor/compact.go`, `store.go` | the objects under one day's prefix; the locals of a run | list, finish interrupted runs, select, read, put output, put manifest, delete sources, delete manifest | S3; other runs only through S3 | `Compaction` |
| Compactor, handler and window | `compactor/main.go`, `config.go` | none; the clock | go over the closed days, report errors, be retried | EventBridge, Lambda | `Retention` |
| Telemetry listener | `extension-go/telemetry.go` | the `runtimeDone` channel, the tickers' context | handle a request, await runtimeDone, tick, flush, stop | Telemetry API (HTTP), event loop (channel), buffer | `Extension` |
| Log buffer | `buffer.go` | `entries`, `bytes`, a mutex | append, size, full, flush | handler, tickers, loop | `Extension` |
| Event loop, start-up | `main.go`, `extapi.go` | which event it waits for | register (retried), subscribe, next event, wait, flush, stop | Extensions API, listener | `Extension` |
| Upload and key | `writer.go`, `s3key.go`, `internal/layout` | none | build the key, put the object | S3 | `Extension`, `Compaction` |
| Parser | `parse.go` | none | classify an event, make entries of it | listener | `Logger`, `Extension` |
| Configuration | `config.go`, `src/private/env.ts` | environment variables | resolve level, prefix, numbers | CDK on one side, Go on the other | `Deployment`, `Logger` |
| Logger | `packages/logger/src` | the store of an async context; the options of a logger | create, derive, emit, run with / set the correlation id | parser, through stdout | `Logger` |
| LogToS3Extension | `src/log-to-s3-extension.ts` | the set of attached functions; their layers, variables, grants | construct, attach | both binaries, through the environment | `Deployment` |
| LogAnalytics | `src/log-analytics.ts` | a table definition | construct, grant a query | Athena | `Deployment`, `Retention` |
| LogCompaction | `src/log-compaction.ts` | a function and a schedule | construct | the compactor, through the environment | `Deployment`, `Retention` |
| LogBucket | `src/log-bucket.ts` | lifecycle rules | construct | S3 | `Retention` |
| Build and check | `scripts/*.ts`, `src/private/assets.ts` | `assets/` | compile, zip, hash, check, resolve | git, npm | `Release` |
| Workflows | `.projenrc.ts`, `.github/workflows/release.yml` | the queue of runs, versions, tags | rebuild and compare, version, publish, tag | git, npm, GitHub | `Release` |
| Schema | `internal/logrecord`, `src/private/schema.ts` | none | columns, Parquet read and write | Athena | - |
| Integration check, example | `scripts/verify-integ.ts`, `scripts/verify-pack.js`, `examples` | none | deploy, query, print | AWS | - |

### What is hard in it, and what makes each part correct

* **Compactor.** It rewrites a table other programs read and write, with no
  transactions: a run can be killed between any two S3 calls, two runs can
  overlap (the schedule, Lambda's retries, a manual invocation) and have been
  deployed with different limits, a listing is not a snapshot, and an upload
  keyed to a closed day can land late. Correct is: no row is ever unreadable; a
  merged object is final; a manifest licenses deletions only of rows that are in
  its output; and when a day leaves the look-back window each row is there once
  and no manifest is left.
* **Listener, buffer and event loop.** Three goroutines share one buffer and one
  signal, and everything stops the moment the loop asks for the next event.
  Correct is: a record is in exactly one place; the environment freezes with
  what was logged on its way to S3; nothing stalls the handler; no failure at
  start-up keeps the function waiting; and shutdown ends, with what was buffered
  uploaded.
* **Configuration, layout, contract.** The same value is resolved on both sides
  of an environment variable, and several instances may attach to one function
  in any order, with throws in between. Correct is: writer, grants, table and
  compactor name one place, and every option arrives or takes its default.
* **Days.** Four clocks bear on an object: the day of its partition, the day it
  was made, the window of the compactor and that of the table. Correct is: what
  is kept can be queried, nothing goes early, every good day of a partition's
  window merges a batch of it, and an invocation that reports success has done
  one day's work.
* **Logger.** Correct is: an id given in one async context is never seen in
  another; a level asked for once governs everything derived from it; a record
  is read back by the extension as it was meant, in every log format, and a line
  that is no record is left as it is.
* **Release.** Builds are interrupted, sources change under them, workflow runs
  queue, overtake each other and fail half way. Correct is: what is published
  can be executed by Lambda; what is stale shows; a tag names its package; no
  push is forgotten.

## Modules

| Module | What it is |
|---|---|
| `LogTable` | the promise of a partition to a query that does not count: it finds what was shipped |
| `MergeTable` | the promise to one that does, for runs that do not overlap: to merge is one step |
| `Compaction` | the compactor on one partition, the bucket, late uploads, deaths, the look-back window; implements `LogTable` and `MergeTable` |
| `CompactionProofs` | for any runs: that no row is lost, merged objects are final, `LogTable` is implemented and each run ends |
| `CompactionOnceProofs` | for runs that do not overlap: that each row ends up there once and `MergeTable` is implemented |
| `LogShipping` | the promise of the extension to the function: records depart in order and in batches, and a batch is stored or given up, once and for good |
| `Extension` | start-up, event loop, handler, tickers, buffer; Lambda, its Telemetry API and S3 around them; implements `LogShipping` |
| `ExtensionProofs` | that no record is lost, that a freeze finds everything collected, that work ends and nobody is stuck; the refinement |
| `Deployment` | a CDK app that builds, attaches and throws, and what the binaries read of it |
| `DeploymentProofs` | that an attachment is whole, its place writable and its settings effective |
| `Retention` | the handler over many days, with the schedule, retries, lifecycle and the table's window |
| `RetentionProofs` | that a day is kept, queried, merged batch by batch within its window, and left alone while it is today |
| `Logger` | loggers, tasks and correlation ids, and the way of a line through the parser and both level filters |
| `LoggerProofs` | that contexts are isolated, that levels govern, that records read back |
| `Registry` | the promise of the release workflow to those who install: versions and tags only grow, by turns, and agree |
| `Release` | working tree, build script, check, `main`, layers workflow, release workflow, npm and tags; implements `Registry` |
| `BuildProofs` | what the build script leaves in `assets/`: zips, sidecars, checks |
| `ReleaseProofs` | the theorems about the workflows, npm and tags; rests on `BuildProofs` |
| `MC...` (+ cfg) | their TLC instances |

`Compaction` and `Retention` share the compactor: the first has every S3 call of
one partition, the second every partition and has the first's work done in one
step that skips, merges one capped batch, or fails. A definition whose comment starts with *Mutant* is
not part of the model: it is a wrong version of the definition after it, kept to
show that a property notices the mistake.

### Compaction

One step is one S3 call (or the choice between two). `pc[r]` is the place of run
`r` in `CompactPartition`; `seen`, `pending`, `batch`, `todo`, `rows` are its
locals: the listed source keys, the listed manifests yet to look at, the source
set being recovered or merged, the keys its current loop has left, the rows it
has read. `sources`, `outputs`, `manifests` are the objects of the partition.

| Action | Code |
|---|---|
| `Start` | the handler reaches the partition, whose day is within the window |
| `ListFirstPage`, `ListRest` | `store.List`; two pages, since the API paginates. `FirstPage` says which sources come before the manifests |
| `ReadManifest`, `DeleteSource`, `RecoverForget`, `EndRecovery` | `finishInterruptedRuns` |
| `ListFirstPage`, `RelistRest` | the second listing, after a recovery |
| `Select` | `selectSources`, the comparison with `MinFiles`, the names; by any of the `Caps` |
| `GetSource` | one turn of the reading loop |
| `PutOutput`, `PutManifest`, `DeleteSource`, `Forget` | the four writes, in that order; `DeleteObjects` may stop part way |
| `Fail` | a call returns an error, or the function is killed: the run forgets its locals |
| `Upload`, `NextDay`, `DamageManifest` | the extension, the clock and the schedule, an outside hand |

A call that took effect and was reported as failed is that call followed by
`Fail`. A source file is a number, in key order, and stands for its rows. A
digest is the set it is computed from: sha256, cut to 64 bits, is taken to be
injective. The names `part-`, `_part-` and `.parquet` that `selectSources` tests
are the separation of the variables `sources`, `outputs` and `manifests`.

`Faults[d]` says at which points a run may die at age `d`, `LateDays` at which
ages uploads still land. There is no bound on the number of deaths or runs. A
run takes its limits from `Caps` when it selects, so that any two runs may have
been deployed with different ones.

### Extension

`phase` is what Lambda does with the environment. Processes run only while it
is thawed. `queue` is telemetry not yet delivered, in order; a request takes any
prefix of it, one request at a time. `handler` is at the parse loop or at the
signal; `pc.main` and `pc.ticker` are the two goroutines; `taken[g]` is what
goroutine `g` took out of the buffer and is uploading.

| Action | Code |
|---|---|
| `Register` | `register`: four attempts, then `os.Exit`; with no sink main goes on without a listener |
| `Subscribe` | `subscribeTelemetry`, whose failure main only reports |
| `Invoke`, `Shutdown`, `NextFails` | what `/event/next` returns |
| `Deliver`, `Parse`, `Signal` | `handleTelemetry`: the request, a turn of its loop, the answer and the send |
| `Await` | `AwaitRuntimeDone`, by the signal or by its timer |
| `Check`, `Tick`, `Swap`, `Upload` | `SizeBytes`, the two tickers, the two halves of `Flush` |
| `Cancel`, `Join`, `Check`, `CloseServer` | `Stop` |
| `Initialised`, `Log`, `Respond`, `Freeze`, `Die` | Lambda and the function |

`Check` and `Tick` look at the size, `Swap` is the locked half of `Flush` and
`Upload` the other half, so everything that can come between them does. One
`Tick` stands for both tickers: the one for a full buffer acts only where the
other one would, so the limit on the buffer's size adds no behaviour. The
event loop's `flush` and Stop's share their labels: `cancelled` tells them
apart. `Report(n)` is the record made of `platform.report`, which Lambda emits
after the release. Whether a wait is configured (`waitOn`), whether there is a
sink (`up`) and whether the port can be bound (`bound`) is chosen once, freely;
`Start` reports success in either case, so main does not know `bound`.

### Deployment

`extension[e]` is what the app constructed `e` from; `layers`, `env` and
`grants` are what attaching has left on each function; `effective[f]` remembers,
for the properties, which attachments went through and with which options.

| Action | Code |
|---|---|
| `BuildExtension` | the constructor, which throws on a bad flush interval, and `fromAttributes` |
| `Attach`, `AttachRefused`, `AttachThrows` | `attach`: through; the two early exits; the throw of `addLayers` after the set was changed |
| `BuildAnalytics`, `BuildCompaction` | the two constructors, by `fromExtension` or with the same options |
| `GrantQuery` | `grantQuery` |

`NormalizePrefix` works on tokens; `LoadConfig`, `ResolvedPrefix` and `Target`
are what the Go side makes of the variables. An app may catch what a call
throws and go on, which is when the order within `attach` matters.

### Retention

Time is a count of UTC days. `sources` and `outputs` are the objects of all
partitions, each with the day of its key and the day it was made; `written`
remembers every source file.

| Action | Code |
|---|---|
| `Write` | the end of `Upload`, which built its key on this day or, when midnight came in between, on the one before |
| `Invoke`, `Retry` | the schedule, and Lambda's retries of an invocation that failed |
| `Compact` | `CompactPartition` succeeds: `Skip`, when `selectSources` leaves fewer than `MinFiles`, or `Merge` of what it leaves |
| `FailOne` | it fails: the error is kept, the loop goes on |
| `Return`, `Die` | the handler's report or error; a time limit |
| `NextDay` | midnight, when S3 expires what is `Due` |

`Partition(i)` is `Partitions()`, by the day the run `started`. `Selected(d)` is
the prefix of a partition's files, in key order, that is within `MaxFiles` and
`MaxBytes`; an archived file is in the way only if it is among those. `Settled(d)`
says that this prefix is less than a batch. `BuildLifecycleRules` is the function
of that name, and `Projected` the range the table is given. A merged object is
made on the day of its merge, not on that of its rows, so it starts to age again.
The limits and the look-back are constants of the module: how
`LogCompaction` and `LoadConfig` hand them on is not modelled.

### Logger

A task is a chain of asynchronous continuations. `stack[t]` is what
AsyncLocalStorage gives it, by the number of the store, and `within[t]`, for the
properties, the runs of `runWithCorrelationId` it is really in. `Spawn`, `Return`
are Node's; `RunWithCorrelationId`, `SetCorrelationId`, `Create`, `Derive` and
`Emit` the package's. `Emit` takes the record through `emit`, its stream and log
format, the parser and the extension's filter in one step, since nothing of it is
shared; `last` holds the row and is forgotten in the next step. `SetEnv` is the
program assigning to `process.env`, which the extension, in a process of its own,
does not see.

A line is the sequence of its parts between tabs: a timestamp with a request id, a
word in capitals, a text, a text that begins with a brace, or an object in JSON,
with what `StructuredFields` takes from it. `Stringify` is `JSON.stringify`: an
entry of the context whose value is undefined is not written, and one that is
circular makes the call throw (`Throws`), in which case nothing is printed.
`Delivered` is what the runtime makes of a line: text with the prefix `cwPrefixRe`
knows, with that prefix and no level, with another or none; or the object of the
JSON format. `FillFromText` looks for a structured record after the prefix and
then from the first tab and brace, `ParseFunction` looks in the envelope too, and
`Columns` is what `applyStructuredFields` copies. `PrintLine` prints what is not
the logger's: among it objects with the sentinel, with a sentinel that is a
number, without one, and after a tab. A `write` function or a `callerRootMarker` of
the program's own is not modelled, and a message is a string, as its type says.

### Release

`src`, `assets` and `job` are a developer's tree and the build script in it;
`main` the commits, each with its layers run; `running` and `pending` the release
workflow and its concurrency group; `npm` and `tags` which commit each version
was published from and tagged at. `BuildSlot` compiles, zips and hashes one
artifact, from sources that may have changed since `StartBuild`;
`InterruptBuild` stops anywhere within it. `Prepare` is `projen release` up to the
check of the assets, `Look` the two comparisons of the workflow, `PublishNpm`,
`PublishGithub` and `JobFails` its jobs. A zip is really laid out, as headers and
data whose offsets count, written by `ZipOf` and read by `ReadZipEntries`.

## Runs

| Run | Question | Result |
|---|---|---|
| `compaction_single` | Do non-overlapping runs leave each row once, however often they die? 5 files, one as large as the cap allows, window of 3 days, late uploads on day 1, deaths on days 1 and 2 | pass |
| `compaction_overlap` | Is a row ever lost? Two runs of differing limits, deaths anywhere, late uploads, a damaged manifest, 3 files | pass |
| `compaction_orphan` | Is it true that a run may die *at any point*? | violated: rows merged twice |
| `compaction_leftover` | Is what a cap leaves over picked up later? | violated: not if fewer than `MinFiles` files fit |
| `extension_all` | Are records in one place each, collected before a freeze, settled before the exit, and is nobody kept waiting? Every outcome of the start, two invocations of two records and a report | pass |
| `extension_stale` | Does a wait end with the records of its own invocation? | violated after a timeout |
| `extension_inflight` | Is no upload in flight in a frozen environment? | violated by a ticker |
| `extension_stop` | Does Stop drain the buffer? | violated by a late delivery |
| `deployment` | Do the binaries read what was asked for, may they write there, and does the table look there? Two instances, two functions, three calls of attach | pass |
| `retention` | Is what is kept in sight, kept long enough, and merged as far as the caps allow? A week, two bad days, late uploads, one partition that may always fail, five ways to set the lifecycle | pass |
| `logger` | Do ids stay apart, levels govern, records come back and other lines stay whole? Three programs: concurrent, levelled, wired | pass |
| `release` | Is what is published sound, is what is stale seen, do tags and packages agree, is every push released? | pass |

What the passing runs establish, beyond types:

* `MergesAreAtomic`, `DuplicatesRecoverable`, `CleanAfterWindow`,
  `EventuallyExactlyOnce`: the protocol of output, manifest, deletion is
  sound for runs that do not overlap: the merged rows grow by whole lots, within
  the limits on files and bytes, each row in one of them at most (`MergeTable`, from which `MergedOnce` follows).
  There is one hole. While uploads still land a run may die at every seam
  *except* in the call that writes the manifest (`compaction_orphan` is that
  seam); once the day is really closed it may die there too, since the next run
  selects the same batch and overwrites the same object. The last day of the
  window must not see a death: no later run visits the partition.
* `ManifestVouched`, `OutputsKept`, `QueriesSeeEveryRow` need none of those
  assumptions, nor limits that stay the same. The last one is the refinement of
  `LogTable`, and says that what is readable is what was shipped (`NoRowLost`).
* `Accounted`: every record is in exactly one of queue, request, buffer, a
  goroutine's hands, S3, or given up after a failed upload.
* `ShipsTheLog`: what the function sees of that is `LogShipping`. `Accounted` says
  where a record is; this says how it may move: the records of sufficient level
  leave the buffer oldest first, whoever flushes; what leaves together is stored
  or given up together; and nothing that left is buffered or uploaded again, as
  it would be if a failed upload put its entries back.
* `CollectedAtFreeze`: while no wait has timed out, a freeze finds everything
  uploaded or in a ticker's upload. `extension_inflight` shows that the last
  clause is needed and `extension_stale` what a timeout starts.
* `ShutdownEnds`, `BufferedIsSettled`: Stop waits for the ticker and the
  request in progress, neither of which ever waits for it.
* `Released`: INIT and each invocation end, whatever fails at the start. With a
  port that is not bound the extension waits out its timeout every time.
* `NoHalfAttachment`: the extensions whose layer a function carries, those whose
  variables it has and those whose grant it has (unless declined) are the same
  ones, also when `attach` throws in the middle and is tried again; a second try
  after a throw of `addLayers` does nothing.
* `LayerOncePerInstance`, `Additive`: one layer per instance attached, and nothing
  is taken away.
* `TargetWritable`, `OnePlace`: the binary writes where it was granted to, the
  table and the compactor look there. Two exceptions are excluded by name: a
  prefix the normalisation does not settle (`/ app`), and, for the table, a
  prefix that normalises to nothing, which the Go side reads as unset.
* `SettingsArrive`: zero and false arrive; a buffer of zero bytes, which the Go
  side does not accept, is excluded.
* `KeptIsQueryable`: holds when the projection window exceeds the expiry *plus
  the look-back window*, since a merge starts an object's age anew. "Wider than
  how long you keep the data" is less than that.
* `KeptLongEnough`: nothing expires early, and zero means never.
* `MergedOnLeaving`, `SuccessMeansMerged`: each good day in its window merges a
  batch of a partition, or finds none, whatever other days and partitions do, as
  long as its objects are not archived first; and a run that reports success has
  merged a batch of each partition in which it found one. That is all the caps
  allow: a partition with more batches than good days leaves its window with
  files over, and a run with files left over, or one that skips a partition for
  good as in `compaction_leftover`, reports success.
* `OnlyClosedDays`: neither a run that sees midnight nor the lifecycle takes
  anything from today.
* `Isolation`, `OneIdPerRun`: a record carries an id of the run it was logged in
  or of the logger it came from, over nesting, spawning and returning.
* `LevelGoverns`: with the four level names a record becomes a row exactly when
  both sides let it. With `WARNING`, `TRACE` or an empty variable next to
  `LOG_LEVEL` the two sides resolve different levels.
* `RoundTrip`: in every log format the parser finds a record of the logger and
  gives its row the columns of what was logged. Of the context it has what JSON
  can hold, and a caller's own `error` key is replaced by the logger's. A context
  of nothing but undefined values does become the empty object that a comment
  (`logger.ts:98-99`) wants never to be emitted. A line that something else
  printed, and that does not end in an object with a `__log_level`, is kept whole,
  whatever tabs, braces and objects it holds; without a level in the prefix, a
  word in capitals before its first tab is taken for one. A line that does end in
  such an object is taken for a record, as `parse.go:186` says.
* `PublishedSound`, `BuildRepairs`: `check:layers` catches each state an
  interrupted build can leave, and a build that finishes repairs it.
* `StaleIsSeen`: README.md:282-284 has it that "CI rebuilds them whenever
  extension-go/ changes and fails if the result differs, so the binaries always
  match the source". A release does not wait for that, and neither
  `scripts/layers.ts` nor `assets/` is in the push filter, so what holds is
  weaker: a stale package has a red or outstanding layers run before it, or one
  of those two pushes.
* `VersionsAreFinal`, `EveryVersionHasNews`, `HeadReleased`: what is on npm and
  what is tagged only grow, by turns and in the order of `main`; no version is
  made for the logger alone; and each push ends tagged, with nothing to release,
  or in a run that failed. A tag always names a version npm has
  (`TagNamesPackage`); after a failure between npm and tag it may be at a later
  commit than that version was published from, which `Registry` allows once
  something has disturbed it.

### Bounds

*Compaction.* Three to five files make batches that overlap, leave a rest and hit
either cap; a third file arriving between two runs is all the orphan needs. Two
runs show every pairwise race; three days of window are a day of late uploads, a
day of deaths and the last day. One manifest that may be damaged, and two
deployments that differ in `MaxFiles`, make the source sets differ.

*Extension.* Two invocations let a signal, a report or a ticker's upload be
carried over into the next one; two records let a flush fall between two appends
of one request.

*Deployment.* Two instances can attach to one function in both orders, and twice
with a throw in between; two layers leave room for one more, or for none. The
props hold the defaults, every tuning option with its zeros, and each kind of
prefix.

*Retention.* A look-back of two days, an expiry of two or three and a week let a
day be written, missed, merged, aged anew and expired, with two days on which
anything fails; one retry. The first day has up to four files of which three fit
the caps, or two with the first among them, so it may hold two batches, one and a
rest, or less than one; the second day has two. No upload sees two midnights.

*Logger.* Three tasks and three runs nest and spawn in each order; the levels and
the formats are checked in programs of their own, since they do not bear on tasks.
The third program logs with contexts that JSON writes, leaves out and throws at,
and prints a dozen lines with tabs, braces and objects in every place.

*Release.* Files of the Go sources, of `scripts/layers.ts` and of the logger are
edited; the other kinds start the same workflows. Two edits, two builds and two pushes let a build die on old sources
and be pushed, and a push overtake a run; one job fails on its own. One
architecture is enough: both come out of the same body of the loop and are
checked alike. A zip may be cut at its first byte, before its end record, or be
whole without its sidecar.

### Fairness

`Compaction`: a run that is not killed goes on (`WF` of `Step`), the compactor is
invoked (`WF` of `Start`: the schedule), and days pass however often it is
invoked in one of them (`SF` of `NextDay`: a day holds finitely many runs).
`Extension`: Lambda notices that the extension is ready or gone, invokes or
shuts down a frozen environment, the function responds, what is due is delivered
while the environment is thawed, goroutines run. A tick is never assumed:
environments are rarely thawed for 15 seconds. The other modules state no
fairness, and no liveness: an app, a developer or a program may stop anywhere.
Deadlock is not checked: a closed window, a dead environment, an app with all its
calls made and a spent bound are ends.

## Proofs

`CompactionProofs` holds for any files, sizes, limits, number of runs, faults,
late days and damageable manifests, under the assumptions named in `Compaction`
(files are finitely many natural numbers, limits positive).

The inductive invariant `IInv` adds to `TypeOK` and `NoRowLost`: a merged object
holds exactly the set that names it (`OutputsExact`); a manifest lists the set
that names it, and that set has been merged (`ManifestsExact`); and by place in
the protocol, what a run has read plus what it has left is its batch, and a run
that may delete has a batch that has been merged (`RunInv`). Without the last two
`NoRowLost` is not inductive: a deletion is safe only because of what the run,
or the manifest it read, did before. There is a lemma per action; `ReturnInv`
serves every early return and death. `OutputsImmutable` follows because `PutOutput`
can only write the object that is already there. `Refinement` adds `Known`
(every set handled was uploaded before), so that what is readable is what was
uploaded, and each step but `Upload` stutters in `LogTable`.

Two more theorems hold for any runs. `RunsEnd` is the part of liveness that needs
no fairness: `CallsLeft(r)`, a number bounded by the files and the manifests a
listing can hold, falls with every step of `r` (`StepsLeftFalls` compares the
places of `CompactPartition` with each other, `StepShortens` goes through the
steps), whatever other runs do; and `r` can make its next call as long as it is
not over (`NoRunStuck`; `Reading` adds that a run which reads has a key left to
read). So a run that is not killed ends. `SkipsOnlySmall` is the counterpart of
`compaction_leftover`: when `minFiles` files are within the limits whatever their
sizes (`Roomy`), a run that skips the partition has seen fewer than that. It rests
on `SelectionEnough`: the first file beyond a batch that is too small would fit. That
a batch is within the limits on files and bytes is `SelectionFits`.

`CompactionOnceProofs` holds for any number of runs that do not overlap, any files
and limits, and deaths anywhere but between the two Puts (`Sole`). There a run may
die too once the day takes no more uploads, provided all runs have the same
limits: then the next one selects the same set. The constants of
`compaction_single` satisfy `Sole`, and `compaction_orphan` is the counterexample
where only the part about uploads fails. A row is in two places from the Put of
the merged object on; `Tidy` says why that ends: a manifest lists it, the run is
about to write one, or the object is an `Orphan`, whose set is the very one the
next run selects.
`Protocol` carries this through a run: its listing knows every source a manifest
names although it is not a snapshot, no manifest is left when it selects, and what
it selects is either merged as a whole or not at all and within the limits.
That makes `PutOutput` the only step `MergeTable` sees apart from uploads, and
either a new lot or the object that is there (`PutOutputMerges`, `BatchOrNot`):
`AtomicMerges`. `CleanAfterWindow` adds that
the last run of the window does not die (`Faults[LookbackDays] = {}`): then it
returns only from a clean bucket (`ReturnCleans`).

`ExtensionProofs` holds for any number of invocations and records per
invocation, any level, and every interleaving, under
`BoundsAssumption` and `ExcludedAssumption`. `IInv` has three parts beside the
types. `Control` is what main, the handler and Lambda know of each other: who can
be where while the environment is frozen, asked to stop or not yet subscribed.
`Placed` says that a record is in at most one place and only once it was logged,
and that what a goroutine has taken from the buffer is what it is uploading.
`Ordered` is the argument for `CollectedAtFreeze`: as long as no wait has timed
out, the current invocation's `runtimeDone` is the last of what is due and passes
from the queue to a request, from there to the handler, and from there to the
signal, so that when main takes the signal everything before it is in the buffer
or further (`Coming`, `Settled`, `AtRest`). `Accounted` rests on the first two,
`CollectedAtFreeze` on all three, and so does `CurrentAtFirst`: `SignalIsCurrent`,
which `extension_stale` refutes, holds until the first wait times out. `Shipment`
maps `Log` and the later report to `LogShipping`'s `Log`, a goroutine's swap to
`Depart` and its upload to `Store` or `GiveUp` of what it has taken, and
everything else to a stutter. By `Placed` what is logged is new and what is taken
is nowhere else; that a swap takes the oldest is `InOrder`, which the queue and
the request keep and a delivery passes on.

The liveness of the extension has a safe half that is proved. `Work` counts what
the queue, the request, the buffer and the two goroutines have still to do; each
step of the extension and each delivery lowers it, and only Lambda and the
function raise it (`WorkIsFinite`). And while the environment is thawed and main
is not waiting for Lambda, main, the handler or the ticker has a step whose guard
holds (`NoDeadlock`). That they do take it is the fairness TLC assumes.

`LoggerProofs` holds for any tasks, variables and programs (`ProgramsAssumption`
types the options). `Stacks` says that a task's stack of stores and its stack of
runs are one sequence, and that a store's id was given in its own run: hence
`Isolation` and `OneIdPerRun`. `Loggers` says that every logger agrees with the
options and the environment its first ancestor was made with; from it each call
is shown to leave a record for which `LevelGoverns` and `RoundTrip` hold
(`LastCall`). Between the two is the parser: `ReadBack` finds an object with the
sentinel behind each prefix and in the envelope, `ColumnsOf` shows its columns to
be those of `Record` after `Stringify` (`WrittenOf`), and `TextIs` that a line
that does not end in such an object is not cut anywhere, since what the parser
cuts off always ends where the line does (`BodyOf`).

`DeploymentProofs` holds for any extensions, functions, options and limits, and
any calls in any order. It assumes of the inputs that a bucket is given
(`PropsAssumption`) and that what a function has from elsewhere does not contain
the package's own variables and layers (`OwnAssumption`): a function that already
sets `LOG_TO_S3_...` by hand is outside the properties. The invariant says of a
function's variables, grants and layers that each is the outcome of the
attachments that went through, in their order (`Variables`, `Grants`, `Carries`),
counts layers against instances (`Counted`) and places the table and the
compactor (`SharePlaces`). A step adds one attachment, or builds an extension
none of them is of; the rest is about prefixes. `NothingHalf` reads the three
equalities of `NoHalfAttachment` off `Carries`, `Variables` and `Grants`.

`RetentionProofs` holds for any lifecycle options, any windows of the compactor
and the table, any limits and sizes of files, and any number of days, files and
retries (`DurationsAssumption`, and `BucketAssumption`: durations are whole days, a
rule's positive). `RulesAsAsked` shows that both ways of giving the rules lead to
the same days. Of the invariant, `Running` says that a run sees one midnight at
most, and `Aged` that a merged object is made within the look-back window and a
midnight of its day and that nothing is overdue: hence `KeptIsQueryable`. `Once`
says that a file is written once and merged once, so that two merges of a
partition are two objects and can be counted. `Progress` says that each partition
a run has passed is `Answered`: it is among the failures, or the run has merged a
batch of it, or no batch is left, or a late file or expiry has disturbed it since;
that is `SuccessMeansMerged` when the run returns. `Seen` says that each closed
day is `CaughtUp`: it has had a batch merged for each of its good days that a run
has `Passed` it on, or none is left, which is `MergedOnLeaving` for every day older
than the window. A partition that no step touches stays caught up
(`StaysCaughtUp`), an upload after midnight makes its day a good one no longer,
and a merge adds one object and passes one day.

`BuildProofs` and `ReleaseProofs` hold for any artifacts and architectures, and
any number of edits, builds, pushes, runs and failing jobs. `BuildProofs` shows
that a zip of one entry is read back by the check as it was written and cut
anywhere is not, that `BuildOrder` visits every slot, and that a build which
meets no edit ends with the tree the sources call for (`TreeInvariant`).

In `ReleaseProofs` nothing but a run of its own changes npm and the tags, and
commits are not changed by what follows them; so what a run has found out stays
true until it ends, however `main` grows. `IInv` has a conjunct for each such
thing: the run's commit passes the check (`RunChecked`), its version has no tag
(`RunNew`), what npm has beyond the tags is no newer than its commit
(`RunOrdered`), what is on npm passed the check (`NpmChecked`), and the head of
`main` is being seen to or needs nothing (`HeadSeen`); with `TagNamesPackage` and
`EveryVersionHasNews` it is inductive. `Finality` maps the upload of a version
that npm does not have to `Registry`'s `Publish`, the GitHub job to `Tag`, and a
job that fails to either or to `Disturb`; that `Publish` goes forward is
`RunChecked`, by which the run's commit has news beyond the last tag
(`UploadedIsNews`). `StaleIsSeen` adds that what a commit has
in `assets/` is explained by its history (`BuildsSeen`).

Only model-checked: the liveness properties (`EventuallyExactlyOnce`,
`ShutdownEnds`, `BufferedIsSettled`, `Released`), which rest on fairness and so on
ENABLED, out of the prover's reach; `RunsEnd`, `WorkIsFinite` and `NoDeadlock` are
the part of their argument that is proved, with the guards of the actions written
out where fairness would say ENABLED.
No module uses a recursive operator, so none of them stands in the way of a proof.

## Not modelled

Left out for good:

* Parquet encoding and the schema: library calls and lists of columns.
* The wording and timestamps of entries, how a call site is cut out of a stack
  trace, and what the constructs declare that carries no behaviour (names,
  descriptions, memory, encryption, log groups, the workgroup).
* Delivery of a batch twice: whether the platform does it is not in this
  repository, and the code has no defence that could be checked.
* `codec`, which `LogCompaction.fromExtension` says the table's compactor should
  share (`src/src/log-compaction.ts:203-204`) and does not take over: Parquet
  files name their codec themselves, so no query depends on it.
* `scripts/verify-integ.ts`, `scripts/verify-pack.js`, `examples/integ`: they
  drive AWS and npm and keep no state of their own.
* The pull-request workflows, the dry run of a release and
  `release-logger.yml`, which publishes the logger alone; `go test` failing in
  the layers workflow, which makes a run red for reasons other than staleness.
