------------------------------- MODULE Release -------------------------------
(***************************************************************************)
(* How the Go binaries get from a developer's working tree to a consumer:  *)
(* scripts/build-layers.ts compiles and zips them under assets/, where     *)
(* they are committed; a push to main starts the layers workflow, which    *)
(* rebuilds and compares them, and the release workflow, which checks and  *)
(* publishes them; a consumer's constructs look them up in the package.    *)
(* Nothing makes the release wait for the layers workflow.                 *)
(*                                                                         *)
(* Abstractions.  A source is the count of its edits.  A zip is a sequence *)
(* of header and data segments, which its offsets count; a zip file in a   *)
(* tree is told by the sources it was built from and by how many of its    *)
(* segments were written, and a file's hash is the file.  main grows by    *)
(* one commit a push.                                                      *)
(***************************************************************************)
EXTENDS Integers, Sequences, FiniteSets

CONSTANTS
    ARTIFACTS,    \* scripts/layers.ts: a sequence of names
    TARGETS,      \* scripts/layers.ts: a sequence of architectures
    Suffixes,     \* private/assets.ts: the values of SUFFIX_BY_ARCHITECTURE
    Edits,        \* the kinds of sources that are edited
    MaxEdits,     \* bound: edits of the working tree
    MaxBuilds,    \* bound: runs of the build script
    MaxPushes,    \* bound: pushes, and pulls of the release by hand
    MaxFaults     \* bound: jobs of the release that fail on their own

ASSUME BoundsAssumption ==
    {MaxEdits, MaxBuilds, MaxPushes, MaxFaults} \subseteq Nat

Kinds == {"go",         \* extension-go/** and .go-version
          "pack",       \* scripts/build-layers.ts and scripts/zip.ts
          "names",      \* scripts/layers.ts
          "workflow",   \* .github/workflows/layers.yml
          "src",        \* the constructs
          "logger"}     \* packages/logger

\* Mutant: the push filter does not name extension-go/.
LayerPathsOfScripts == {"pack", "workflow"}

\* What the layers workflow's push filter names, and what the build reads.
LayerPaths == {"go", "pack", "workflow"}
BuildInputs == {"go", "pack", "names"}

ArtifactNames == {ARTIFACTS[i] : i \in DOMAIN ARTIFACTS}
Architectures == {TARGETS[i] : i \in DOMAIN TARGETS}
Slots == ArtifactNames \X Architectures

\* What a construct may ask for is among what is built.
ASSUME ArtifactsAssumption ==
    /\ ARTIFACTS \in Seq(STRING)
    /\ TARGETS \in Seq(STRING)
    /\ {"layer", "compactor"} \subseteq ArtifactNames
    /\ Suffixes \subseteq Architectures

\* The order of the two loops of build-layers' main.
BuildOrder ==
    [i \in 1 .. Len(ARTIFACTS) * Len(TARGETS) |->
        <<ARTIFACTS[((i - 1) \div Len(TARGETS)) + 1],
          TARGETS[((i - 1) % Len(TARGETS)) + 1]>>]

VARIABLES
    src,        \* working tree: the version of each kind
    assets,     \* working tree: zip and sidecar of each slot, BUILDINFO.json
    job,        \* the build script
    edits,
    builds,
    main,       \* the commits of main, and each one's layers run
    pushes,
    running,    \* the release workflow's run
    pending,    \* the commit of the run queued behind it, 0 for none
    npm,        \* version -> the commit it was published from
    tags,       \* version -> the commit it tags
    rejected,   \* commits whose release run failed
    faults

tree == <<src, assets, job, edits, builds>>
remote == <<main, pushes>>
release == <<running, pending, npm, tags, rejected, faults>>
vars == <<tree, remote, release>>

-----------------------------------------------------------------------------
(* scripts/zip.ts and the reader in scripts/check-layers.ts *)

S_IFREG == 32768        \* 0o100000
Executable == 493       \* 0o755

\* The external attributes are 32 bits wide; their high half is the mode.
ZipOf(entries) ==
    LET n == Len(entries)
        local(e) == <<[kind |-> "local", name |-> e.name],
                      [kind |-> "data", data |-> e.data]>>
        central(i) == [kind |-> "central", name |-> entries[i].name,
                       attrHigh |-> (S_IFREG + entries[i].mode) % 65536,
                       offset |-> 2 * (i - 1)]
    IN  [i \in 1 .. 2 * n |-> local(entries[(i + 1) \div 2])[2 - (i % 2)]]
        \o [i \in 1 .. n |-> central(i)]
        \o <<[kind |-> "eocd", count |-> n, offset |-> 2 * n]>>

EndRecords(zip) == {i \in DOMAIN zip : zip[i].kind = "eocd"}

LastEnd(zip) ==
    zip[CHOOSE i \in EndRecords(zip) : \A j \in EndRecords(zip) : j <= i]
Directory(zip) ==
    SubSeq(zip, LastEnd(zip).offset + 1,
           LastEnd(zip).offset + LastEnd(zip).count)

\* Otherwise the reader throws: no end record, or one that leads nowhere.
Readable(zip) ==
    /\ EndRecords(zip) # {}
    /\ \A i \in DOMAIN Directory(zip) : Directory(zip)[i].kind = "central"

ReadZipEntries(zip) ==
    [i \in DOMAIN Directory(zip) |->
        [name |-> Directory(zip)[i].name, mode |-> Directory(zip)[i].attrHigh]]

\* mode & 0o111
MayExecute(mode) == \E bit \in {1, 8, 64} : (mode \div bit) % 2 = 1

-----------------------------------------------------------------------------
(* scripts/build-layers.ts *)

\* The executable's path in the zip is what scripts/layers.ts says it is.
Entry(slot, names) == <<slot[1], names>>
Version == 0 .. MaxEdits

\* Mutant: the entry is written 0644.
PackUnexecutable(slot, names) ==
    ZipOf(<<[name |-> Entry(slot, names), data |-> slot, mode |-> 420]>>)

\* The zip of a slot by the version of scripts/layers.ts; what is in the
\* binary is told by the file's `from`.
Pack(slot, names) ==
    ZipOf(<<[name |-> Entry(slot, names), data |-> slot,
             mode |-> Executable]>>)

Whole == CHOOSE n \in {Len(Pack(slot, 0)) : slot \in Slots} : TRUE

None == [len |-> -1]        \* no such file
Torn == [len |-> 0]         \* writeFileSync has truncated the file
NoInfo == -1        \* no BUILDINFO.json
TornInfo == -2

\* The first n segments of what a build of sources s packs.
File(s, n) ==
    IF n = 0 THEN Torn
    ELSE [len |-> n, from |-> [k \in BuildInputs |-> s[k]]]

\* What a build of these sources leaves when nothing disturbs it.
Rebuilt(s) ==
    LET zip == [slot \in Slots |-> File(s, Whole)]
    IN  [zip |-> zip, sum |-> zip, info |-> s["go"]]

(* scripts/check-layers.ts: the process fails on a problem and on a throw *)

\* Only a file with its data in it is a megabyte or more.
Runs(entries, name) ==
    \E i \in DOMAIN entries :
        /\ entries[i].name = name
        /\ \A j \in DOMAIN entries : entries[j].name = name => i <= j
        /\ entries[i].mode # 0
        /\ MayExecute(entries[i].mode)

\* Whether the reader finds the wanted entry executable in the first n
\* segments of the zip built under `names`: as an operator, and as the set TLC
\* computes once.
Finds(slot, names, n, wanted) ==
    LET zip == SubSeq(Pack(slot, names), 1, n)
    IN  Readable(zip) /\ Runs(ReadZipEntries(zip), Entry(slot, wanted))

FindsEntry ==
    {q \in Slots \X Version \X (1 .. Whole) \X Version :
        Finds(q[1], q[2], q[3], q[4])}

EntryFound(slot, file, s) ==
    /\ file \notin {None, Torn}
    /\ <<slot, file.from["names"], file.len, s["names"]>> \in FindsEntry

\* Mutant: the sidecar is not compared.
SlotPassesUnhashed(a, s, slot) ==
    /\ a.zip[slot] # None
    /\ a.zip[slot].len >= 2
    /\ EntryFound(slot, a.zip[slot], s)

SlotPasses(a, s, slot) ==
    /\ a.zip[slot] # None
    /\ a.zip[slot].len >= 2
    /\ a.sum[slot] = a.zip[slot]
    /\ EntryFound(slot, a.zip[slot], s)

CheckLayers(a, s) == \A slot \in Slots : SlotPasses(a, s, slot)

-----------------------------------------------------------------------------
(* src/private/assets.ts, in the published package *)

ResolveArtifactAsset(a, name, architecture) ==
    IF architecture \in Suffixes THEN a.zip[<<name, architecture>>]
                                 ELSE None

-----------------------------------------------------------------------------
(* The working tree and its build *)

Commit == Len(main)     \* the head of main
Idle == [at |-> 0]

\* `git diff` of the working tree and the head of main.
Touched ==
    {k \in Kinds : src[k] # main[Commit].src[k]}
    \cup (IF assets # main[Commit].assets THEN {"assets"} ELSE {})

Init ==
    /\ src = [k \in Kinds |-> 0]
    /\ assets = Rebuilt(src)
    /\ job = Idle
    /\ edits = 0
    /\ builds = 0
    /\ main = <<[src |-> src, assets |-> assets, touched |-> {},
                 layers |-> "green"]>>
    /\ pushes = 0
    /\ running = [step |-> "none"]
    /\ pending = 0
    /\ npm = <<1>>
    /\ tags = <<1>>
    /\ rejected = {}
    /\ faults = 0

Edit(k) ==
    /\ edits < MaxEdits
    /\ edits' = edits + 1
    /\ src' = [src EXCEPT ![k] = @ + 1]
    /\ UNCHANGED <<assets, job, builds, remote, release>>

\* Somebody clears assets/ out, to build it from nothing.
Clear ==
    /\ job = Idle
    /\ edits < MaxEdits
    /\ edits' = edits + 1
    /\ assets' = [zip |-> [slot \in Slots |-> None],
                  sum |-> [slot \in Slots |-> None], info |-> NoInfo]
    /\ UNCHANGED <<src, job, builds, remote, release>>

\* The script's own modules are read now, the Go sources at each compile.
StartBuild ==
    /\ job = Idle
    /\ builds < MaxBuilds
    /\ builds' = builds + 1
    /\ job' = [at |-> 1, from |-> src]
    /\ UNCHANGED <<src, assets, edits, remote, release>>

Seen == [job.from EXCEPT !["go"] = src["go"]]
Building == job.at \in DOMAIN BuildOrder

BuildSlot ==
    /\ Building
    /\ LET slot == BuildOrder[job.at]
           file == File(Seen, Whole)
       IN  assets' = [assets EXCEPT !.zip[slot] = file, !.sum[slot] = file]
    /\ job' = [job EXCEPT !.at = @ + 1]
    /\ UNCHANGED <<src, edits, builds, remote, release>>

\* extensionSourceSha reads the Go sources anew.
WriteInfo ==
    /\ job.at = Len(BuildOrder) + 1
    /\ assets' = [assets EXCEPT !.info = src["go"]]
    /\ job' = Idle
    /\ UNCHANGED <<src, edits, builds, remote, release>>

\* The script dies: before it writes, within the zip (at its first byte or
\* before its end record), between the zip and its sidecar, within the
\* sidecar, or within BUILDINFO.json.
InterruptBuild ==
    /\ job # Idle
    /\ job' = Idle
    /\ \/ UNCHANGED assets
       \/ /\ Building
          /\ LET slot == BuildOrder[job.at]
             IN  \/ \E n \in {0, Whole - 1, Whole} :
                      assets' = [assets EXCEPT !.zip[slot] = File(Seen, n)]
                 \/ assets' = [assets EXCEPT !.zip[slot] = File(Seen, Whole),
                                             !.sum[slot] = Torn]
       \/ ~Building /\ assets' = [assets EXCEPT !.info = TornInfo]
    /\ UNCHANGED <<src, edits, builds, remote, release>>

-----------------------------------------------------------------------------
(* main and the layers workflow *)

\* Mutant: a push that finds the workflow busy starts nothing.
EnqueueIfIdle(sha) ==
    IF running.step = "none"
    THEN running' = [step |-> "build", sha |-> sha] /\ UNCHANGED pending
    ELSE UNCHANGED <<running, pending>>

\* The concurrency group: one run in progress and the newest one behind it.
Enqueue(sha) ==
    IF running.step = "none"
    THEN running' = [step |-> "build", sha |-> sha] /\ UNCHANGED pending
    ELSE pending' = sha /\ UNCHANGED running

Push ==
    /\ pushes < MaxPushes
    /\ Touched # {}
    /\ pushes' = pushes + 1
    /\ main' = Append(main,
                 [src |-> src, assets |-> assets, touched |-> Touched,
                  layers |-> IF Touched \cap LayerPaths # {} THEN "queued"
                                                            ELSE "none"])
    /\ Enqueue(Commit + 1)
    /\ UNCHANGED <<tree, npm, tags, rejected, faults>>

\* `git diff` says nothing of a file that is not tracked.
Unchanged(a, b) ==
    /\ a.info \in {b.info, NoInfo}
    /\ \A slot \in Slots : a.zip[slot] \in {b.zip[slot], None}
    /\ \A slot \in Slots : a.sum[slot] \in {b.sum[slot], None}

LayersRun(c) ==
    /\ main[c].layers = "queued"
    /\ main' = [main EXCEPT ![c].layers =
                   IF Unchanged(main[c].assets, Rebuilt(main[c].src))
                   THEN "green" ELSE "red"]
    /\ UNCHANGED <<tree, pushes, release>>

-----------------------------------------------------------------------------
(* The release workflow *)

\* By hand, to try again what failed.
Dispatch ==
    /\ Commit \in rejected
    /\ pushes < MaxPushes
    /\ pushes' = pushes + 1
    /\ Enqueue(Commit)
    /\ UNCHANGED <<tree, main, npm, tags, rejected, faults>>

EndRun ==
    /\ running' = IF pending = 0 THEN [step |-> "none"]
                  ELSE [step |-> "build", sha |-> pending]
    /\ pending' = 0

Tagged == tags[Len(tags)]

\* Mutant: every commit counts.
ReleasableEvery(sha) == sha > Tagged

\* `git log $LATEST_TAG..HEAD -- . ":(exclude)packages/logger"`
Releasable(sha) ==
    \E c \in Tagged + 1 .. sha : main[c].touched \ {"logger"} # {}

\* With nothing to release the version stays the one of the latest tag.
VersionOf(sha) == Len(tags) + (IF Releasable(sha) THEN 1 ELSE 0)

\* `npx projen release`: the version, then build, whose test begins with
\* check:layers.
Prepare ==
    /\ running.step = "build"
    /\ LET c == main[running.sha]
       IN  IF CheckLayers(c.assets, c.src)
           THEN /\ running' = [step |-> "look", sha |-> running.sha,
                               version |-> VersionOf(running.sha)]
                /\ UNCHANGED <<pending, rejected>>
           ELSE EndRun /\ rejected' = rejected \cup {running.sha}
    /\ UNCHANGED <<tree, remote, npm, tags, faults>>

\* "Check if version has already been tagged", "Check for new commits".
Look ==
    /\ running.step = "look"
    /\ IF running.version > Len(tags) /\ running.sha = Commit
       THEN running' = [running EXCEPT !.step = "npm"] /\ UNCHANGED pending
       ELSE EndRun
    /\ UNCHANGED <<tree, remote, npm, tags, rejected, faults>>

\* Mutant: a version npm already has is uploaded again.
UploadedAnyway == Append(npm, running.sha)

\* publib skips a version the registry already has.
Uploaded ==
    IF running.version \in DOMAIN npm THEN npm ELSE Append(npm, running.sha)

PublishNpm ==
    /\ running.step = "npm"
    /\ npm' = Uploaded
    /\ running' = [running EXCEPT !.step = "github"]
    /\ UNCHANGED <<tree, remote, pending, tags, rejected, faults>>

PublishGithub ==
    /\ running.step = "github"
    /\ tags' = Append(tags, running.sha)
    /\ EndRun
    /\ UNCHANGED <<tree, remote, npm, rejected, faults>>

\* Mutant: release_github does not need release_npm.
JobFailsOnward ==
    /\ running.step = "npm"
    /\ faults < MaxFaults
    /\ faults' = faults + 1
    /\ running' = [running EXCEPT !.step = "github"]
    /\ UNCHANGED <<tree, remote, pending, npm, tags, rejected>>

\* A job fails, perhaps after its upload; those that need it are skipped.
JobFails ==
    /\ running.step # "none"
    /\ faults < MaxFaults
    /\ faults' = faults + 1
    /\ rejected' = rejected \cup {running.sha}
    /\ npm' \in {npm} \cup (IF running.step = "npm" THEN {Uploaded} ELSE {})
    /\ EndRun
    /\ UNCHANGED <<tree, remote, tags>>

-----------------------------------------------------------------------------
Next ==
    \/ \E k \in Edits : Edit(k)
    \/ Clear \/ StartBuild \/ BuildSlot \/ WriteInfo \/ InterruptBuild
    \/ Push \/ Dispatch
    \/ \E c \in DOMAIN main : LayersRun(c)
    \/ Prepare \/ Look \/ PublishNpm \/ PublishGithub \/ JobFails

Spec == Init /\ [][Next]_vars

-----------------------------------------------------------------------------
(* Properties *)

\* Types; nothing waits behind a workflow that is not running; and at most
\* one version is on npm without its tag, so a version number is never
\* skipped (`release` and `release_npm` go by the latest tag alone).
TypeOK ==
    /\ \A k \in Kinds : src[k] \in Version
    /\ DOMAIN assets.zip = Slots /\ DOMAIN assets.sum = Slots
    /\ job.at \in 0 .. Len(BuildOrder) + 1
    /\ \A c \in DOMAIN main :
          main[c].layers \in {"none", "queued", "green", "red"}
    /\ pending \in 0 .. Commit
    /\ pending # 0 => running.step # "none"
    /\ \A v \in DOMAIN npm : npm[v] \in 1 .. Commit
    /\ Len(npm) \in {Len(tags), Len(tags) + 1}
    /\ rejected \subseteq DOMAIN main

\* However builds were interrupted and whatever was pushed meanwhile, each
\* artifact a construct may ask a published package for is there, is what
\* its sidecar says, and holds an entry Lambda can execute where Lambda
\* looks for it (check-layers.ts:4-7, "Lambda INIT will fail").
PublishedSound ==
    \A v \in DOMAIN npm : LET c == main[npm[v]] IN
        \A name \in {"layer", "compactor"}, architecture \in Suffixes :
            LET slot == <<name, architecture>>
                file == ResolveArtifactAsset(c.assets, name, architecture)
            IN  /\ EntryFound(slot, file, c.src)
                /\ c.assets.sum[slot] = file

\* README.md:282-284 has it that "CI rebuilds them whenever extension-go/
\* changes and fails if the result differs, so the binaries always match
\* the source".  The release does not wait for that; what is true is that a
\* published package whose binaries or BUILDINFO.json are not those of its
\* sources has a push before it whose layers run is red or outstanding, or
\* one of scripts/layers.ts or assets/ that the push filter leaves out.
StaleIsSeen ==
    \A v \in DOMAIN npm : LET c == npm[v] IN
        \/ Unchanged(main[c].assets, Rebuilt(main[c].src))
        \/ \E d \in 1 .. c :
              \/ main[d].layers \in {"queued", "red"}
              \/ /\ main[d].layers = "none"
                 /\ main[d].touched \cap {"names", "assets"} # {}

\* A tag never names a version npm does not have; and unless a job failed
\* between the two, tag and package are the same commit.  After a failure
\* the version may be tagged at a later commit than it was published from,
\* never at an earlier one.
TagNamesPackage ==
    \A v \in DOMAIN tags :
        /\ v \in DOMAIN npm
        /\ npm[v] <= tags[v]
        /\ faults = 0 => npm[v] = tags[v]

\* Release implements Registry: what is on npm and what is tagged only grow,
\* by turns and in the order of main, and apart from failed jobs agree.
Registered == INSTANCE Registry
    WITH published <- npm, tagged <- tags, disturbed <- faults > 0
VersionsAreFinal == Registered!Spec

\* No version is published for the logger's sake alone: between two tags
\* lies a commit that touches something else (.projenrc.ts, "bumping the
\* logger republishes the construct library with no content change").
EveryVersionHasNews ==
    \A v \in 2 .. Len(tags) :
        \E c \in tags[v - 1] + 1 .. tags[v] :
            main[c].touched \ {"logger"} # {}

\* A build that finishes leaves assets/ whole, passing its own check and
\* equal to what CI will build, whatever interrupted builds had left there,
\* unless sources changed under it.
BuildRepairs ==
    [][WriteInfo /\ job.from = src =>
        assets' = Rebuilt(src) /\ CheckLayers(assets', src)]_vars

\* A push that finds the workflow busy, or that overtakes a run which then
\* publishes nothing, is not forgotten: once the workflow is idle the head
\* of main is tagged, or has nothing to release, or its own run has failed.
HeadReleased ==
    running.step = "none" /\ Releasable(Commit) => Commit \in rejected
=============================================================================
