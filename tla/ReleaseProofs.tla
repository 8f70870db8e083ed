---------------------------- MODULE ReleaseProofs ----------------------------
(***************************************************************************)
(* Proofs about the workflows of Release, for any artifacts and            *)
(* architectures, any sources, and any number of pushes and failing jobs.  *)
(*                                                                         *)
(* A run of the release workflow looks at main, at npm and at the tags at  *)
(* different moments, while main grows.  Nothing but a run of its own      *)
(* changes npm and the tags, and commits are not changed by what follows   *)
(* them; so what a run has found out stays true until it ends, and that is *)
(* the strengthening: a conjunct for each step a run can be at.            *)
(***************************************************************************)
EXTENDS BuildProofs

Elements(s) == {s[i] : i \in DOMAIN s}

\* The parts of a commit that later steps leave alone.
Commits ==
    /\ main \in Seq(Elements(main))
    /\ main # <<>>
    /\ \A c \in DOMAIN main :
          DOMAIN main[c] = {"src", "assets", "touched", "layers"}

Checked == {"look", "npm", "github"}

Shape ==
    /\ Commits
    /\ npm \in Seq(1 .. Commit)
    /\ tags \in Seq(1 .. Commit)
    /\ tags # <<>>
    /\ Len(npm) \in {Len(tags), Len(tags) + 1}
    /\ running \in [step : {"none"}] \cup [step : {"build"}, sha : 1 .. Commit]
          \cup [step : Checked, sha : 1 .. Commit, version : Nat]
    /\ pending \in 0 .. Commit
    /\ pending # 0 => running.step # "none"
    /\ faults \in Nat

Passes(c) == CheckLayers(main[c].assets, main[c].src)

\* What a run knows once it has prepared.
RunChecked ==
    running.step \in Checked =>
        running.version = VersionOf(running.sha) /\ Passes(running.sha)

\* It goes on only with a version that has no tag.
RunNew == running.step \in {"npm", "github"} => running.version = Len(tags) + 1

\* A version on npm that has no tag yet.
HalfPublished == Len(npm) = Len(tags) + 1

RunOrdered ==
    /\ running.step = "npm" /\ HalfPublished => npm[Len(npm)] <= running.sha
    /\ running.step = "github" =>
          /\ HalfPublished
          /\ npm[Len(npm)] <= running.sha
          /\ faults = 0 => npm[Len(npm)] = running.sha
    /\ running.step # "github" /\ faults = 0 => ~ HalfPublished

\* What is published has passed the check.
NpmChecked == \A v \in DOMAIN npm : Passes(npm[v])

\* The head is being seen to, or needs nothing.
HeadSeen ==
    Releasable(Commit) =>
        \/ Commit \in rejected
        \/ running.step # "none" /\ (running.sha = Commit \/ pending = Commit)

IInv ==
    /\ Shape
    /\ RunChecked
    /\ RunNew
    /\ RunOrdered
    /\ NpmChecked
    /\ HeadSeen
    /\ TagNamesPackage
    /\ EveryVersionHasNews

-----------------------------------------------------------------------------
(* Lemmas about sequences and commits *)

\* A sequence is one of its own elements.
LEMMA SeqOfElements ==
  ASSUME NEW S, NEW s \in Seq(S)
  PROVE  s \in Seq(Elements(s))
<1>1. s \in [1 .. Len(s) -> S] /\ Len(s) \in Nat
  BY LenProperties
<1>2. s \in [1 .. Len(s) -> Elements(s)]
  BY <1>1 DEF Elements
<1> QED BY <1>1, <1>2

\* Append leaves what was there.
LEMMA AppendKeeps ==
  ASSUME NEW s, s \in Seq(Elements(s)), NEW e
  PROVE  /\ Append(s, e) \in Seq(Elements(Append(s, e)))
         /\ Len(Append(s, e)) = Len(s) + 1
         /\ \A i \in 1 .. Len(s) : Append(s, e)[i] = s[i]
         /\ Append(s, e)[Len(s) + 1] = e
<1> DEFINE S == Elements(s) \cup {e}
<1>1. s \in Seq(S) /\ e \in S
  BY SeqMonotonic
<1> HIDE DEF S
<1>2. /\ Append(s, e) \in Seq(S)
      /\ Len(Append(s, e)) = Len(s) + 1
      /\ \A i \in 1 .. Len(s) : Append(s, e)[i] = s[i]
      /\ Append(s, e)[Len(s) + 1] = e
  BY <1>1, AppendProperties
<1> QED BY <1>2, SeqOfElements

\* What stays of main: every commit keeps all but its layers run.
MainKept ==
    /\ Commit' >= Commit
    /\ \A c \in 1 .. Commit :
          /\ main'[c].src = main[c].src
          /\ main'[c].assets = main[c].assets
          /\ main'[c].touched = main[c].touched

\* A layers run reports.
LEMMA LayersRunKeeps ==
  ASSUME Commits, NEW c \in DOMAIN main, LayersRun(c)
  PROVE  /\ Commits' /\ Commit' = Commit /\ MainKept
         /\ \A j \in 1 .. Commit : j # c => main'[j].layers = main[j].layers
         /\ main'[c].layers = IF Unchanged(main[c].assets, Rebuilt(main[c].src))
                              THEN "green" ELSE "red"
<1> DEFINE x == IF Unchanged(main[c].assets, Rebuilt(main[c].src))
                THEN "green" ELSE "red"
           e == [main[c] EXCEPT !.layers = x]
           S == Elements(main) \cup {e}
<1>0. main' = [main EXCEPT ![c] = e]
  BY DEF LayersRun
<1> HIDE DEF x
<1>1. main \in Seq(S) /\ e \in S
  BY SeqMonotonic DEF Commits
<1>2. c \in 1 .. Len(main)
  BY LenProperties DEF Commits
<1>3. /\ DOMAIN e = {"src", "assets", "touched", "layers"} /\ e.layers = x
      /\ e.src = main[c].src /\ e.assets = main[c].assets /\ e.touched = main[c].touched
  BY DEF Commits
<1> HIDE DEF S, e
<1>4. /\ main' \in Seq(S)
      /\ Len(main') = Len(main)
      /\ \A j \in 1 .. Len(main) : main'[j] = IF j = c THEN e ELSE main[j]
  BY <1>0, <1>1, <1>2, ExceptSeq
<1>5. main' \in Seq(Elements(main'))
  BY <1>4, SeqOfElements
<1>6. DOMAIN main' = 1 .. Len(main) /\ DOMAIN main = 1 .. Len(main) /\ Len(main) \in Nat
  BY <1>4, LenProperties DEF Commits
<1>7. Elements(main)' = Elements(main')
  BY DEF Elements
<1>8. Commits' /\ Commit' = Commit /\ MainKept
  BY <1>2, <1>3, <1>4, <1>5, <1>6, <1>7 DEF Commits, Commit, MainKept
<1> QED BY <1>2, <1>3, <1>4, <1>8 DEF x, Commit

\* A push appends.
LEMMA PushKeeps ==
  ASSUME Commits, Push
  PROVE  /\ Commits' /\ Commit' = Commit + 1 /\ MainKept
         /\ \A c \in 1 .. Commit : main'[c] = main[c]
         /\ main'[Commit + 1] =
              [src |-> src, assets |-> assets, touched |-> Touched,
               layers |-> IF Touched \cap LayerPaths # {} THEN "queued" ELSE "none"]
<1> DEFINE e == [src |-> src, assets |-> assets, touched |-> Touched,
                 layers |-> IF Touched \cap LayerPaths # {} THEN "queued" ELSE "none"]
<1>0. /\ main' = Append(main, e)
      /\ DOMAIN e = {"src", "assets", "touched", "layers"}
  BY DEF Push
<1> HIDE DEF e
<1>1. /\ main' \in Seq(Elements(main'))
      /\ Len(main') = Len(main) + 1
      /\ \A i \in 1 .. Len(main) : main'[i] = main[i]
      /\ main'[Len(main) + 1] = e
  BY <1>0, AppendKeeps DEF Commits
<1>2. Elements(main)' = Elements(main')
  BY DEF Elements
<1>3. DOMAIN main' = 1 .. Len(main) + 1 /\ DOMAIN main = 1 .. Len(main) /\ Len(main) \in Nat
  BY <1>1, LenProperties DEF Commits
<1>4. ASSUME NEW c \in DOMAIN main'
      PROVE  DOMAIN main'[c] = {"src", "assets", "touched", "layers"}
  BY <1>0, <1>1, <1>3 DEF Commits
<1>5. main' # <<>>
  BY <1>1, <1>3
<1>6. Commits' /\ Commit' = Commit + 1 /\ MainKept
  BY <1>1, <1>2, <1>3, <1>4, <1>5 DEF Commits, Commit, MainKept
<1> QED BY <1>1, <1>6 DEF e, Commit

-----------------------------------------------------------------------------
(* One lemma per action *)

\* What goes on in the working tree is nothing to the workflow.
LEMMA IdleInv ==
  ASSUME IInv, UNCHANGED <<main, release>>
  PROVE  IInv'
<1> USE DEF release
<1>1. Shape'
  BY DEF IInv, Shape, Commits, Commit, Elements
<1>2. RunChecked' /\ RunNew' /\ RunOrdered'
  BY DEF IInv, RunChecked, RunNew, RunOrdered, HalfPublished, Passes, VersionOf,
     Releasable, Tagged
<1>3. NpmChecked' /\ HeadSeen'
  BY DEF IInv, NpmChecked, HeadSeen, Passes, Releasable, Tagged, Commit
<1>4. TagNamesPackage' /\ EveryVersionHasNews'
  BY DEF IInv, TagNamesPackage, EveryVersionHasNews
<1> QED BY <1>1, <1>2, <1>3, <1>4 DEF IInv

\* The tags and their order.
LEMMA TagsShape ==
  ASSUME Shape
  PROVE  /\ Commit \in Nat /\ Commit >= 1
         /\ DOMAIN main = 1 .. Commit
         /\ Len(tags) \in Nat /\ Len(tags) >= 1
         /\ Len(npm) \in Nat /\ Len(npm) >= 1
         /\ DOMAIN npm = 1 .. Len(npm)
         /\ DOMAIN tags = 1 .. Len(tags)
         /\ \A v \in DOMAIN npm : npm[v] \in 1 .. Commit
         /\ \A v \in DOMAIN tags : tags[v] \in 1 .. Commit
         /\ Tagged \in 1 .. Commit
<1>1. Len(main) \in Nat /\ DOMAIN main = 1 .. Len(main) /\ Len(main) # 0
  BY LenProperties, EmptySeq DEF Shape, Commits
<1>2. Len(tags) \in Nat /\ DOMAIN tags = 1 .. Len(tags) /\ Len(tags) # 0
  BY LenProperties, EmptySeq DEF Shape
<1>3. Len(npm) \in Nat /\ DOMAIN npm = 1 .. Len(npm)
  BY LenProperties DEF Shape
<1>4. \A v \in DOMAIN npm : npm[v] \in 1 .. Commit
  BY <1>3, ElementOfSeq DEF Shape
<1>5. \A v \in DOMAIN tags : tags[v] \in 1 .. Commit
  BY <1>2, ElementOfSeq DEF Shape
<1>6. Len(npm) \in {Len(tags), Len(tags) + 1}
  BY DEF Shape
<1>7. Len(tags) >= 1 /\ Len(npm) >= 1 /\ Len(main) >= 1
  <2>1. \A n \in Nat : n # 0 => n >= 1
    OBVIOUS
  <2>2. Len(tags) >= 1 /\ Len(main) >= 1
    BY <1>1, <1>2, <2>1
  <2>3. Len(npm) = Len(tags) \/ Len(npm) = Len(tags) + 1
    BY <1>6
  <2> QED BY <1>2, <2>2, <2>3
<1>8. Len(tags) \in DOMAIN tags
  BY <1>2, <1>7
<1> QED BY <1>1, <1>2, <1>3, <1>4, <1>5, <1>7, <1>8 DEF Commit, Tagged

\* What has been found out about a commit stays so while main grows.
LEMMA KeptInv ==
  ASSUME IInv, Commits', MainKept,
         UNCHANGED <<npm, tags, faults>>,
         running.step \in Checked \cup {"build"} => UNCHANGED running,
         running.step = "none" => running'.step \in {"none", "build"}
  PROVE  /\ RunChecked' /\ RunNew' /\ RunOrdered' /\ NpmChecked'
         /\ TagNamesPackage' /\ EveryVersionHasNews'
<1>1. Shape /\ Commit' \in Nat
  BY LenProperties DEF IInv, Commits, Commit
<1>2. /\ Commit \in Nat /\ Commit >= 1 /\ Tagged \in 1 .. Commit
      /\ Len(tags) \in Nat /\ DOMAIN npm = 1 .. Len(npm) /\ DOMAIN tags = 1 .. Len(tags)
      /\ \A v \in DOMAIN npm : npm[v] \in 1 .. Commit
      /\ \A v \in DOMAIN tags : tags[v] \in 1 .. Commit
  BY <1>1, TagsShape
<1>3. ASSUME NEW c \in 1 .. Commit
      PROVE  Passes(c) <=> CheckLayers(main'[c].assets, main'[c].src)
  BY DEF Passes, MainKept
<1>4. ASSUME NEW c \in 1 .. Commit
      PROVE  Releasable(c)
             <=> \E d \in tags'[Len(tags')] + 1 .. c : main'[d].touched \ {"logger"} # {}
  <2>1. \A d \in Tagged + 1 .. c : main'[d].touched = main[d].touched
    BY <1>2 DEF MainKept
  <2> QED BY <2>1 DEF Releasable, Tagged
<1>5. RunChecked'
  <2> SUFFICES ASSUME running'.step \in Checked
               PROVE  running'.version = VersionOf(running.sha)' /\ Passes(running.sha)'
    BY DEF RunChecked
  <2>1. running' = running /\ running.sha \in 1 .. Commit
    BY <1>1 DEF Shape, Checked
  <2>2. running.version = VersionOf(running.sha) /\ Passes(running.sha)
    BY <2>1 DEF IInv, RunChecked
  <2>3. Passes(running.sha)'
    BY <2>1, <2>2, <1>3 DEF Passes
  <2>4. VersionOf(running.sha)' = VersionOf(running.sha)
    BY <2>1, <1>4 DEF VersionOf, Releasable, Tagged
  <2> QED BY <2>1, <2>2, <2>3, <2>4
<1>6. RunNew' /\ RunOrdered'
  <2>1. running'.step \in Checked => running' = running
    BY <1>1 DEF Shape, Checked
  <2>2. running.step = "github" => running' = running
    BY DEF Checked
  <2> QED BY <2>1, <2>2 DEF IInv, RunNew, RunOrdered, HalfPublished, Checked
<1>7. NpmChecked'
  BY <1>2, <1>3 DEF IInv, NpmChecked, Passes
<1>8. TagNamesPackage'
  BY DEF IInv, TagNamesPackage
<1>9. EveryVersionHasNews'
  <2> SUFFICES ASSUME NEW v \in 2 .. Len(tags)
               PROVE  \E c \in tags[v - 1] + 1 .. tags[v] : main'[c].touched \ {"logger"} # {}
    BY DEF EveryVersionHasNews
  <2>1. PICK c \in tags[v - 1] + 1 .. tags[v] : main[c].touched \ {"logger"} # {}
    BY DEF IInv, EveryVersionHasNews
  <2>2. tags[v - 1] \in 1 .. Commit /\ tags[v] \in 1 .. Commit
    BY <1>2
  <2>3. c \in 1 .. Commit
    BY <2>2, <1>2
  <2> QED BY <2>1, <2>3 DEF MainKept
<1> QED BY <1>5, <1>6, <1>7, <1>8, <1>9

\* A layers run is not looked at by the release.
LEMMA LayersRunInv ==
  ASSUME IInv, NEW c \in DOMAIN main, LayersRun(c)
  PROVE  IInv'
<1>1. Commits' /\ Commit' = Commit /\ MainKept /\ UNCHANGED release
  BY LayersRunKeeps DEF IInv, Shape, LayersRun
<1> USE DEF release
<1>2. Shape'
  BY <1>1 DEF IInv, Shape
<1>3. /\ RunChecked' /\ RunNew' /\ RunOrdered' /\ NpmChecked'
      /\ TagNamesPackage' /\ EveryVersionHasNews'
  <2>1. running.step = "none" => running'.step \in {"none", "build"}
    BY <1>1
  <2> QED BY <1>1, <2>1, KeptInv
<1>4. HeadSeen'
  <2>1. Tagged \in 1 .. Commit
    BY TagsShape DEF IInv
  <2>2. \A d \in Tagged + 1 .. Commit : main'[d].touched = main[d].touched
    BY <1>1, <2>1 DEF MainKept
  <2>3. Releasable(Commit)' <=> Releasable(Commit)
    BY <1>1, <2>2 DEF Releasable, Tagged
  <2> QED BY <1>1, <2>3 DEF IInv, HeadSeen
<1> QED BY <1>2, <1>3, <1>4 DEF IInv

\* A run is queued, or started, for the head.
LEMMA EnqueueShape ==
  ASSUME Shape, Commits', NEW sha \in 1 .. Commit', Enqueue(sha),
         Commit' >= Commit, UNCHANGED <<npm, tags, faults>>
  PROVE  /\ Shape'
         /\ running.step \in Checked \cup {"build"} => UNCHANGED running
         /\ running.step = "none" => running'.step \in {"none", "build"}
         /\ running'.step # "none" /\ (running'.sha = sha \/ pending' = sha)
<1>1. Commit \in Nat /\ Commit' \in Nat
  BY LenProperties DEF Commits, Commit, Shape
<1>2. 1 .. Commit \subseteq 1 .. Commit'
  BY <1>1
<1>3. npm' \in Seq(1 .. Commit') /\ tags' \in Seq(1 .. Commit')
  BY <1>2, SeqMonotonic DEF Shape
<1>4. CASE running.step = "none"
  <2>1. running' = [step |-> "build", sha |-> sha] /\ UNCHANGED pending
    BY <1>4 DEF Enqueue
  <2>2. pending' \in 0 .. Commit' /\ running'.step # "none" /\ running'.sha = sha
    BY <2>1, <1>1 DEF Shape
  <2>3. running' \in [step : {"build"}, sha : 1 .. Commit']
    BY <2>1
  <2>4. Shape'
    BY <1>3, <2>2, <2>3 DEF Shape
  <2> QED BY <2>1, <2>2, <2>4, <1>4 DEF Checked
<1>5. CASE running.step # "none"
  <2>1. UNCHANGED running /\ pending' = sha
    BY <1>5 DEF Enqueue
  <2>2. pending' \in 0 .. Commit'
    BY <2>1, <1>1
  <2>3. running \in [step : {"build"}, sha : 1 .. Commit]
                 \cup [step : Checked, sha : 1 .. Commit, version : Nat]
    BY <1>5 DEF Shape
  <2>4. running' \in [step : {"build"}, sha : 1 .. Commit']
                 \cup [step : Checked, sha : 1 .. Commit', version : Nat]
    BY <2>1, <2>3, <1>2
  <2>5. Shape'
    BY <1>3, <1>5, <2>1, <2>2, <2>4 DEF Shape
  <2> QED BY <2>1, <2>5, <1>5
<1> QED BY <1>4, <1>5

\* A push makes a new head, and a run for it.
LEMMA PushInv ==
  ASSUME IInv, Push
  PROVE  IInv'
<1>1. /\ Commits' /\ Commit' = Commit + 1 /\ MainKept
      /\ Enqueue(Commit + 1) /\ UNCHANGED <<npm, tags, rejected, faults>>
  BY PushKeeps DEF IInv, Shape, Push
<1>2. Commit + 1 \in 1 .. Commit' /\ Commit' >= Commit
  BY <1>1, TagsShape DEF IInv
<1>3. /\ Shape'
      /\ running.step \in Checked \cup {"build"} => UNCHANGED running
      /\ running.step = "none" => running'.step \in {"none", "build"}
      /\ running'.step # "none" /\ (running'.sha = Commit + 1 \/ pending' = Commit + 1)
  BY <1>1, <1>2, EnqueueShape DEF IInv
<1>4. /\ RunChecked' /\ RunNew' /\ RunOrdered' /\ NpmChecked'
      /\ TagNamesPackage' /\ EveryVersionHasNews'
  BY <1>1, <1>3, KeptInv
<1>5. HeadSeen'
  BY <1>1, <1>3 DEF HeadSeen
<1> QED BY <1>3, <1>4, <1>5 DEF IInv

\* So does a try by hand, for a head that has failed.
LEMMA DispatchInv ==
  ASSUME IInv, Dispatch
  PROVE  IInv'
<1>1. /\ Commit \in rejected /\ Enqueue(Commit)
      /\ UNCHANGED <<main, npm, tags, rejected, faults>>
  BY DEF Dispatch
<1>2. /\ Commits' /\ Commit' = Commit /\ MainKept
      /\ Commit \in 1 .. Commit' /\ Commit' >= Commit
  BY <1>1, TagsShape DEF IInv, Shape, Commits, Commit, MainKept, Elements
<1>3. /\ Shape'
      /\ running.step \in Checked \cup {"build"} => UNCHANGED running
      /\ running.step = "none" => running'.step \in {"none", "build"}
  BY <1>1, <1>2, EnqueueShape DEF IInv
<1>4. /\ RunChecked' /\ RunNew' /\ RunOrdered' /\ NpmChecked'
      /\ TagNamesPackage' /\ EveryVersionHasNews'
  BY <1>1, <1>2, <1>3, KeptInv
<1>5. HeadSeen'
  BY <1>1, <1>2 DEF HeadSeen
<1> QED BY <1>3, <1>4, <1>5 DEF IInv

\* A run ends, and the one behind it starts.
LEMMA EndRunShape ==
  ASSUME Shape, EndRun
  PROVE  /\ running' \in [step : {"none"}] \cup [step : {"build"}, sha : 1 .. Commit]
         /\ running'.step \in {"none", "build"}
         /\ pending' = 0
         /\ pending = Commit => running'.step # "none" /\ running'.sha = Commit
<1>1. Commit \in Nat /\ Commit >= 1 /\ pending \in 0 .. Commit
  BY TagsShape DEF Shape
<1>2. CASE pending = 0
  BY <1>1, <1>2 DEF EndRun
<1>3. CASE pending # 0
  BY <1>1, <1>3 DEF EndRun
<1> QED BY <1>2, <1>3

\* What an end of a run leaves alone.
LEMMA EndRunInv ==
  ASSUME IInv, EndRun, UNCHANGED <<main, npm, tags, faults>>,
         running.step # "github",
         Releasable(Commit) =>
            Commit \in rejected' \/ pending = Commit
  PROVE  IInv'
<1>1. Shape
  BY DEF IInv
<1>2. /\ running' \in [step : {"none"}] \cup [step : {"build"}, sha : 1 .. Commit]
      /\ running'.step \in {"none", "build"}
      /\ pending' = 0
      /\ pending = Commit => running'.step # "none" /\ running'.sha = Commit
  BY <1>1, EndRunShape
<1>3. Shape'
  <2>1. Commits' /\ Commit' = Commit
    BY <1>1 DEF Shape, Commits, Commit, Elements
  <2>2. pending' \in 0 .. Commit
    BY <1>1, <1>2, TagsShape
  <2> QED BY <1>1, <1>2, <2>1, <2>2 DEF Shape
<1>4. RunChecked' /\ RunNew' /\ RunOrdered'
  BY <1>2 DEF IInv, RunChecked, RunNew, RunOrdered, Checked, HalfPublished
<1>5. NpmChecked' /\ TagNamesPackage' /\ EveryVersionHasNews'
  BY DEF IInv, NpmChecked, Passes, TagNamesPackage, EveryVersionHasNews
<1>6. HeadSeen'
  BY <1>2 DEF HeadSeen, Releasable, Tagged, Commit
<1> QED BY <1>3, <1>4, <1>5, <1>6 DEF IInv

\* Before the jobs that publish, a run that goes on keeps its commit.
LEMMA GoOnShape ==
  ASSUME Shape, UNCHANGED <<main, npm, tags, faults, pending>>, running.step # "none",
         running' \in [step : Checked, sha : 1 .. Commit, version : Nat]
  PROVE  Shape'
<1>1. Commits' /\ Commit' = Commit
  BY DEF Shape, Commits, Commit, Elements
<1>2. running'.step # "none"
  BY DEF Checked
<1> QED BY <1>1, <1>2 DEF Shape

\* The version and the check.
LEMMA PrepareInv ==
  ASSUME IInv, Prepare
  PROVE  IInv'
<1>1. /\ running.step = "build" /\ Shape
      /\ UNCHANGED <<main, npm, tags, faults>>
  BY DEF IInv, Prepare, remote
<1>2. running.sha \in 1 .. Commit /\ Len(tags) \in Nat
  BY <1>1, TagsShape DEF Shape, Checked
<1>3. CASE Passes(running.sha)
  <2>1. /\ running' = [step |-> "look", sha |-> running.sha,
                       version |-> VersionOf(running.sha)]
        /\ UNCHANGED <<pending, rejected>>
    BY <1>3 DEF Prepare, Passes
  <2>2. running' \in [step : Checked, sha : 1 .. Commit, version : Nat]
    BY <1>2, <2>1 DEF Checked, VersionOf
  <2>3. Shape'
    BY <1>1, <2>1, <2>2, GoOnShape
  <2>4. RunChecked'
    BY <1>1, <1>3, <2>1 DEF RunChecked, Passes, VersionOf, Releasable, Tagged
  <2>5. RunNew' /\ RunOrdered'
    BY <1>1, <2>1 DEF IInv, RunNew, RunOrdered, HalfPublished
  <2>6. NpmChecked' /\ TagNamesPackage' /\ EveryVersionHasNews'
    BY <1>1 DEF IInv, NpmChecked, Passes, TagNamesPackage, EveryVersionHasNews
  <2>7. HeadSeen'
    BY <1>1, <2>1 DEF IInv, HeadSeen, Releasable, Tagged, Commit
  <2> QED BY <2>3, <2>4, <2>5, <2>6, <2>7 DEF IInv
<1>4. CASE ~ Passes(running.sha)
  <2>1. EndRun /\ rejected' = rejected \cup {running.sha}
    BY <1>4 DEF Prepare, Passes
  <2>2. Releasable(Commit) => Commit \in rejected' \/ pending = Commit
    BY <2>1 DEF IInv, HeadSeen
  <2> QED BY <1>1, <2>1, <2>2, EndRunInv
<1> QED BY <1>3, <1>4

\* The comparisons with the tags and with main.
LEMMA LookInv ==
  ASSUME IInv, Look
  PROVE  IInv'
<1>1. /\ running.step = "look" /\ Shape
      /\ UNCHANGED <<main, npm, tags, faults, rejected>>
  BY DEF IInv, Look, remote
<1>2. /\ running \in [step : Checked, sha : 1 .. Commit, version : Nat]
      /\ running.version = VersionOf(running.sha)
      /\ Len(tags) \in Nat
  BY <1>1, TagsShape DEF IInv, RunChecked, Shape, Checked
<1>3. CASE running.version > Len(tags) /\ running.sha = Commit
  <2>1. running' = [running EXCEPT !.step = "npm"] /\ UNCHANGED pending
    BY <1>3 DEF Look
  <2>2. /\ running' \in [step : Checked, sha : 1 .. Commit, version : Nat]
        /\ running'.step = "npm" /\ running'.sha = running.sha
        /\ running'.version = running.version
    BY <1>2, <2>1 DEF Checked
  <2>3. Shape'
    BY <1>1, <2>1, <2>2, GoOnShape
  <2>4. RunChecked'
    BY <1>1, <2>2 DEF IInv, RunChecked, Passes, VersionOf, Releasable, Tagged, Checked
  <2>5. RunNew'
    BY <1>1, <1>2, <1>3, <2>2 DEF RunNew, VersionOf
  <2>6. RunOrdered'
    <3>1. npm[Len(npm)] <= Commit
      BY <1>1, TagsShape
    <3> QED BY <1>1, <1>3, <2>2, <3>1 DEF IInv, RunOrdered, HalfPublished
  <2>7. NpmChecked' /\ TagNamesPackage' /\ EveryVersionHasNews'
    BY <1>1 DEF IInv, NpmChecked, Passes, TagNamesPackage, EveryVersionHasNews
  <2>8. HeadSeen'
    BY <1>1, <2>1, <2>2 DEF IInv, HeadSeen, Releasable, Tagged, Commit
  <2> QED BY <2>3, <2>4, <2>5, <2>6, <2>7, <2>8 DEF IInv
<1>4. CASE ~ (running.version > Len(tags) /\ running.sha = Commit)
  <2>1. EndRun
    BY <1>4 DEF Look
  <2>2. running.sha = Commit => ~ Releasable(Commit)
    BY <1>2, <1>4 DEF VersionOf
  <2>3. Releasable(Commit) => Commit \in rejected' \/ pending = Commit
    BY <1>1, <2>2 DEF IInv, HeadSeen
  <2> QED BY <1>1, <2>1, <2>3, EndRunInv
<1> QED BY <1>3, <1>4

\* What publib leaves on npm.
LEMMA UploadedSound ==
  ASSUME IInv, running.step = "npm"
  PROVE  /\ Uploaded \in Seq(1 .. Commit)
         /\ Len(Uploaded) = Len(tags) + 1
         /\ Uploaded[Len(Uploaded)] <= running.sha
         /\ faults = 0 => Uploaded[Len(Uploaded)] = running.sha
         /\ \A v \in 1 .. Len(tags) : Uploaded[v] = npm[v]
         /\ \A v \in 1 .. Len(Uploaded) : Passes(Uploaded[v])
<1>1. /\ Shape /\ running.version = Len(tags) + 1 /\ Passes(running.sha)
      /\ running.sha \in 1 .. Commit
  BY DEF IInv, RunNew, RunChecked, Shape, Checked
<1>2. /\ npm \in Seq(1 .. Commit)
      /\ DOMAIN npm = 1 .. Len(npm) /\ Len(npm) \in Nat
      /\ Len(tags) \in Nat /\ Len(npm) \in {Len(tags), Len(tags) + 1}
      /\ Commit \in Nat
      /\ \A v \in 1 .. Len(npm) : npm[v] \in 1 .. Commit
  BY <1>1, TagsShape DEF Shape
<1>3. \A v \in 1 .. Len(npm) : Passes(npm[v])
  BY <1>2 DEF IInv, NpmChecked
<1>4. CASE HalfPublished
  <2>1. Uploaded = npm
    BY <1>1, <1>2, <1>4 DEF Uploaded, HalfPublished
  <2>2. npm[Len(npm)] <= running.sha /\ faults # 0
    BY <1>4 DEF IInv, RunOrdered
  <2> QED BY <1>2, <1>3, <1>4, <2>1, <2>2 DEF HalfPublished
<1>5. CASE ~ HalfPublished
  <2>1. Uploaded = Append(npm, running.sha) /\ Len(npm) = Len(tags)
    <3>1. Len(npm) = Len(tags)
      BY <1>2, <1>5 DEF HalfPublished
    <3>2. Len(tags) + 1 \notin 1 .. Len(tags)
      <4>1. \A n \in Nat : n + 1 \notin 1 .. n
        OBVIOUS
      <4> QED BY <4>1, <1>2
    <3>3. running.version \notin DOMAIN npm
      BY <1>1, <1>2, <3>1, <3>2
    <3> QED BY <3>1, <3>3 DEF Uploaded
  <2>2. /\ Uploaded \in Seq(1 .. Commit)
        /\ Len(Uploaded) = Len(npm) + 1
        /\ \A v \in 1 .. Len(npm) : Uploaded[v] = npm[v]
        /\ Uploaded[Len(npm) + 1] = running.sha
    BY <1>1, <1>2, <2>1, AppendProperties
  <2>3. running.sha <= running.sha
    BY <1>1
  <2>4. \A v \in 1 .. Len(Uploaded) : v \in 1 .. Len(npm) \/ v = Len(npm) + 1
    <3>1. \A n \in Nat : \A v \in 1 .. n + 1 : v \in 1 .. n \/ v = n + 1
      OBVIOUS
    <3> QED BY <1>2, <2>2, <3>1
  <2> QED BY <1>1, <1>2, <1>3, <2>1, <2>2, <2>3, <2>4
<1> QED BY <1>4, <1>5

\* The package goes up, unless npm has the version.
LEMMA PublishNpmInv ==
  ASSUME IInv, PublishNpm
  PROVE  IInv'
<1>1. /\ running.step = "npm" /\ Shape /\ npm' = Uploaded
      /\ running' = [running EXCEPT !.step = "github"]
      /\ UNCHANGED <<main, pending, tags, rejected, faults>>
  BY DEF IInv, PublishNpm, remote
<1>2. /\ npm' \in Seq(1 .. Commit)
      /\ Len(npm') = Len(tags) + 1
      /\ npm'[Len(npm')] <= running.sha
      /\ faults = 0 => npm'[Len(npm')] = running.sha
      /\ \A v \in 1 .. Len(tags) : npm'[v] = npm[v]
      /\ \A v \in 1 .. Len(npm') : Passes(npm'[v])
  BY <1>1, UploadedSound
<1>3. running \in [step : Checked, sha : 1 .. Commit, version : Nat]
  BY <1>1 DEF Shape, Checked
<1>4. /\ running' \in [step : Checked, sha : 1 .. Commit, version : Nat]
      /\ running'.step = "github" /\ running'.sha = running.sha
      /\ running'.version = running.version
  BY <1>1, <1>3 DEF Checked
<1>5. Shape'
  <2>1. Commits' /\ Commit' = Commit
    BY <1>1 DEF Shape, Commits, Commit, Elements
  <2>2. running'.step # "none"
    BY <1>4
  <2> QED BY <1>1, <1>2, <1>4, <2>1, <2>2 DEF Shape
<1>6. RunChecked' /\ RunNew'
  BY <1>1, <1>4 DEF IInv, RunChecked, RunNew, Passes, VersionOf, Releasable, Tagged, Checked
<1>7. RunOrdered'
  BY <1>1, <1>2, <1>4 DEF RunOrdered, HalfPublished
<1>8. DOMAIN npm' = 1 .. Len(npm') /\ DOMAIN tags = 1 .. Len(tags) /\ Len(tags) \in Nat
  BY <1>1, <1>2, TagsShape, LenProperties
<1>9. NpmChecked'
  BY <1>1, <1>2, <1>8 DEF NpmChecked, Passes
<1>10. TagNamesPackage' /\ EveryVersionHasNews'
  BY <1>1, <1>2, <1>8 DEF IInv, TagNamesPackage, EveryVersionHasNews
<1>11. HeadSeen'
  BY <1>1, <1>4 DEF IInv, HeadSeen, Releasable, Tagged, Commit
<1> QED BY <1>5, <1>6, <1>7, <1>9, <1>10, <1>11 DEF IInv

\* The tag is set, and the run is over.
LEMMA PublishGithubInv ==
  ASSUME IInv, PublishGithub
  PROVE  IInv'
<1>1. /\ running.step = "github" /\ Shape /\ tags' = Append(tags, running.sha)
      /\ EndRun /\ UNCHANGED <<main, npm, rejected, faults>>
  BY DEF IInv, PublishGithub, remote
<1>2. /\ running.sha \in 1 .. Commit
      /\ running.version = Len(tags) + 1
      /\ running.version = VersionOf(running.sha)
      /\ Len(npm) = Len(tags) + 1
      /\ npm[Len(npm)] <= running.sha
      /\ faults = 0 => npm[Len(npm)] = running.sha
  BY <1>1 DEF IInv, Shape, Checked, RunNew, RunChecked, RunOrdered, HalfPublished
<1>3. /\ Len(tags) \in Nat /\ Len(tags) >= 1 /\ Commit \in Nat /\ Commit >= 1
      /\ DOMAIN npm = 1 .. Len(npm) /\ DOMAIN tags = 1 .. Len(tags)
      /\ Tagged \in 1 .. Commit
  BY <1>1, TagsShape
<1>4. /\ tags' \in Seq(1 .. Commit) /\ tags' # <<>>
      /\ Len(tags') = Len(tags) + 1
      /\ \A v \in 1 .. Len(tags) : tags'[v] = tags[v]
      /\ tags'[Len(tags) + 1] = running.sha
  BY <1>1, <1>2, AppendProperties DEF Shape
<1>5. DOMAIN tags' = 1 .. Len(tags) + 1
  BY <1>4, LenProperties
<1>6. PICK c \in Tagged + 1 .. running.sha : main[c].touched \ {"logger"} # {}
  BY <1>2, <1>3 DEF VersionOf, Releasable
<1>7. /\ running' \in [step : {"none"}] \cup [step : {"build"}, sha : 1 .. Commit]
      /\ running'.step \in {"none", "build"}
      /\ pending' = 0
      /\ pending = Commit => running'.step # "none" /\ running'.sha = Commit
  BY <1>1, EndRunShape
<1>8. Shape'
  <2>1. Commits' /\ Commit' = Commit
    BY <1>1 DEF Shape, Commits, Commit, Elements
  <2>2. pending' \in 0 .. Commit /\ Len(npm) \in {Len(tags'), Len(tags') + 1}
    BY <1>2, <1>3, <1>4, <1>7
  <2> QED BY <1>1, <1>4, <1>7, <2>1, <2>2 DEF Shape
<1>9. RunChecked' /\ RunNew'
  BY <1>7 DEF RunChecked, RunNew, Checked
<1>10. RunOrdered'
  BY <1>1, <1>2, <1>3, <1>4, <1>7 DEF RunOrdered, HalfPublished
<1>11. NpmChecked'
  BY <1>1 DEF IInv, NpmChecked, Passes
<1>12. TagNamesPackage'
  <2> SUFFICES ASSUME NEW v \in 1 .. Len(tags) + 1
               PROVE  /\ v \in DOMAIN npm
                      /\ npm[v] <= tags'[v]
                      /\ faults = 0 => npm[v] = tags'[v]
    BY <1>1, <1>5 DEF TagNamesPackage
  <2>1. CASE v = Len(tags) + 1
    BY <2>1, <1>2, <1>3, <1>4
  <2>2. CASE v \in 1 .. Len(tags)
    BY <2>2, <1>3, <1>4 DEF IInv, TagNamesPackage
  <2> QED BY <2>1, <2>2, <1>3
<1>13. EveryVersionHasNews'
  <2> SUFFICES ASSUME NEW v \in 2 .. Len(tags) + 1
               PROVE  \E d \in tags'[v - 1] + 1 .. tags'[v] :
                         main[d].touched \ {"logger"} # {}
    BY <1>1, <1>4 DEF EveryVersionHasNews
  <2>1. CASE v = Len(tags) + 1
    <3>1. tags'[v - 1] = Tagged /\ tags'[v] = running.sha
      BY <2>1, <1>3, <1>4 DEF Tagged
    <3> QED BY <3>1, <1>6
  <2>2. CASE v \in 2 .. Len(tags)
    <3>1. v \in 1 .. Len(tags) /\ v - 1 \in 1 .. Len(tags)
      BY <2>2, <1>3
    <3>2. tags'[v - 1] = tags[v - 1] /\ tags'[v] = tags[v]
      BY <3>1, <1>4
    <3> QED BY <2>2, <3>2 DEF IInv, EveryVersionHasNews
  <2> QED BY <2>1, <2>2, <1>3
<1>14. HeadSeen'
  <2> SUFFICES ASSUME Releasable(Commit)'
               PROVE  Commit \in rejected \/ (running'.step # "none" /\ running'.sha = Commit)
    BY <1>1 DEF HeadSeen, Commit
  <2>1. PICK d \in running.sha + 1 .. Commit : main[d].touched \ {"logger"} # {}
    BY <1>1, <1>4 DEF Releasable, Tagged, Commit
  <2>2. running.sha # Commit /\ d \in Tagged + 1 .. Commit
    BY <1>2, <1>3, <1>6
  <2>3. Releasable(Commit)
    BY <2>1, <2>2 DEF Releasable
  <2>4. Commit \in rejected \/ pending = Commit
    BY <2>2, <2>3 DEF IInv, HeadSeen
  <2> QED BY <2>4, <1>7
<1> QED BY <1>8, <1>9, <1>10, <1>11, <1>12, <1>13, <1>14 DEF IInv

\* A job fails; the version may have reached npm before.
LEMMA JobFailsInv ==
  ASSUME IInv, JobFails
  PROVE  IInv'
<1>1. /\ running.step # "none" /\ Shape /\ faults' = faults + 1
      /\ rejected' = rejected \cup {running.sha}
      /\ npm' = npm \/ (running.step = "npm" /\ npm' = Uploaded)
      /\ EndRun /\ UNCHANGED <<main, tags>>
  <2>1. npm' = npm \/ (running.step = "npm" /\ npm' = Uploaded)
    BY DEF JobFails
  <2> QED BY <2>1 DEF IInv, JobFails, remote
<1>2. /\ Len(tags) \in Nat /\ DOMAIN tags = 1 .. Len(tags) /\ DOMAIN npm = 1 .. Len(npm)
      /\ Commit \in Nat
  BY <1>1, TagsShape
<1>3. /\ npm' \in Seq(1 .. Commit)
      /\ Len(npm') \in {Len(tags), Len(tags) + 1}
      /\ \A v \in 1 .. Len(tags) : npm'[v] = npm[v]
      /\ \A v \in DOMAIN npm' : Passes(npm'[v])
  <2>1. CASE npm' = npm
    BY <2>1, <1>1 DEF IInv, Shape, NpmChecked
  <2>2. CASE running.step = "npm" /\ npm' = Uploaded
    BY <2>2, UploadedSound, LenProperties
  <2> QED BY <1>1, <2>1, <2>2
<1>4. /\ running' \in [step : {"none"}] \cup [step : {"build"}, sha : 1 .. Commit]
      /\ running'.step \in {"none", "build"}
      /\ pending' = 0
      /\ pending = Commit => running'.step # "none" /\ running'.sha = Commit
  BY <1>1, EndRunShape
<1>5. faults' \in Nat /\ faults' # 0
  BY <1>1 DEF Shape
<1>6. Shape'
  <2>1. Commits' /\ Commit' = Commit
    BY <1>1 DEF Shape, Commits, Commit, Elements
  <2>2. pending' \in 0 .. Commit
    BY <1>2, <1>4
  <2> QED BY <1>1, <1>3, <1>4, <1>5, <2>1, <2>2 DEF Shape
<1>7. RunChecked' /\ RunNew' /\ RunOrdered'
  BY <1>4, <1>5 DEF RunChecked, RunNew, RunOrdered, Checked
<1>8. NpmChecked'
  BY <1>1, <1>3 DEF NpmChecked, Passes
<1>9. TagNamesPackage'
  <2> SUFFICES ASSUME NEW v \in 1 .. Len(tags)
               PROVE  v \in DOMAIN npm' /\ npm'[v] <= tags[v]
    BY <1>1, <1>2, <1>5 DEF TagNamesPackage
  <2>1. v \in DOMAIN npm'
    BY <1>2, <1>3, LenProperties
  <2> QED BY <2>1, <1>2, <1>3 DEF IInv, TagNamesPackage
<1>10. EveryVersionHasNews'
  BY <1>1 DEF IInv, EveryVersionHasNews
<1>11. HeadSeen'
  BY <1>1, <1>4 DEF IInv, HeadSeen, Releasable, Tagged, Commit
<1> QED BY <1>6, <1>7, <1>8, <1>9, <1>10, <1>11 DEF IInv

-----------------------------------------------------------------------------
(* The invariant *)

\* The first release satisfies the invariant.
LEMMA InitInv == Init => IInv
<1> SUFFICES ASSUME Init PROVE IInv
  OBVIOUS
<1> DEFINE e == [src |-> src, assets |-> assets, touched |-> {}, layers |-> "green"]
<1>1. /\ main = <<e>> /\ npm = <<1>> /\ tags = <<1>> /\ faults = 0 /\ pending = 0
      /\ running = [step |-> "none"]
      /\ DOMAIN e = {"src", "assets", "touched", "layers"}
      /\ e.src = src /\ e.assets = Rebuilt(src) /\ src["names"] = 0 /\ e.touched = {}
  BY DEF Init, Kinds
<1> HIDE DEF e
<1>2. CheckLayers(e.assets, e.src)
  <2>1. src["names"] \in Version
    BY <1>1, BoundsAssumption DEF Version
  <2> QED BY <1>1, <2>1, RebuiltPasses
<1>3. /\ main \in Seq({e}) /\ Len(main) = 1 /\ DOMAIN main = {1} /\ main[1] = e
      /\ main # <<>>
  BY <1>1
<1>4. Commits /\ Commit = 1
  BY <1>1, <1>3, SeqOfElements DEF Commits, Commit
<1>5. /\ npm \in Seq(1 .. 1) /\ tags \in Seq(1 .. 1) /\ tags # <<>>
      /\ Len(npm) = 1 /\ Len(tags) = 1 /\ DOMAIN npm = {1} /\ DOMAIN tags = {1}
      /\ npm[1] = 1 /\ tags[1] = 1
  BY <1>1
<1>6. Shape
  BY <1>1, <1>4, <1>5 DEF Shape
<1>7. RunChecked /\ RunNew /\ RunOrdered
  BY <1>1, <1>5 DEF RunChecked, RunNew, RunOrdered, Checked, HalfPublished
<1>8. NpmChecked
  BY <1>2, <1>3, <1>5 DEF NpmChecked, Passes
<1>9. HeadSeen
  BY <1>4, <1>5 DEF HeadSeen, Releasable, Tagged
<1>10. TagNamesPackage /\ EveryVersionHasNews
  BY <1>5 DEF TagNamesPackage, EveryVersionHasNews
<1> QED BY <1>6, <1>7, <1>8, <1>9, <1>10 DEF IInv

\* Every step keeps the invariant.
LEMMA NextInv == IInv /\ [Next]_vars => IInv'
<1> SUFFICES ASSUME IInv, [Next]_vars PROVE IInv'
  OBVIOUS
<1>1. ASSUME NEW k \in Edits, Edit(k) PROVE IInv'
  BY <1>1, IdleInv DEF Edit, remote
<1>2. CASE Clear \/ StartBuild \/ BuildSlot \/ WriteInfo \/ InterruptBuild
  BY <1>2, IdleInv DEF Clear, StartBuild, BuildSlot, WriteInfo, InterruptBuild, remote
<1>3. CASE UNCHANGED vars
  BY <1>3, IdleInv DEF vars, remote
<1> QED
  BY <1>1, <1>2, <1>3, LayersRunInv, PushInv, DispatchInv, PrepareInv, LookInv,
     PublishNpmInv, PublishGithubInv, JobFailsInv DEF Next

\* The invariant of the release workflow.
LEMMA Invariant == Spec => []IInv
BY InitInv, NextInv, PTL DEF Spec

-----------------------------------------------------------------------------
(* What main remembers of its builds *)

\* Two commits that CI builds alike and that hold the same assets/.
SameBuild(c, d) ==
    /\ main[c].assets = main[d].assets
    /\ \A k \in BuildInputs : main[c].src[k] = main[d].src[k]

\* A commit that has a layers run, or one of the pushes the filter leaves out.
Watched(d) == main[d].layers # "none" \/ main[d].touched \cap {"names", "assets"} # {}

\* What main remembers: a green run is right, and behind each commit is one
\* that brought its sources and assets/ together.
History(c) ==
    /\ main[c].layers \in {"none", "queued", "green", "red"}
    /\ main[c].layers = "green" => Unchanged(main[c].assets, Rebuilt(main[c].src))
    /\ \E d \in 1 .. c : Watched(d) /\ SameBuild(c, d)

BuildsSeen == \A c \in 1 .. Commit : History(c)

\* A build reads nothing but its inputs.
LEMMA RebuiltAlike ==
  ASSUME NEW s, NEW t, \A k \in BuildInputs : s[k] = t[k]
  PROVE  Rebuilt(s) = Rebuilt(t)
BY DEF Rebuilt, File, BuildInputs

\* The first commit holds its own build.
LEMMA BuildsSeenInit == Init => BuildsSeen
<1> SUFFICES ASSUME Init PROVE BuildsSeen
  OBVIOUS
<1> DEFINE e == [src |-> src, assets |-> assets, touched |-> {}, layers |-> "green"]
<1>1. main = <<e>> /\ e.layers = "green" /\ e.assets = Rebuilt(e.src)
  BY DEF Init
<1> HIDE DEF e
<1>2. Commit = 1 /\ main[1] = e
  BY <1>1 DEF Commit
<1>3. Unchanged(main[1].assets, Rebuilt(main[1].src))
  BY <1>1, <1>2 DEF Unchanged
<1>4. Watched(1) /\ SameBuild(1, 1)
  BY <1>1, <1>2 DEF Watched, SameBuild
<1>5. History(1)
  BY <1>1, <1>2, <1>3, <1>4 DEF History
<1> QED BY <1>2, <1>5 DEF BuildsSeen

\* A push the layers workflow does not see and that touches neither
\* scripts/layers.ts nor assets/ is like the commit before it.
LEMMA BuildsSeenPush ==
  ASSUME IInv, BuildsSeen, Push
  PROVE  BuildsSeen'
<1>0. Commit \in Nat /\ Commit \in 1 .. Commit /\ Commits
  BY TagsShape DEF IInv, Shape
<1> PICK n \in Nat : n = Commit + 1
  BY <1>0
<1>1. /\ Commit' = n /\ Commit \in Nat /\ Commit \in 1 .. Commit
      /\ \A c \in 1 .. Commit : main'[c] = main[c]
      /\ main'[n] =
           [src |-> src, assets |-> assets, touched |-> Touched,
            layers |-> IF Touched \cap LayerPaths # {} THEN "queued" ELSE "none"]
  BY <1>0, PushKeeps
<1>2. ASSUME NEW c \in 1 .. Commit PROVE History(c)'
  <2>1. PICK d \in 1 .. c : Watched(d) /\ SameBuild(c, d)
    BY DEF BuildsSeen, History
  <2>2. main'[c] = main[c] /\ main'[d] = main[d]
    BY <1>1, <2>1
  <2>3. Watched(d)' /\ SameBuild(c, d)'
    BY <2>1, <2>2 DEF Watched, SameBuild
  <2> QED BY <2>2, <2>3, <1>1 DEF BuildsSeen, History
<1>3. History(n)'
  <2>1. CASE Touched \cap LayerPaths # {} \/ Touched \cap {"names", "assets"} # {}
    <3>1. Watched(n)' /\ SameBuild(n, n)'
      BY <1>1, <2>1 DEF Watched, SameBuild
    <3> QED BY <1>1, <3>1 DEF History
  <2>2. CASE Touched \cap LayerPaths = {} /\ Touched \cap {"names", "assets"} = {}
    <3>1. \A k \in BuildInputs : src[k] = main[Commit].src[k]
      BY <2>2 DEF Touched, LayerPaths, BuildInputs, Kinds
    <3>2. assets = main[Commit].assets
      BY <2>2 DEF Touched
    <3>3. PICK d \in 1 .. Commit : Watched(d) /\ SameBuild(Commit, d)
      BY <1>1 DEF BuildsSeen, History
    <3>4. Watched(d)' /\ SameBuild(n, d)'
      BY <1>1, <3>1, <3>2, <3>3 DEF Watched, SameBuild
    <3> QED BY <1>1, <2>2, <3>4 DEF History
  <2> QED BY <2>1, <2>2
<1> QED BY <1>1, <1>2, <1>3 DEF BuildsSeen

\* A layers run is green only for what a build would leave.
LEMMA BuildsSeenLayersRun ==
  ASSUME IInv, BuildsSeen, NEW r \in DOMAIN main, LayersRun(r)
  PROVE  BuildsSeen'
<1>1. /\ Commit' = Commit /\ MainKept /\ r \in 1 .. Commit
      /\ \A j \in 1 .. Commit : j # r => main'[j].layers = main[j].layers
      /\ main'[r].layers = IF Unchanged(main[r].assets, Rebuilt(main[r].src))
                           THEN "green" ELSE "red"
  BY LayersRunKeeps, TagsShape DEF IInv, Shape
<1>2. ASSUME NEW c \in 1 .. Commit PROVE History(c)'
  <2>1. PICK d \in 1 .. c : Watched(d) /\ SameBuild(c, d)
    BY DEF BuildsSeen, History
  <2>2. d \in 1 .. Commit
    BY TagsShape DEF IInv
  <2>3. Watched(d)' /\ SameBuild(c, d)'
    BY <1>1, <2>1, <2>2 DEF Watched, SameBuild, MainKept
  <2>4. /\ main'[c].layers \in {"none", "queued", "green", "red"}
        /\ main'[c].layers = "green" => Unchanged(main'[c].assets, Rebuilt(main'[c].src))
    BY <1>1 DEF BuildsSeen, History, MainKept
  <2> QED BY <2>3, <2>4 DEF History
<1> QED BY <1>1, <1>2 DEF BuildsSeen

\* Nothing else changes main.
LEMMA BuildsSeenNext == IInv /\ BuildsSeen /\ [Next]_vars => BuildsSeen'
<1> SUFFICES ASSUME IInv, BuildsSeen, [Next]_vars PROVE BuildsSeen'
  OBVIOUS
<1>1. ASSUME UNCHANGED main PROVE BuildsSeen'
  BY <1>1 DEF BuildsSeen, History, Watched, SameBuild, Commit
<1>2. CASE UNCHANGED vars
  BY <1>2, <1>1 DEF vars, remote
<1>3. ASSUME NEW k \in Edits, Edit(k) PROVE BuildsSeen'
  BY <1>3, <1>1 DEF Edit, remote
<1>4. CASE Clear \/ StartBuild \/ BuildSlot \/ WriteInfo \/ InterruptBuild
  BY <1>4, <1>1 DEF Clear, StartBuild, BuildSlot, WriteInfo, InterruptBuild, remote
<1>5. CASE Dispatch \/ Prepare \/ Look \/ PublishNpm \/ PublishGithub \/ JobFails
  BY <1>5, <1>1 DEF Dispatch, Prepare, Look, PublishNpm, PublishGithub, JobFails, remote
<1> QED BY <1>2, <1>3, <1>4, <1>5, BuildsSeenPush, BuildsSeenLayersRun DEF Next

-----------------------------------------------------------------------------
(* Theorems *)

\* Commits whose run has failed are commits of main.
RejectedOK == rejected \subseteq 1 .. Commit

\* Nothing has failed yet.
LEMMA RejectedInit == Init => RejectedOK
BY DEF Init, RejectedOK

\* Only a run that is on fails, and it runs on a commit of main.
LEMMA RejectedNext == IInv /\ RejectedOK /\ [Next]_vars => RejectedOK'
<1> SUFFICES ASSUME IInv, RejectedOK, [Next]_vars PROVE RejectedOK'
  OBVIOUS
<1>1. Commit \in Nat /\ (running.step # "none" => running.sha \in 1 .. Commit)
  BY TagsShape DEF IInv, Shape
<1>2. CASE Push
  <2>1. Commit' = Commit + 1 /\ rejected' = rejected
    BY <1>2, PushKeeps DEF IInv, Shape, Push
  <2> QED BY <1>1, <2>1 DEF RejectedOK
<1>3. ASSUME NEW c \in DOMAIN main, LayersRun(c) PROVE RejectedOK'
  <2>1. Commit' = Commit /\ rejected' = rejected
    BY <1>3, LayersRunKeeps DEF IInv, Shape, LayersRun, release
  <2> QED BY <2>1 DEF RejectedOK
<1>4. CASE Prepare \/ JobFails
  <2>1. /\ UNCHANGED main /\ running.step # "none"
        /\ rejected' \in {rejected, rejected \cup {running.sha}}
    BY <1>4 DEF Prepare, JobFails, remote
  <2> QED BY <1>1, <2>1 DEF RejectedOK, Commit
<1>5. ASSUME UNCHANGED <<main, rejected>> PROVE RejectedOK'
  BY <1>5 DEF RejectedOK, Commit
<1>6. CASE UNCHANGED vars
  BY <1>6, <1>5 DEF vars, remote, release
<1>7. ASSUME NEW k \in Edits, Edit(k) PROVE RejectedOK'
  BY <1>7, <1>5 DEF Edit, remote, release
<1>8. CASE Clear \/ StartBuild \/ BuildSlot \/ WriteInfo \/ InterruptBuild
  BY <1>8, <1>5 DEF Clear, StartBuild, BuildSlot, WriteInfo, InterruptBuild, remote, release
<1>9. CASE Dispatch \/ Look \/ PublishNpm \/ PublishGithub
  BY <1>9, <1>5 DEF Dispatch, Look, PublishNpm, PublishGithub, remote
<1> QED BY <1>2, <1>3, <1>4, <1>6, <1>7, <1>8, <1>9 DEF Next

\* The types, for every value of the constants; nothing waits behind a
\* workflow that is not running, and at most one version is on npm untagged.
THEOREM TypeCorrect == Spec => []TypeOK
<1>1. ASSUME IInv, BuildsSeen, TreeInvariant, RejectedOK PROVE TypeOK
  <2>1. /\ \A k \in Kinds : src[k] \in Version
        /\ DOMAIN assets.zip = Slots /\ DOMAIN assets.sum = Slots
        /\ job.at \in 0 .. Len(BuildOrder) + 1
    BY <1>1, BoundsAssumption, BuildOrderVisits DEF TreeInvariant, TreeShape, Version, Idle
  <2>2. \A c \in DOMAIN main : main[c].layers \in {"none", "queued", "green", "red"}
    BY <1>1, TagsShape DEF IInv, BuildsSeen, History
  <2>3. /\ pending \in 0 .. Commit
        /\ pending # 0 => running.step # "none"
        /\ \A v \in DOMAIN npm : npm[v] \in 1 .. Commit
        /\ Len(npm) \in {Len(tags), Len(tags) + 1}
        /\ rejected \subseteq DOMAIN main
    BY <1>1, TagsShape DEF IInv, Shape, RejectedOK
  <2> QED BY <2>1, <2>2, <2>3 DEF TypeOK
<1> QED BY <1>1, Invariant, BuildsSeenInit, BuildsSeenNext, TreeAlways,
           RejectedInit, RejectedNext, PTL DEF Spec

\* A tag names a version npm has, published from its commit or, after a
\* failed job only, from an earlier one.
THEOREM TagsNamePackages == Spec => []TagNamesPackage
<1>1. IInv => TagNamesPackage
  BY DEF IInv
<1> QED BY <1>1, Invariant, PTL

\* Between two tags lies a commit that touches more than the logger.
THEOREM VersionsHaveNews == Spec => []EveryVersionHasNews
<1>1. IInv => EveryVersionHasNews
  BY DEF IInv
<1> QED BY <1>1, Invariant, PTL

\* When the workflow is idle, the head of main is released, has nothing to
\* release, or has failed on its own: no push is forgotten.
THEOREM NoPushForgotten == Spec => []HeadReleased
<1>1. IInv => HeadReleased
  BY DEF IInv, HeadSeen, HeadReleased
<1> QED BY <1>1, Invariant, PTL

\* Every version on npm holds, for each asset a construct may look up, a
\* whole zip with its sidecar and an entry Lambda can execute.
THEOREM PublishedIsSound == Spec => []PublishedSound
<1>1. ASSUME IInv PROVE PublishedSound
  <2> SUFFICES ASSUME NEW v \in DOMAIN npm,
                      NEW name \in {"layer", "compactor"}, NEW architecture \in Suffixes
               PROVE  LET c == main[npm[v]]
                          slot == <<name, architecture>>
                          file == ResolveArtifactAsset(c.assets, name, architecture)
                      IN  /\ EntryFound(slot, file, c.src)
                          /\ c.assets.sum[slot] = file
    BY DEF PublishedSound
  <2> DEFINE slot == <<name, architecture>>
  <2>1. slot \in Slots
    BY ArtifactsAssumption DEF Slots
  <2>2. SlotPasses(main[npm[v]].assets, main[npm[v]].src, slot)
    BY <1>1, <2>1 DEF IInv, NpmChecked, Passes, CheckLayers
  <2>3. ResolveArtifactAsset(main[npm[v]].assets, name, architecture)
          = main[npm[v]].assets.zip[slot]
    BY DEF ResolveArtifactAsset
  <2> QED BY <2>2, <2>3 DEF SlotPasses
<1> QED BY <1>1, Invariant, PTL

\* A published package that is not the build of its sources has behind it
\* a red or outstanding layers run, or a push the filter leaves out.
THEOREM StaleBuildsAreSeen == Spec => []StaleIsSeen
<1>1. ASSUME IInv, BuildsSeen PROVE StaleIsSeen
  <2> SUFFICES ASSUME NEW c \in 1 .. Commit
               PROVE  \/ Unchanged(main[c].assets, Rebuilt(main[c].src))
                      \/ \E d \in 1 .. c :
                            \/ main[d].layers \in {"queued", "red"}
                            \/ /\ main[d].layers = "none"
                               /\ main[d].touched \cap {"names", "assets"} # {}
    BY <1>1, TagsShape DEF IInv, StaleIsSeen
  <2>1. PICK d \in 1 .. c : Watched(d) /\ SameBuild(c, d)
    BY <1>1 DEF BuildsSeen, History
  <2>2. d \in 1 .. Commit /\ History(d)
    BY <1>1, TagsShape DEF IInv, BuildsSeen
  <2>3. CASE main[d].layers = "green"
    <3>1. Unchanged(main[d].assets, Rebuilt(main[d].src))
      BY <2>2, <2>3 DEF History
    <3>2. Rebuilt(main[c].src) = Rebuilt(main[d].src)
      BY <2>1, RebuiltAlike DEF SameBuild
    <3> QED BY <2>1, <3>1, <3>2 DEF SameBuild
  <2>4. CASE main[d].layers # "green"
    BY <2>1, <2>2, <2>4 DEF History, Watched
  <2> QED BY <2>3, <2>4
<1> QED BY <1>1, Invariant, BuildsSeenInit, BuildsSeenNext, PTL DEF Spec

-----------------------------------------------------------------------------
(* Release implements Registry *)

\* What a run uploads is on npm already, or comes after all that is.
LEMMA UploadedIsNews ==
  ASSUME IInv, running.step = "npm", Uploaded # npm
  PROVE  /\ Len(npm) = Len(tags)
         /\ Uploaded = Append(npm, Uploaded[Len(Uploaded)])
         /\ Uploaded[Len(Uploaded)] > npm[Len(npm)]
<1>1. Shape /\ running.version = Len(tags) + 1 /\ running.version = VersionOf(running.sha)
  BY DEF IInv, RunNew, RunChecked, Checked
<1>2. running.sha \in 1 .. Commit /\ npm \in Seq(1 .. Commit)
  BY <1>1 DEF Shape, Checked
<1>3. Len(npm) = Len(tags) \/ Len(npm) = Len(tags) + 1
  BY <1>1 DEF Shape
<1>4. /\ DOMAIN npm = 1 .. Len(npm) /\ DOMAIN tags = 1 .. Len(tags)
      /\ Len(npm) \in Nat /\ Len(npm) >= 1 /\ Len(tags) \in Nat /\ Len(tags) >= 1
      /\ Commit \in Nat /\ Tagged \in 1 .. Commit
      /\ \A v \in DOMAIN npm : npm[v] \in 1 .. Commit
  BY <1>1, TagsShape
<1>5. Uploaded = Append(npm, running.sha) /\ running.version \notin DOMAIN npm
  BY DEF Uploaded
<1>6. Len(npm) = Len(tags)
  <2>1. Len(npm) # Len(tags) + 1
    <3>1. \A n \in Nat : n >= 1 => n \in 1 .. n
      OBVIOUS
    <3>2. Len(npm) \in DOMAIN npm
      BY <3>1, <1>4
    <3> QED BY <3>2, <1>1, <1>5
  <2> QED BY <2>1, <1>3
<1>7. Uploaded[Len(Uploaded)] = running.sha
  <2>1. Len(Uploaded) = Len(npm) + 1 /\ Uploaded[Len(npm) + 1] = running.sha
    BY <1>2, <1>5, AppendProperties
  <2> QED BY <2>1
<1>8. PICK c \in Tagged + 1 .. running.sha : main[c].touched \ {"logger"} # {}
  <2>1. VersionOf(running.sha) # Len(tags)
    BY <1>1, <1>4
  <2>2. ~ Releasable(running.sha) => VersionOf(running.sha) = Len(tags)
    BY <1>4 DEF VersionOf
  <2> QED BY <2>1, <2>2 DEF Releasable
<1>9. npm[Len(npm)] <= Tagged
  BY <1>4, <1>6 DEF IInv, TagNamesPackage, Tagged
<1>10. npm[Len(npm)] \in 1 .. Commit
  BY <1>4
<1>11. running.sha > npm[Len(npm)]
  <2>1. \A d, k, s, m \in Nat : d \in k + 1 .. s /\ m <= k => s > m
    OBVIOUS
  <2>2. c \in Nat /\ Tagged \in Nat /\ running.sha \in Nat /\ npm[Len(npm)] \in Nat
    BY <1>2, <1>4, <1>8, <1>10
  <2> QED BY <2>1, <2>2, <1>8, <1>9
<1> QED BY <1>5, <1>6, <1>7, <1>11

\* A step that uploads is Registry's Publish.
LEMMA PublishesAreFinal ==
  ASSUME IInv, running.step = "npm", npm' = Uploaded, Uploaded # npm,
         UNCHANGED tags, (faults' > 0) \in {faults > 0, TRUE}
  PROVE  Registered!Publish
<1>1. /\ Len(npm) = Len(tags)
      /\ npm' = Append(npm, npm'[Len(npm')])
      /\ npm'[Len(npm')] > npm[Len(npm)]
  BY UploadedIsNews
<1> QED BY <1>1 DEF Registered!Publish, Registered!Extends, Registered!Newest

\* A step that tags is Registry's Tag.
LEMMA TagsAreFinal ==
  ASSUME IInv, PublishGithub
  PROVE  Registered!Tag
<1>1. /\ running.step = "github" /\ Shape /\ tags' = Append(tags, running.sha)
      /\ running.sha \in 1 .. Commit /\ UNCHANGED <<npm, faults>>
      /\ tags \in Seq(1 .. Commit) /\ faults \in Nat
      /\ Len(npm) = Len(tags) + 1 /\ npm[Len(npm)] <= running.sha
      /\ faults = 0 => npm[Len(npm)] = running.sha
  BY DEF IInv, PublishGithub, Shape, Checked, RunOrdered, HalfPublished
<1>2. npm[Len(npm)] \in Nat /\ running.sha \in Nat
  BY <1>1, TagsShape
<1>3. tags'[Len(tags')] = running.sha
  BY <1>1, AppendProperties
<1>4. running.sha >= npm[Len(npm)]
  BY <1>1, <1>2
<1>5. ~ (faults > 0) => running.sha = npm[Len(npm)]
  BY <1>1
<1> QED BY <1>1, <1>3, <1>4, <1>5 DEF Registered!Tag, Registered!Extends, Registered!Newest

\* A job that fails has uploaded or not.
LEMMA FailuresDisturb ==
  ASSUME IInv, JobFails
  PROVE  Registered!Publish \/ Registered!Disturb
<1>1. faults' = faults + 1 /\ faults \in Nat /\ UNCHANGED tags
  BY DEF IInv, Shape, JobFails
<1>2. (faults' > 0) = TRUE
  BY <1>1
<1>3. CASE npm' = npm
  BY <1>1, <1>2, <1>3 DEF Registered!Disturb
<1>4. CASE npm' # npm
  <2>1. running.step = "npm" /\ npm' = Uploaded
    BY <1>4 DEF JobFails
  <2> QED BY <2>1, <1>1, <1>2, <1>4, PublishesAreFinal
<1> QED BY <1>3, <1>4

\* Every step is one of Registry's, or changes nothing it sees.
LEMMA NextRegistered ==
  IInv /\ [Next]_vars => [Registered!Next]_<<npm, tags, faults > 0>>
<1> SUFFICES ASSUME IInv, [Next]_vars
             PROVE  Registered!Next \/ UNCHANGED <<npm, tags, faults > 0>>
  OBVIOUS
<1>1. ASSUME UNCHANGED <<npm, tags, faults>>
      PROVE  UNCHANGED <<npm, tags, faults > 0>>
  BY <1>1
<1>2. CASE PublishNpm
  <2>1. running.step = "npm" /\ npm' = Uploaded /\ UNCHANGED <<tags, faults>>
    BY <1>2 DEF PublishNpm
  <2>2. CASE Uploaded = npm
    BY <2>1, <2>2, <1>1
  <2>3. CASE Uploaded # npm
    <3>1. (faults' > 0) \in {faults > 0, TRUE}
      BY <2>1
    <3> QED BY <2>1, <2>3, <3>1, PublishesAreFinal DEF Registered!Next
  <2> QED BY <2>2, <2>3
<1>3. CASE PublishGithub
  BY <1>3, TagsAreFinal DEF Registered!Next
<1>4. CASE JobFails
  BY <1>4, FailuresDisturb DEF Registered!Next
<1>5. CASE UNCHANGED vars
  BY <1>5, <1>1 DEF vars, release
<1>6. ASSUME NEW k \in Edits, Edit(k) PROVE UNCHANGED <<npm, tags, faults>>
  BY <1>6 DEF Edit, release
<1>7. CASE Clear \/ StartBuild \/ BuildSlot \/ WriteInfo \/ InterruptBuild
  BY <1>7, <1>1 DEF Clear, StartBuild, BuildSlot, WriteInfo, InterruptBuild, release
<1>8. ASSUME NEW c \in DOMAIN main, LayersRun(c) PROVE UNCHANGED <<npm, tags, faults>>
  BY <1>8 DEF LayersRun, release
<1>9. CASE Push \/ Dispatch \/ Prepare \/ Look
  BY <1>9, <1>1 DEF Push, Dispatch, Prepare, Look
<1> QED BY <1>1, <1>2, <1>3, <1>4, <1>5, <1>6, <1>7, <1>8, <1>9 DEF Next

\* Versions and tags only grow, by turns and in the order of main, and
\* package and tag are of one commit as long as no job has failed.
THEOREM Finality == Spec => VersionsAreFinal
<1>1. Init => Registered!Init
  BY DEF Init, Registered!Init
<1> QED BY <1>1, NextRegistered, Invariant, PTL DEF Spec, VersionsAreFinal, Registered!Spec

=============================================================================
