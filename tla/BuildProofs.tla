----------------------------- MODULE BuildProofs -----------------------------
(***************************************************************************)
(* Proofs about the part of Release that is a developer's working tree:    *)
(* the zip a build writes is one the check reads, the script's two loops   *)
(* visit every slot, and a build that finishes leaves assets/ right.       *)
(*                                                                         *)
(* The strengthening is that at each point of a build the slots it is done *)
(* with are right, unless the Go sources have changed since it started.    *)
(***************************************************************************)
EXTENDS Release, SequenceTheorems, TLAPS

-----------------------------------------------------------------------------
(* The zip of one entry, and the check of what a build leaves *)

\* The four segments of a zip of one entry.
Local(slot, names) == [kind |-> "local", name |-> Entry(slot, names)]
Central(slot, names) ==
    [kind |-> "central", name |-> Entry(slot, names), attrHigh |-> 33261, offset |-> 0]
End == [kind |-> "eocd", count |-> 1, offset |-> 2]

\* Appending to a sequence that is written out.
LEMMA AppendTuple ==
  ASSUME NEW a, NEW b, NEW c, NEW d
  PROVE  Append(<<a, b>>, c) = <<a, b, c>> /\ Append(<<a, b, c>>, d) = <<a, b, c, d>>
<1> DEFINE S == {a, b, c, d}
           s == Append(<<a, b>>, c)
           t == Append(<<a, b, c>>, d)
<1>1. /\ <<a, b>> \in Seq(S) /\ <<a, b, c>> \in Seq(S) /\ <<a, b, c, d>> \in Seq(S)
      /\ c \in S /\ d \in S
  OBVIOUS
<1>2. /\ Len(<<a, b>>) = 2 /\ Len(<<a, b, c>>) = 3 /\ Len(<<a, b, c, d>>) = 4
      /\ \A i \in 1 .. 2 : i = 1 \/ i = 2
      /\ \A i \in 1 .. 3 : i = 1 \/ i = 2 \/ i = 3
      /\ \A i \in 1 .. 4 : i = 1 \/ i = 2 \/ i = 3 \/ i = 4
  OBVIOUS
<1> HIDE DEF S, s, t
<1>3. s \in Seq(S) /\ Len(s) = 3 /\ s[1] = a /\ s[2] = b /\ s[3] = c
  <2>1. s \in Seq(S) /\ Len(s) = 3 /\ s[3] = c /\ \A i \in 1 .. 2 : s[i] = <<a, b>>[i]
    BY <1>1, <1>2, AppendProperties DEF s
  <2> QED BY <2>1
<1>4. t \in Seq(S) /\ Len(t) = 4 /\ t[1] = a /\ t[2] = b /\ t[3] = c /\ t[4] = d
  <2>1. t \in Seq(S) /\ Len(t) = 4 /\ t[4] = d /\ \A i \in 1 .. 3 : t[i] = <<a, b, c>>[i]
    BY <1>1, <1>2, AppendProperties DEF t
  <2> QED BY <2>1
<1>5. s = <<a, b, c>>
  <2>1. \A i \in 1 .. 3 : s[i] = <<a, b, c>>[i]
    BY <1>2, <1>3
  <2> QED BY <1>1, <1>2, <1>3, <2>1, SeqEqual
<1>6. t = <<a, b, c, d>>
  <2>1. \A i \in 1 .. 4 : t[i] = <<a, b, c, d>>[i]
    BY <1>2, <1>4
  <2> QED BY <1>1, <1>2, <1>4, <2>1, SeqEqual
<1> QED BY <1>5, <1>6 DEF s, t

\* The three parts of a zip, one after the other.
LEMMA ConcatThree ==
  ASSUME NEW a, NEW b, NEW c, NEW d
  PROVE  (<<a, b>> \o <<c>>) \o <<d>> = <<a, b, c, d>>
<1> DEFINE S == {a, b, c, d}
<1>1. <<a, b>> \in Seq(S) /\ <<a, b, c>> \in Seq(S) /\ c \in S /\ d \in S
  OBVIOUS
<1> HIDE DEF S
<1>2. Append(<<a, b>>, c) = <<a, b>> \o <<c>>
  BY <1>1, AppendIsConcat
<1>3. Append(<<a, b, c>>, d) = <<a, b, c>> \o <<d>>
  BY <1>1, AppendIsConcat
<1> QED BY <1>2, <1>3, AppendTuple

\* How a zip of one entry is laid out.
LEMMA PackLayout ==
  ASSUME NEW slot, NEW names
  PROVE  Pack(slot, names) = <<Local(slot, names), [kind |-> "data", data |-> slot],
                               Central(slot, names), End>>
<1> DEFINE e == [name |-> Entry(slot, names), data |-> slot, mode |-> Executable]
           entries == <<e>>
           local(x) == <<[kind |-> "local", name |-> x.name],
                         [kind |-> "data", data |-> x.data]>>
           central(i) == [kind |-> "central", name |-> entries[i].name,
                          attrHigh |-> (S_IFREG + entries[i].mode) % 65536,
                          offset |-> 2 * (i - 1)]
           n == Len(entries)
<1>1. n = 1 /\ entries[1] = e
  OBVIOUS
<1>2. [i \in 1 .. 2 * n |-> local(entries[(i + 1) \div 2])[2 - (i % 2)]]
        = <<Local(slot, names), [kind |-> "data", data |-> slot]>>
  <2>1. \A i \in 1 .. 2 : (i + 1) \div 2 = 1 /\ 2 - (i % 2) = i
    OBVIOUS
  <2>2. [i \in 1 .. 2 * n |-> local(entries[(i + 1) \div 2])[2 - (i % 2)]]
         = [i \in 1 .. 2 |-> local(e)[i]]
    BY <1>1, <2>1
  <2>3. local(e) = <<Local(slot, names), [kind |-> "data", data |-> slot]>>
    BY DEF Local
  <2> QED BY <2>2, <2>3
<1>3. [i \in 1 .. n |-> central(i)] = <<Central(slot, names)>>
  <2>1. central(1) = Central(slot, names)
    BY <1>1 DEF Central, S_IFREG, Executable
  <2>2. [i \in 1 .. n |-> central(i)] = [i \in 1 .. 1 |-> central(1)]
    BY <1>1
  <2> QED BY <2>1, <2>2
<1>4. <<[kind |-> "eocd", count |-> n, offset |-> 2 * n]>> = <<End>>
  BY <1>1 DEF End
<1>5. Pack(slot, names) = [i \in 1 .. 2 * n |-> local(entries[(i + 1) \div 2])[2 - (i % 2)]]
        \o [i \in 1 .. n |-> central(i)]
        \o <<[kind |-> "eocd", count |-> n, offset |-> 2 * n]>>
  BY DEF Pack, ZipOf
<1> DEFINE A == [i \in 1 .. 2 * n |-> local(entries[(i + 1) \div 2])[2 - (i % 2)]]
           B == [i \in 1 .. n |-> central(i)]
           C == <<[kind |-> "eocd", count |-> n, offset |-> 2 * n]>>
<1>6. /\ A = <<Local(slot, names), [kind |-> "data", data |-> slot]>>
      /\ B = <<Central(slot, names)>> /\ C = <<End>> /\ Pack(slot, names) = A \o B \o C
  BY <1>2, <1>3, <1>4, <1>5
<1> HIDE DEF A, B, C
<1> QED BY <1>6, ConcatThree

\* So the number of a zip's segments is that of any slot's.
LEMMA WholeIsFour ==
  ASSUME Slots # {}
  PROVE  Whole = 4
<1>1. \A slot \in Slots : Len(Pack(slot, 0)) = 4
  <2> TAKE slot \in Slots
  <2> DEFINE a == Local(slot, 0)
             b == [kind |-> "data", data |-> slot]
             c == Central(slot, 0)
  <2>1. Pack(slot, 0) = <<a, b, c, End>>
    BY PackLayout
  <2> HIDE DEF a, b, c
  <2> QED BY <2>1
<1>2. {Len(Pack(slot, 0)) : slot \in Slots} = {4}
  BY <1>1
<1> QED BY <1>2 DEF Whole

\* The whole of a zip is readable, and its entry executable.
LEMMA FindsWhole ==
  ASSUME NEW slot, NEW names
  PROVE  Finds(slot, names, 4, names)
<1> DEFINE a == Local(slot, names)
           b == [kind |-> "data", data |-> slot]
           c == Central(slot, names)
           S == {a, b, c, End}
           zip == <<a, b, c, End>>
<1>1. /\ a.kind = "local" /\ b.kind = "data" /\ c.kind = "central" /\ End.kind = "eocd"
      /\ c.name = Entry(slot, names) /\ c.attrHigh = 33261
      /\ End.offset = 2 /\ End.count = 1
  BY DEF Local, Central, End
<1>2. Pack(slot, names) = zip
  BY PackLayout
<1> HIDE DEF a, b, c
<1>3. /\ zip \in Seq(S) /\ Len(zip) = 4 /\ DOMAIN zip = 1 .. 4
      /\ zip[1] = a /\ zip[2] = b /\ zip[3] = c /\ zip[4] = End
  OBVIOUS
<1> HIDE DEF zip
<1>4. /\ SubSeq(zip, 1, 4) \in Seq(S) /\ Len(SubSeq(zip, 1, 4)) = 4
      /\ \A i \in 1 .. 4 : SubSeq(zip, 1, 4)[i] = zip[i]
  BY <1>3, SubSeqProperties
<1>5. SubSeq(Pack(slot, names), 1, 4) = zip
  BY <1>2, <1>3, <1>4, SeqEqual
<1>6. EndRecords(zip) = {4}
  <2>1. \A i \in 1 .. 4 : i = 1 \/ i = 2 \/ i = 3 \/ i = 4
    OBVIOUS
  <2> QED BY <2>1, <1>1, <1>3 DEF EndRecords
<1>7. LastEnd(zip) = End
  BY <1>6, <1>3 DEF LastEnd
<1>8. /\ Directory(zip) \in Seq(S) /\ DOMAIN Directory(zip) = {1}
      /\ Directory(zip)[1] = c
  <2>1. Directory(zip) = SubSeq(zip, 3, 3)
    BY <1>1, <1>7 DEF Directory
  <2>2. /\ SubSeq(zip, 3, 3) \in Seq(S) /\ Len(SubSeq(zip, 3, 3)) = 1
        /\ SubSeq(zip, 3, 3)[1] = zip[3]
    BY <1>3, SubSeqProperties
  <2> QED BY <2>1, <2>2, <1>3, LenProperties
<1>9. Readable(zip)
  BY <1>1, <1>6, <1>8 DEF Readable
<1>10. ReadZipEntries(zip) = [i \in {1} |-> [name |-> Entry(slot, names), mode |-> 33261]]
  BY <1>1, <1>8 DEF ReadZipEntries
<1>11. MayExecute(33261)
  BY DEF MayExecute
<1>12. Runs(ReadZipEntries(zip), Entry(slot, names))
  BY <1>10, <1>11 DEF Runs
<1> QED BY <1>5, <1>9, <1>12 DEF Finds

\* What a build of some sources leaves passes the check of those sources.
LEMMA RebuiltPasses ==
  ASSUME NEW s, s["names"] \in Version
  PROVE  CheckLayers(Rebuilt(s), s)
<1> SUFFICES ASSUME NEW slot \in Slots PROVE SlotPasses(Rebuilt(s), s, slot)
  BY DEF CheckLayers
<1>1. Whole = 4
  BY WholeIsFour
<1> DEFINE file == [len |-> 4, from |-> [k \in BuildInputs |-> s[k]]]
<1>2. Rebuilt(s).zip[slot] = file /\ Rebuilt(s).sum[slot] = file
  BY <1>1 DEF Rebuilt, File
<1>3. file.len = 4 /\ file.from["names"] = s["names"]
  BY DEF BuildInputs
<1>4. file # None /\ file # Torn
  BY <1>3 DEF None, Torn
<1> HIDE DEF file
<1>5. <<slot, s["names"], 4, s["names"]>> \in FindsEntry
  BY <1>1, FindsWhole DEF FindsEntry
<1> QED BY <1>2, <1>3, <1>4, <1>5 DEF SlotPasses, EntryFound

-----------------------------------------------------------------------------
(* The working tree *)

\* The working tree.  A zip on disk is absent, or some of what a build packs.
Files == {None, Torn} \cup [len : Int, from : [BuildInputs -> Nat]]

TreeShape ==
    /\ edits \in 0 .. MaxEdits
    /\ src \in [Kinds -> 0 .. edits]
    /\ assets \in [zip : [Slots -> Files], sum : [Slots -> Files], info : Int]
    /\ job \in {Idle} \cup [at : 1 .. Len(BuildOrder) + 1, from : [Kinds -> Nat]]

\* The slots the script is done with are right, unless the Go sources have
\* changed since it started.
BuiltSoFar ==
    job # Idle =>
        /\ job.from["go"] <= src["go"]
        /\ job.from["go"] = src["go"] =>
              \A i \in 1 .. job.at - 1 :
                  /\ assets.zip[BuildOrder[i]] = File(job.from, Whole)
                  /\ assets.sum[BuildOrder[i]] = File(job.from, Whole)

TreeInvariant == TreeShape /\ BuiltSoFar

\* The numbers of two nested loops stay within them, and leave out nothing.
Within(m, n) ==
    \A i \in 1 .. m * n :
        ((i - 1) \div n) + 1 \in 1 .. m /\ ((i - 1) % n) + 1 \in 1 .. n
Onto(m, n) ==
    \A a \in 1 .. m, t \in 1 .. n : \E i \in 1 .. m * n :
        ((i - 1) \div n) + 1 = a /\ ((i - 1) % n) + 1 = t

\* Both hold of every two lengths.
LEMMA Places ==
  ASSUME NEW m \in Nat, NEW n \in Nat
  PROVE  m * n \in Nat /\ Within(m, n) /\ Onto(m, n)
<1>1. m * n \in Nat
  OBVIOUS
<1>2. ASSUME NEW i \in 1 .. m * n
      PROVE  ((i - 1) \div n) + 1 \in 1 .. m /\ ((i - 1) % n) + 1 \in 1 .. n
  <2>1. n > 0
    OBVIOUS
  <2>2. (i - 1) \div n \in 0 .. m - 1 /\ (i - 1) % n \in 0 .. n - 1
    BY <2>1
  <2> QED BY <2>2
<1>3. ASSUME NEW a \in 1 .. m, NEW t \in 1 .. n
      PROVE  \E i \in 1 .. m * n :
                ((i - 1) \div n) + 1 = a /\ ((i - 1) % n) + 1 = t
  <2> PICK q \in 0 .. m - 1, r \in 0 .. n - 1 : q = a - 1 /\ r = t - 1
    OBVIOUS
  <2>1. (q * n + r) \div n = q /\ (q * n + r) % n = r
    OBVIOUS
  <2>2. q * n + r \in 0 .. m * n - 1
    OBVIOUS
  <2>3. q * n \in Int /\ m * n \in Int
    OBVIOUS
  <2>4. ((a - 1) * n + t) - 1 = q * n + r /\ (a - 1) * n + t \in 1 .. m * n
    BY <2>2, <2>3
  <2> DEFINE i == (a - 1) * n + t
  <2>5. ((i - 1) \div n) + 1 = a /\ ((i - 1) % n) + 1 = t
    BY <2>1, <2>4
  <2> HIDE DEF i
  <2> QED BY <2>4, <2>5 DEF i
<1> QED BY <1>1, <1>2, <1>3 DEF Within, Onto

\* The script visits every slot, and nothing else.
LEMMA BuildOrderVisits ==
  /\ Len(BuildOrder) \in Nat /\ DOMAIN BuildOrder = 1 .. Len(BuildOrder)
  /\ \A i \in 1 .. Len(BuildOrder) : BuildOrder[i] \in Slots
  /\ \A slot \in Slots : \E i \in 1 .. Len(BuildOrder) : BuildOrder[i] = slot
<1> DEFINE m == Len(ARTIFACTS)
           n == Len(TARGETS)
           B == [i \in 1 .. m * n |-> <<ARTIFACTS[((i - 1) \div n) + 1],
                                        TARGETS[((i - 1) % n) + 1]>>]
<1>1. /\ m \in Nat /\ n \in Nat
      /\ DOMAIN ARTIFACTS = 1 .. m /\ DOMAIN TARGETS = 1 .. n
  BY ArtifactsAssumption, LenProperties
<1>2. BuildOrder = B
  BY DEF BuildOrder
<1> HIDE DEF m, n
<1>3. m * n \in Nat /\ Within(m, n) /\ Onto(m, n)
  BY <1>1, Places
<1>4. \A i \in 1 .. m * n : B[i] \in Slots
  <2>1. \A a \in 1 .. m, t \in 1 .. n : <<ARTIFACTS[a], TARGETS[t]>> \in Slots
    BY <1>1 DEF Slots, ArtifactNames, Architectures
  <2> SUFFICES ASSUME NEW i \in 1 .. m * n PROVE B[i] \in Slots
    OBVIOUS
  <2>2. ((i - 1) \div n) + 1 \in 1 .. m /\ ((i - 1) % n) + 1 \in 1 .. n
    BY <1>3 DEF Within
  <2>3. B[i] = <<ARTIFACTS[((i - 1) \div n) + 1], TARGETS[((i - 1) % n) + 1]>>
    OBVIOUS
  <2> QED BY <2>1, <2>2, <2>3
<1>5. B \in Seq(Slots) /\ Len(B) = m * n
  BY <1>3, <1>4
<1>6. ASSUME NEW slot \in Slots PROVE \E i \in 1 .. m * n : B[i] = slot
  <2>1. PICK a \in 1 .. m, t \in 1 .. n : slot = <<ARTIFACTS[a], TARGETS[t]>>
    BY <1>1 DEF Slots, ArtifactNames, Architectures
  <2>2. PICK i \in 1 .. m * n : ((i - 1) \div n) + 1 = a /\ ((i - 1) % n) + 1 = t
    BY <1>3 DEF Onto
  <2>3. B[i] = <<ARTIFACTS[a], TARGETS[t]>>
    BY <2>2
  <2> QED BY <2>1, <2>3
<1> HIDE DEF B
<1> QED BY <1>2, <1>3, <1>4, <1>5, <1>6, LenProperties

\* Where there is a slot, a zip has a length.
LEMMA WholeNat == Slots # {} => Whole \in Nat
BY WholeIsFour

\* What a build writes is a file.
LEMMA FileType ==
  ASSUME NEW s \in [Kinds -> Nat], NEW n \in Int
  PROVE  File(s, n) \in Files
BY DEF File, Files, BuildInputs, Kinds

\* Sources are counts.
LEMMA SourcesAreNat ==
  ASSUME TreeShape
  PROVE  src \in [Kinds -> Nat] /\ "go" \in Kinds
BY DEF TreeShape, Kinds

\* The tree starts as a build left it.
LEMMA TreeInit == Init => TreeInvariant
<1> SUFFICES ASSUME Init PROVE TreeInvariant
  OBVIOUS
<1>1. src \in [Kinds -> 0 .. edits] /\ edits \in 0 .. MaxEdits /\ src \in [Kinds -> Nat]
  BY BoundsAssumption DEF Init
<1>2. assets = Rebuilt(src) /\ job = Idle
  BY DEF Init
<1>3. \A slot \in Slots : File(src, Whole) \in Files
  BY <1>1, WholeNat, FileType
<1>4. Rebuilt(src) \in [zip : [Slots -> Files], sum : [Slots -> Files], info : Int]
  BY <1>1, <1>3 DEF Rebuilt, Kinds
<1> QED BY <1>1, <1>2, <1>4 DEF TreeInvariant, TreeShape, BuiltSoFar

\* An edit of the Go sources voids what was built so far; no other does.
LEMMA EditTree ==
  ASSUME TreeInvariant, NEW k \in Edits, Edit(k)
  PROVE  TreeInvariant'
<1>1. /\ edits < MaxEdits /\ edits' = edits + 1 /\ src' = [src EXCEPT ![k] = @ + 1]
      /\ UNCHANGED <<assets, job>>
  BY DEF Edit
<1>2. /\ edits \in 0 .. MaxEdits /\ src \in [Kinds -> 0 .. edits] /\ MaxEdits \in Nat
      /\ "go" \in Kinds
  BY BoundsAssumption DEF TreeInvariant, TreeShape, Kinds
<1>3. /\ edits' \in 0 .. MaxEdits /\ src' \in [Kinds -> 0 .. edits']
      /\ src'["go"] \in {src["go"], src["go"] + 1} /\ src["go"] \in Nat
  <2>1. edits' \in 0 .. MaxEdits
    BY <1>1, <1>2
  <2>2. \A l \in Kinds : src[l] \in 0 .. edits' /\ src[l] + 1 \in 0 .. edits'
    BY <1>1, <1>2
  <2>3. src' \in [Kinds -> 0 .. edits']
    BY <1>1, <1>2, <2>2
  <2>4. src'["go"] \in {src["go"], src["go"] + 1} /\ src["go"] \in Nat
    BY <1>1, <1>2
  <2> QED BY <2>1, <2>3, <2>4
<1>4. TreeShape'
  BY <1>1, <1>3 DEF TreeInvariant, TreeShape
<1>5. BuiltSoFar'
  <2> SUFFICES ASSUME job # Idle PROVE BuiltSoFar'
    BY <1>1 DEF BuiltSoFar
  <2>1. job.from["go"] \in Nat /\ job.from["go"] <= src["go"]
    BY <1>2 DEF TreeInvariant, TreeShape, BuiltSoFar
  <2>2. job.from["go"] <= src'["go"]
    BY <1>3, <2>1
  <2>3. job.from["go"] = src'["go"] => src'["go"] = src["go"]
    BY <1>3, <2>1
  <2> QED BY <1>1, <2>2, <2>3 DEF TreeInvariant, BuiltSoFar
<1> QED BY <1>4, <1>5 DEF TreeInvariant

\* Clearing leaves files that are absent.
LEMMA ClearTree ==
  ASSUME TreeInvariant, Clear
  PROVE  TreeInvariant'
<1>1. /\ edits < MaxEdits /\ edits' = edits + 1 /\ job = Idle /\ UNCHANGED <<src, job>>
      /\ assets' = [zip |-> [slot \in Slots |-> None],
                    sum |-> [slot \in Slots |-> None], info |-> NoInfo]
  BY DEF Clear
<1>2. /\ edits \in 0 .. MaxEdits /\ src \in [Kinds -> 0 .. edits] /\ MaxEdits \in Nat
  BY BoundsAssumption DEF TreeInvariant, TreeShape
<1>3. edits' \in 0 .. MaxEdits /\ src' \in [Kinds -> 0 .. edits']
  BY <1>1, <1>2
<1>4. assets' \in [zip : [Slots -> Files], sum : [Slots -> Files], info : Int]
  BY <1>1 DEF Files, NoInfo
<1> QED BY <1>1, <1>3, <1>4 DEF TreeInvariant, TreeShape, BuiltSoFar

\* A build that starts has built nothing.
LEMMA StartBuildTree ==
  ASSUME TreeInvariant, StartBuild
  PROVE  TreeInvariant'
<1>1. job' = [at |-> 1, from |-> src] /\ UNCHANGED <<src, assets, edits>>
  BY DEF StartBuild
<1>2. src \in [Kinds -> Nat] /\ "go" \in Kinds /\ 1 \in 1 .. Len(BuildOrder) + 1
  BY SourcesAreNat, BuildOrderVisits DEF TreeInvariant
<1>3. TreeShape'
  BY <1>1, <1>2 DEF TreeInvariant, TreeShape
<1>4. BuiltSoFar'
  <2>1. src["go"] <= src["go"]
    BY <1>2
  <2>2. 1 .. job'.at - 1 = {}
    BY <1>1
  <2> QED BY <1>1, <2>1, <2>2 DEF BuiltSoFar
<1> QED BY <1>3, <1>4 DEF TreeInvariant

\* What writing files of one slot leaves of assets/.
LEMMA WriteSlot ==
  ASSUME TreeShape, NEW slot \in Slots, NEW z \in Files, NEW h \in Files
  PROVE  /\ [assets EXCEPT !.zip[slot] = z]
               \in [zip : [Slots -> Files], sum : [Slots -> Files], info : Int]
         /\ \A after : after = [assets EXCEPT !.zip[slot] = z, !.sum[slot] = h] =>
               /\ after \in [zip : [Slots -> Files], sum : [Slots -> Files], info : Int]
               /\ \A other \in Slots :
                     /\ after.zip[other] = IF other = slot THEN z ELSE assets.zip[other]
                     /\ after.sum[other] = IF other = slot THEN h ELSE assets.sum[other]
<1> DEFINE T == [zip : [Slots -> Files], sum : [Slots -> Files], info : Int]
           after == [assets EXCEPT !.zip[slot] = z, !.sum[slot] = h]
<1>1. assets \in T
  BY DEF TreeShape
<1>2. [assets EXCEPT !.zip[slot] = z] \in T /\ after \in T
  BY <1>1
<1>3. /\ after.zip = [assets.zip EXCEPT ![slot] = z]
      /\ after.sum = [assets.sum EXCEPT ![slot] = h]
  BY <1>1
<1>4. assets.zip \in [Slots -> Files] /\ assets.sum \in [Slots -> Files]
  BY <1>1
<1> HIDE DEF after
<1>5. \A other \in Slots :
         /\ after.zip[other] = IF other = slot THEN z ELSE assets.zip[other]
         /\ after.sum[other] = IF other = slot THEN h ELSE assets.sum[other]
  BY <1>3, <1>4
<1> QED BY <1>2, <1>5 DEF after

\* What a build sees, and where it is.
LEMMA JobTypes ==
  ASSUME TreeInvariant, job # Idle
  PROVE  /\ job \in [at : 1 .. Len(BuildOrder) + 1, from : [Kinds -> Nat]]
         /\ Seen \in [Kinds -> Nat]
         /\ job.from["go"] = src["go"] => Seen = job.from
         /\ Building => BuildOrder[job.at] \in Slots /\ Whole \in Nat
<1>1. job \in [at : 1 .. Len(BuildOrder) + 1, from : [Kinds -> Nat]]
  BY DEF TreeInvariant, TreeShape
<1>2. src["go"] \in Nat
  BY SourcesAreNat DEF TreeInvariant
<1>3. Seen \in [Kinds -> Nat]
  BY <1>1, <1>2 DEF Seen
<1>4. job.from["go"] = src["go"] => Seen = job.from
  BY <1>1 DEF Seen
<1>5. Building => BuildOrder[job.at] \in Slots
  BY <1>1, BuildOrderVisits DEF Building
<1> QED BY <1>1, <1>3, <1>4, <1>5, WholeNat

\* One more slot is right, and none of the others is touched.
LEMMA BuildSlotTree ==
  ASSUME TreeInvariant, BuildSlot
  PROVE  TreeInvariant'
<1> DEFINE slot == BuildOrder[job.at]
           file == File(Seen, Whole)
<1>1. /\ Building
      /\ assets' = [assets EXCEPT !.zip[slot] = file, !.sum[slot] = file]
      /\ job' = [job EXCEPT !.at = @ + 1]
      /\ UNCHANGED <<src, edits>>
  BY DEF BuildSlot
<1>2. job # Idle /\ Len(BuildOrder) \in Nat /\ job.at \in 1 .. Len(BuildOrder)
  BY <1>1, BuildOrderVisits DEF Building, Idle
<1>3. /\ job \in [at : 1 .. Len(BuildOrder) + 1, from : [Kinds -> Nat]]
      /\ job.from["go"] = src["go"] => Seen = job.from
      /\ slot \in Slots /\ file \in Files
  <2>1. Seen \in [Kinds -> Nat] /\ Whole \in Int
    BY <1>1, <1>2, JobTypes
  <2> QED BY <1>1, <1>2, <2>1, JobTypes, FileType
<1>4. job' \in [at : 1 .. Len(BuildOrder) + 1, from : [Kinds -> Nat]]
      /\ job'.at = job.at + 1 /\ job'.from = job.from
  <2>1. job'.at = job.at + 1 /\ job' = [job EXCEPT !.at = job'.at]
    BY <1>1, <1>3
  <2>2. job'.at \in 1 .. Len(BuildOrder) + 1
    BY <1>2, <2>1
  <2> QED BY <1>3, <2>1, <2>2
<1> HIDE DEF slot, file
<1>5. /\ assets' \in [zip : [Slots -> Files], sum : [Slots -> Files], info : Int]
      /\ \A other \in Slots :
            /\ assets'.zip[other] = IF other = slot THEN file ELSE assets.zip[other]
            /\ assets'.sum[other] = IF other = slot THEN file ELSE assets.sum[other]
  <2>1. TreeShape /\ slot \in Slots /\ file \in Files
    BY <1>3 DEF TreeInvariant
  <2> QED BY <1>1, <2>1, WriteSlot
<1>6. TreeShape'
  BY <1>1, <1>4, <1>5 DEF TreeInvariant, TreeShape
<1>7. BuiltSoFar'
  <2>1. job.from["go"] <= src["go"]
    BY <1>2 DEF TreeInvariant, BuiltSoFar
  <2>2. ASSUME job.from["go"] = src["go"], NEW i \in 1 .. job.at
        PROVE  /\ assets'.zip[BuildOrder[i]] = File(job.from, Whole)
               /\ assets'.sum[BuildOrder[i]] = File(job.from, Whole)
    <3>1. file = File(job.from, Whole) /\ BuildOrder[i] \in Slots
      BY <1>2, <1>3, <2>2, BuildOrderVisits DEF file
    <3>2. CASE BuildOrder[i] = slot
      BY <3>1, <3>2, <1>5
    <3>3. CASE BuildOrder[i] # slot
      <4>1. i \in 1 .. job.at - 1
        BY <1>2, <3>3 DEF slot
      <4>2. /\ assets.zip[BuildOrder[i]] = File(job.from, Whole)
            /\ assets.sum[BuildOrder[i]] = File(job.from, Whole)
        BY <1>2, <2>2, <4>1 DEF TreeInvariant, BuiltSoFar
      <4> QED BY <3>1, <3>3, <4>2, <1>5
    <3> QED BY <3>2, <3>3
  <2>3. 1 .. job'.at - 1 = 1 .. job.at
    BY <1>2, <1>4
  <2> QED BY <1>1, <1>4, <2>1, <2>2, <2>3 DEF BuiltSoFar
<1> QED BY <1>6, <1>7 DEF TreeInvariant

\* The last step ends the build.
LEMMA WriteInfoTree ==
  ASSUME TreeInvariant, WriteInfo
  PROVE  TreeInvariant'
<1>1. /\ assets' = [assets EXCEPT !.info = src["go"]] /\ job' = Idle
      /\ UNCHANGED <<src, edits>>
  BY DEF WriteInfo
<1>2. src["go"] \in Int
  BY SourcesAreNat DEF TreeInvariant
<1>3. assets' \in [zip : [Slots -> Files], sum : [Slots -> Files], info : Int]
  BY <1>1, <1>2 DEF TreeInvariant, TreeShape
<1> QED BY <1>1, <1>3 DEF TreeInvariant, TreeShape, BuiltSoFar

\* An interrupted build promises nothing, whatever it left.
LEMMA InterruptBuildTree ==
  ASSUME TreeInvariant, InterruptBuild
  PROVE  TreeInvariant'
<1>1. job # Idle /\ job' = Idle /\ UNCHANGED <<src, edits>>
  BY DEF InterruptBuild
<1> DEFINE T == [zip : [Slots -> Files], sum : [Slots -> Files], info : Int]
<1>2. CASE UNCHANGED assets
  BY <1>1, <1>2 DEF TreeInvariant, TreeShape, BuiltSoFar
<1>3. CASE Building /\ assets' # assets
  <2>1. /\ Seen \in [Kinds -> Nat] /\ BuildOrder[job.at] \in Slots
        /\ Whole \in Nat /\ {0, Whole - 1, Whole} \subseteq Int
    BY <1>1, <1>3, JobTypes
  <2>2. /\ \A n \in {0, Whole - 1, Whole} : File(Seen, n) \in Files
        /\ Torn \in Files /\ File(Seen, Whole) \in Files
    BY <2>1, FileType DEF Files
  <2>3. \/ \E n \in {0, Whole - 1, Whole} :
              assets' = [assets EXCEPT !.zip[BuildOrder[job.at]] = File(Seen, n)]
        \/ assets' = [assets EXCEPT !.zip[BuildOrder[job.at]] = File(Seen, Whole),
                                    !.sum[BuildOrder[job.at]] = Torn]
    BY <1>3 DEF InterruptBuild
  <2>4. ASSUME NEW n \in {0, Whole - 1, Whole}
        PROVE  [assets EXCEPT !.zip[BuildOrder[job.at]] = File(Seen, n)] \in T
    BY <2>1, <2>2, WriteSlot DEF TreeInvariant
  <2>5. [assets EXCEPT !.zip[BuildOrder[job.at]] = File(Seen, Whole),
                       !.sum[BuildOrder[job.at]] = Torn] \in T
    BY <2>1, <2>2, WriteSlot DEF TreeInvariant
  <2>6. assets' \in T
    BY <2>3, <2>4, <2>5
  <2> QED BY <1>1, <2>6 DEF TreeInvariant, TreeShape, BuiltSoFar
<1>4. CASE assets' = [assets EXCEPT !.info = TornInfo]
  <2>1. assets' \in T
    BY <1>4 DEF TreeInvariant, TreeShape, TornInfo
  <2> QED BY <1>1, <2>1 DEF TreeInvariant, TreeShape, BuiltSoFar
<1> QED BY <1>2, <1>3, <1>4 DEF InterruptBuild

\* Every step keeps the invariant of the working tree; pushes and
\* workflows only read it.
LEMMA TreeNext == TreeInvariant /\ [Next]_vars => TreeInvariant'
<1> SUFFICES ASSUME TreeInvariant, [Next]_vars PROVE TreeInvariant'
  OBVIOUS
<1>1. ASSUME UNCHANGED tree PROVE TreeInvariant'
  BY <1>1 DEF TreeInvariant, TreeShape, BuiltSoFar, tree
<1>2. CASE UNCHANGED vars
  BY <1>2, <1>1 DEF vars
<1>3. ASSUME NEW c \in DOMAIN main, LayersRun(c) PROVE TreeInvariant'
  BY <1>3, <1>1 DEF LayersRun
<1>4. CASE Push \/ Dispatch \/ Prepare \/ Look \/ PublishNpm \/ PublishGithub \/ JobFails
  BY <1>4, <1>1 DEF Push, Dispatch, Prepare, Look, PublishNpm, PublishGithub, JobFails
<1> QED BY <1>2, <1>3, <1>4, EditTree, ClearTree, StartBuildTree, BuildSlotTree,
           WriteInfoTree, InterruptBuildTree DEF Next

\* The invariant of the working tree.
LEMMA TreeAlways == Spec => []TreeInvariant
BY TreeInit, TreeNext, PTL DEF Spec

-----------------------------------------------------------------------------
(* Theorem *)

\* A build that finishes with the sources it started from leaves assets/
\* as CI would build them and passing the check, whatever was there.
THEOREM FinishedBuildRepairs == Spec => BuildRepairs
<1>1. ASSUME TreeInvariant, WriteInfo, job.from = src
      PROVE  assets' = Rebuilt(src) /\ CheckLayers(assets', src)
  <2>1. /\ job.at = Len(BuildOrder) + 1 /\ assets' = [assets EXCEPT !.info = src["go"]]
    BY <1>1 DEF WriteInfo
  <2>2. job # Idle /\ Len(BuildOrder) \in Nat
    BY <2>1, BuildOrderVisits DEF Idle
  <2>3. \A i \in 1 .. Len(BuildOrder) :
           /\ assets.zip[BuildOrder[i]] = File(src, Whole)
           /\ assets.sum[BuildOrder[i]] = File(src, Whole)
    BY <1>1, <2>1, <2>2 DEF TreeInvariant, BuiltSoFar
  <2>4. \A slot \in Slots :
           /\ assets.zip[slot] = File(src, Whole)
           /\ assets.sum[slot] = File(src, Whole)
    BY <2>3, BuildOrderVisits
  <2>5. assets \in [zip : [Slots -> Files], sum : [Slots -> Files], info : Int]
    BY <1>1 DEF TreeInvariant, TreeShape
  <2>6. /\ assets.zip = [slot \in Slots |-> File(src, Whole)]
        /\ assets.sum = [slot \in Slots |-> File(src, Whole)]
    BY <2>4, <2>5
  <2>7. assets' = [zip |-> assets.zip, sum |-> assets.sum, info |-> src["go"]]
    BY <2>1, <2>5
  <2>8. assets' = Rebuilt(src)
    BY <2>6, <2>7 DEF Rebuilt
  <2>9. src["names"] \in Version
    BY <1>1, BoundsAssumption DEF TreeInvariant, TreeShape, Kinds, Version
  <2> QED BY <2>8, <2>9, RebuiltPasses
<1>2. TreeInvariant /\ [Next]_vars =>
        [WriteInfo /\ job.from = src =>
            assets' = Rebuilt(src) /\ CheckLayers(assets', src)]_vars
  BY <1>1
<1> QED BY <1>2, TreeAlways, PTL DEF Spec, BuildRepairs

=============================================================================
