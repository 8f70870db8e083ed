-------------------------- MODULE CompactionProofs --------------------------
(***************************************************************************)
(* Proofs about Compaction, for any number of overlapping runs, any files, *)
(* any caps, any late uploads and any failures.                            *)
(*                                                                         *)
(* Nothing deletes a merged object and nothing overwrites one with other   *)
(* rows, so it is enough to know that whoever is about to delete sources   *)
(* has a merged object that holds them.  A run that merged them has just   *)
(* written it; a run that recovers them knows it only through a manifest.  *)
(* That is the strengthening: what is in a manifest, in a run's batch and  *)
(* in the rows it has read, at each point of the protocol.                 *)
(***************************************************************************)
EXTENDS Compaction, FiniteSetTheorems, WellFoundedInduction, TLAPS

\* Some merged object was made of the source set S.
Merged(S) == \E o \in outputs : o.id = S

\* A merged object holds the rows of the set that names it, no more, no less.
OutputsExact == \A o \in outputs : o.rows = o.id

\* A manifest lists the set that names it, and that set has been merged.
ManifestsExact == \A m \in manifests : m.sources = m.id /\ Merged(m.id)

\* What the run r has achieved by the time it is at pc[r].
RunInv(r) ==
    /\ pc[r] = "get" => rows[r] \cup todo[r] = batch[r]
    /\ pc[r] = "putOutput" => rows[r] = batch[r]
    /\ pc[r] \in {"putManifest", "delete", "recoverDelete"} => Merged(batch[r])

IInv ==
    /\ TypeOK
    /\ OutputsExact
    /\ ManifestsExact
    /\ \A r \in Runs : RunInv(r)
    /\ NoRowLost

-----------------------------------------------------------------------------
(* Selection *)

\* selectSources picks only files that were listed.
LEMMA SelectionListed == \A S, cfg : SelectSources(S, cfg) \subseteq S
  BY DEF SelectSources

\* One of the sets that F names contains none of the others.
HasMinimal(S, F) == \E f \in S : \A g \in S : F[g] \subseteq F[f] => F[g] = F[f]

\* Of the subsets of a finite set that its members name, some is minimal.
LEMMA MinimalPart ==
  ASSUME NEW S, IsFiniteSet(S), S # {}, NEW F \in [S -> SUBSET S]
  PROVE  HasMinimal(S, F)
<1>1. IsWellFoundedOn(StrictSubsetOrdering(S), SUBSET S)
  BY FS_StrictSubsetOrderingWellFounded, FS_FiniteSubsetsOfFinite
<1>2. PICK T : T = {F[f] : f \in S}
  OBVIOUS
<1>3. T \subseteq SUBSET S /\ T # {}
  BY <1>2
<1>4. PICK x \in T : \A y \in T : ~ (<<y, x>> \in StrictSubsetOrdering(S))
  BY <1>1, <1>3, WFMin
<1>5. \A y \in T : y \subseteq x => y = x
  BY <1>3, <1>4 DEF StrictSubsetOrdering
<1> QED BY <1>2, <1>5 DEF HasMinimal

\* A finite, nonempty set of numbers has a least ...
LEMMA LeastExists ==
  ASSUME NEW S \in SUBSET Nat, S # {}, IsFiniteSet(S)
  PROVE  \E f \in S : \A g \in S : f <= g
<1>1. PICK F : F = [f \in S |-> {g \in S : g < f}]
  OBVIOUS
<1>2. F \in [S -> SUBSET S]
  BY <1>1
<1>3. HasMinimal(S, F)
  BY <1>2, MinimalPart
<1>4. PICK f \in S : \A g \in S : F[g] \subseteq F[f] => F[g] = F[f]
  BY <1>3 DEF HasMinimal
<1>5. ASSUME NEW g \in S, ~ (f <= g) PROVE FALSE
  <2>1. f \in Nat /\ g \in Nat /\ g < f
    BY <1>5
  <2>2. g \in F[f] /\ g \notin F[g]
    BY <1>1, <2>1
  <2>3. ASSUME NEW h \in F[g] PROVE h \in F[f]
    <3>1. h \in S /\ h \in Nat /\ h < g
      BY <1>1, <2>3
    <3>2. h < f
      BY <2>1, <3>1
    <3> QED BY <1>1, <3>1, <3>2
  <2> QED BY <1>4, <2>2, <2>3
<1> QED BY <1>5

\* ... and a greatest.
LEMMA GreatestExists ==
  ASSUME NEW S \in SUBSET Nat, S # {}, IsFiniteSet(S)
  PROVE  \E f \in S : \A g \in S : g <= f
<1>1. PICK F : F = [f \in S |-> {g \in S : f < g}]
  OBVIOUS
<1>2. F \in [S -> SUBSET S]
  BY <1>1
<1>3. HasMinimal(S, F)
  BY <1>2, MinimalPart
<1>4. PICK f \in S : \A g \in S : F[g] \subseteq F[f] => F[g] = F[f]
  BY <1>3 DEF HasMinimal
<1>5. ASSUME NEW g \in S, ~ (g <= f) PROVE FALSE
  <2>1. f \in Nat /\ g \in Nat /\ f < g
    BY <1>5
  <2>2. g \in F[f] /\ g \notin F[g]
    BY <1>1, <2>1
  <2>3. ASSUME NEW h \in F[g] PROVE h \in F[f]
    <3>1. h \in S /\ h \in Nat /\ g < h
      BY <1>1, <2>3
    <3>2. f < h
      BY <2>1, <3>1
    <3> QED BY <1>1, <3>1, <3>2
  <2> QED BY <1>4, <2>2, <2>3
<1> QED BY <1>5

\* The batch has no more files than the limit allows, nor more bytes.
LEMMA SelectionFits ==
  ASSUME NEW S \in SUBSET Files, NEW c \in Caps, SelectSources(S, c) # {}
  PROVE  Fits(SelectSources(S, c), c)
<1>1. PICK chosen : chosen = SelectSources(S, c)
  OBVIOUS
<1>2. chosen \subseteq S /\ S \subseteq Nat /\ IsFiniteSet(S) /\ IsFiniteSet(chosen)
  BY <1>1, SelectionListed, FilesAssumption, FS_Subset
<1>3. PICK f \in chosen : \A g \in chosen : g <= f
  BY <1>1, <1>2, GreatestExists
<1>4. PICK g \in S : f <= g /\ Fits({h \in S : h <= g}, c)
  BY <1>1, <1>3 DEF SelectSources
<1>5. g \in chosen
  <2>1. g <= g /\ Fits({h \in S : h <= g}, c)
    BY <1>2, <1>4
  <2>2. \E k \in S : g <= k /\ Fits({h \in S : h <= k}, c)
    BY <2>1
  <2> QED BY <1>1, <2>2 DEF SelectSources
<1>6. f = g
  BY <1>2, <1>3, <1>4, <1>5
<1>7. chosen = {h \in S : h <= g}
  BY <1>1, <1>2, <1>3, <1>4, <1>6 DEF SelectSources
<1> QED BY <1>1, <1>4, <1>7

\* Within every limit, minFiles files are allowed together.
Roomy == \A c \in Caps, P \in SUBSET Files : Cardinality(P) <= c.minFiles => Fits(P, c)

\* If the limits are, enough files are listed only if enough are selected.
LEMMA SelectionEnough ==
  ASSUME Roomy, NEW c \in Caps, NEW S \in SUBSET Files,
         Cardinality(SelectSources(S, c)) < c.minFiles
  PROVE  Cardinality(S) < c.minFiles
<1>1. PICK chosen : chosen = SelectSources(S, c)
  OBVIOUS
<1>2. chosen \subseteq S /\ S \subseteq Nat /\ IsFiniteSet(S) /\ IsFiniteSet(chosen)
  BY <1>1, SelectionListed, FilesAssumption, FS_Subset
<1>3. c.minFiles \in Nat /\ Cardinality(S) \in Nat /\ Cardinality(chosen) \in Nat
  BY <1>2, LimitsAssumption, FS_CardinalityType
<1>4. CASE S = chosen
  BY <1>1, <1>4
<1>5. CASE S # chosen
  <2>1. PICK left : left = S \ chosen
    OBVIOUS
  <2>2. left \in SUBSET Nat /\ left # {} /\ IsFiniteSet(left)
    BY <1>2, <1>5, <2>1, FS_Subset
  <2>3. PICK f \in left : \A g \in left : f <= g
    BY <2>2, LeastExists
  <2>4. PICK prefix : prefix = {g \in S : g <= f}
    OBVIOUS
  <2>5. prefix \subseteq chosen \cup {f}
    <3>1. ASSUME NEW g \in prefix, g \notin chosen PROVE g = f
      <4>1. g \in left /\ g \in Nat /\ f \in Nat /\ g <= f
        BY <2>1, <2>2, <2>3, <2>4, <3>1
      <4> QED BY <2>3, <4>1
    <3> QED BY <3>1
  <2>6. /\ IsFiniteSet(chosen \cup {f})
        /\ Cardinality(chosen \cup {f}) = Cardinality(chosen) + 1
    BY <1>2, <2>1, <2>3, FS_AddElement
  <2>7. Cardinality(prefix) <= Cardinality(chosen) + 1 /\ Cardinality(prefix) \in Nat
    BY <2>5, <2>6, FS_Subset, FS_CardinalityType
  <2>8. Cardinality(prefix) <= c.minFiles /\ prefix \subseteq Files
    BY <1>1, <1>3, <2>4, <2>7
  <2>9. Fits(prefix, c)
    BY <2>8 DEF Roomy
  <2>10. f \in chosen
    BY <1>1, <1>2, <2>1, <2>3, <2>4, <2>9 DEF SelectSources
  <2> QED BY <2>1, <2>3, <2>10
<1> QED BY <1>4, <1>5

-----------------------------------------------------------------------------
\* The initial state satisfies the inductive invariant.
LEMMA InitInv == Init => IInv
<1> SUFFICES ASSUME Init PROVE IInv
  OBVIOUS
<1> USE DEF Init
<1>1. TypeOK
  <2>1. age \in 0 .. LookbackDays + 1
    BY LimitsAssumption
  <2>2. invoked \in BOOLEAN /\ outputs \subseteq Output /\ manifests \subseteq Manifest
    OBVIOUS
  <2> QED BY <2>1, <2>2 DEF TypeOK, Labels, Ids
<1>2. OutputsExact /\ ManifestsExact /\ NoRowLost
  BY DEF OutputsExact, ManifestsExact, NoRowLost
<1>3. ASSUME NEW r \in Runs PROVE RunInv(r)
  BY DEF RunInv
<1> QED BY <1>1, <1>2, <1>3 DEF IInv

\* A run that returns, having changed nothing in the bucket, keeps the
\* invariant: it forgets its locals and the others keep theirs.
LEMMA ReturnInv ==
  ASSUME IInv, NEW r \in Runs, Return(r), UNCHANGED <<clock, bucket>>
  PROVE  IInv'
<1> USE DEF IInv, Return, Goto, clock, bucket
<1>1. TypeOK'
  BY DEF TypeOK, Labels, Ids
<1>2. OutputsExact' /\ ManifestsExact' /\ NoRowLost'
  BY DEF OutputsExact, ManifestsExact, NoRowLost, Readable, Merged
<1>3. ASSUME NEW q \in Runs PROVE RunInv(q)'
  <2>1. CASE q = r
    BY <2>1 DEF RunInv, TypeOK
  <2>2. CASE q # r
    BY <2>2 DEF RunInv, TypeOK, Merged
  <2> QED BY <2>1, <2>2
<1> QED BY <1>1, <1>2, <1>3

\* A run starts.
LEMMA StartInv ==
  ASSUME IInv, NEW r \in Runs, Start(r)
  PROVE  IInv'
<1> USE DEF IInv, Start, Goto, clock, bucket, locals
<1>1. TypeOK'
  BY DEF TypeOK, Labels, Ids
<1>2. OutputsExact' /\ ManifestsExact' /\ NoRowLost'
  BY DEF OutputsExact, ManifestsExact, NoRowLost, Readable, Merged
<1>3. ASSUME NEW q \in Runs PROVE RunInv(q)'
  <2>1. CASE q = r
    BY <2>1 DEF RunInv, TypeOK
  <2>2. CASE q # r
    BY <2>2 DEF RunInv, TypeOK, Merged
  <2> QED BY <2>1, <2>2
<1> QED BY <1>1, <1>2, <1>3

\* Listing, recovery's bookkeeping: steps that touch the run's locals only.
LEMMA ListFirstPageInv ==
  ASSUME IInv, NEW r \in Runs, ListFirstPage(r)
  PROVE  IInv'
<1> USE DEF IInv, ListFirstPage, Goto, clock, bucket, locals
<1>1. TypeOK'
  BY DEF TypeOK, Labels, Ids
<1>2. OutputsExact' /\ ManifestsExact' /\ NoRowLost'
  BY DEF OutputsExact, ManifestsExact, NoRowLost, Readable, Merged
<1>3. ASSUME NEW q \in Runs PROVE RunInv(q)'
  <2>1. CASE q = r
    BY <2>1 DEF RunInv, TypeOK
  <2>2. CASE q # r
    BY <2>2 DEF RunInv, TypeOK, Merged
  <2> QED BY <2>1, <2>2
<1> QED BY <1>1, <1>2, <1>3

\* What it lists is there, and stays in `uploaded' for good.
LEMMA ListRestInv ==
  ASSUME IInv, NEW r \in Runs, ListRest(r)
  PROVE  IInv'
<1> USE DEF IInv, ListRest, Goto, clock, bucket, locals
<1>1. TypeOK'
  BY DEF TypeOK, Labels, Ids, Manifest
<1>2. OutputsExact' /\ ManifestsExact' /\ NoRowLost'
  BY DEF OutputsExact, ManifestsExact, NoRowLost, Readable, Merged
<1>3. ASSUME NEW q \in Runs PROVE RunInv(q)'
  <2>1. CASE q = r
    BY <2>1 DEF RunInv, TypeOK
  <2>2. CASE q # r
    BY <2>2 DEF RunInv, TypeOK, Merged
  <2> QED BY <2>1, <2>2
<1> QED BY <1>1, <1>2, <1>3

\* The second listing.
LEMMA RelistRestInv ==
  ASSUME IInv, NEW r \in Runs, RelistRest(r)
  PROVE  IInv'
<1> USE DEF IInv, RelistRest, Goto, clock, bucket, locals
<1>1. TypeOK'
  BY DEF TypeOK, Labels, Ids
<1>2. OutputsExact' /\ ManifestsExact' /\ NoRowLost'
  BY DEF OutputsExact, ManifestsExact, NoRowLost, Readable, Merged
<1>3. ASSUME NEW q \in Runs PROVE RunInv(q)'
  <2>1. CASE q = r
    BY <2>1 DEF RunInv, TypeOK
  <2>2. CASE q # r
    BY <2>2 DEF RunInv, TypeOK, Merged
  <2> QED BY <2>1, <2>2
<1> QED BY <1>1, <1>2, <1>3

\* Recovery is over.
LEMMA EndRecoveryInv ==
  ASSUME IInv, NEW r \in Runs, EndRecovery(r)
  PROVE  IInv'
<1> USE DEF IInv, EndRecovery, Goto, clock, bucket, locals
<1>1. TypeOK'
  BY DEF TypeOK, Labels, Ids
<1>2. OutputsExact' /\ ManifestsExact' /\ NoRowLost'
  BY DEF OutputsExact, ManifestsExact, NoRowLost, Readable, Merged
<1>3. ASSUME NEW q \in Runs PROVE RunInv(q)'
  <2>1. CASE q = r
    BY <2>1 DEF RunInv, TypeOK
  <2>2. CASE q # r
    BY <2>2 DEF RunInv, TypeOK, Merged
  <2> QED BY <2>1, <2>2
<1> QED BY <1>1, <1>2, <1>3

\* An upload adds a source and names it uploaded.
LEMMA UploadInv ==
  ASSUME IInv, NEW f \in Files, Upload(f)
  PROVE  IInv'
<1> USE DEF IInv, Upload, clock, locals
<1>1. TypeOK'
  BY DEF TypeOK, Labels, Ids
<1>2. OutputsExact' /\ ManifestsExact' /\ NoRowLost'
  BY DEF OutputsExact, ManifestsExact, NoRowLost, Readable, Merged
<1>3. \A r \in Runs : RunInv(r)'
  BY DEF RunInv, Merged
<1> QED BY <1>1, <1>2, <1>3

\* Midnight.
LEMMA NextDayInv ==
  ASSUME IInv, NextDay
  PROVE  IInv'
<1> USE DEF IInv, NextDay, bucket, locals
<1>1. TypeOK'
  <2>1. age' \in 0 .. LookbackDays + 1
    BY LimitsAssumption DEF TypeOK
  <2> QED BY <2>1 DEF TypeOK
<1>2. OutputsExact' /\ ManifestsExact' /\ NoRowLost'
  BY DEF OutputsExact, ManifestsExact, NoRowLost, Readable, Merged
<1>3. \A r \in Runs : RunInv(r)'
  BY DEF RunInv, Merged
<1> QED BY <1>1, <1>2, <1>3

\* A damaged manifest still names a set that has been merged.
LEMMA DamageManifestInv ==
  ASSUME IInv, DamageManifest
  PROVE  IInv'
<1> USE DEF IInv, DamageManifest, clock, locals
<1>1. PICK m \in manifests :
         manifests' = (manifests \ {m}) \cup {[m EXCEPT !.readable = FALSE]}
  OBVIOUS
<1>2. /\ [m EXCEPT !.readable = FALSE] \in Manifest
      /\ [m EXCEPT !.readable = FALSE].id = m.id
      /\ [m EXCEPT !.readable = FALSE].sources = m.sources
  BY DEF TypeOK, Manifest
<1>3. TypeOK'
  BY <1>1, <1>2 DEF TypeOK
<1>4. OutputsExact' /\ NoRowLost'
  BY DEF OutputsExact, NoRowLost, Readable
<1>5. ManifestsExact'
  BY <1>1, <1>2 DEF ManifestsExact, Merged
<1>6. \A r \in Runs : RunInv(r)'
  BY DEF RunInv, Merged
<1> QED BY <1>3, <1>4, <1>5, <1>6

\* A run reads a manifest: gone and the run returns, unparsable and it moves
\* on, or its batch is the manifest's set, which has been merged.
LEMMA ReadManifestInv ==
  ASSUME IInv, NEW r \in Runs, ReadManifest(r)
  PROVE  IInv'
<1> USE DEF IInv
<1>1. CASE Return(r)
  BY <1>1, ReturnInv DEF ReadManifest
<1>2. ASSUME NEW id \in pending[r],
             pending' = [pending EXCEPT ![r] = @ \ {id}],
             UNCHANGED <<clock, bucket, pc, seen, recovered, batch, todo, rows>>
      PROVE  IInv'
  <2> USE <1>2 DEF clock, bucket
  <2>1. TypeOK'
    BY DEF TypeOK
  <2>2. OutputsExact' /\ ManifestsExact' /\ NoRowLost'
    BY DEF OutputsExact, ManifestsExact, NoRowLost, Readable, Merged
  <2>3. \A q \in Runs : RunInv(q)'
    BY DEF RunInv, Merged
  <2> QED BY <2>1, <2>2, <2>3
<1>3. ASSUME NEW id \in pending[r], NEW m \in manifests, m.id = id,
             pending' = [pending EXCEPT ![r] = @ \ {id}],
             batch' = [batch EXCEPT ![r] = id],
             todo' = [todo EXCEPT ![r] = m.sources \cap seen[r]],
             Goto(r, "recoverDelete"),
             UNCHANGED <<clock, bucket, seen, recovered, rows>>
      PROVE  IInv'
  <2> USE <1>3 DEF clock, bucket, Goto
  <2>1. m.sources = id /\ Merged(id) /\ id \in Ids
    BY DEF ManifestsExact, TypeOK
  <2>2. TypeOK'
    BY <2>1 DEF TypeOK, Labels, Ids
  <2>3. OutputsExact' /\ ManifestsExact' /\ NoRowLost'
    BY DEF OutputsExact, ManifestsExact, NoRowLost, Readable, Merged
  <2>4. ASSUME NEW q \in Runs PROVE RunInv(q)'
    <3>1. CASE q = r
      BY <3>1, <2>1 DEF RunInv, TypeOK, Merged
    <3>2. CASE q # r
      BY <3>2 DEF RunInv, TypeOK, Merged
    <3> QED BY <3>1, <3>2
  <2> QED BY <2>2, <2>3, <2>4
<1> QED BY <1>1, <1>2, <1>3 DEF ReadManifest

\* Deleting a manifest takes nothing away from the others.
LEMMA RecoverForgetInv ==
  ASSUME IInv, NEW r \in Runs, RecoverForget(r)
  PROVE  IInv'
<1> USE DEF IInv, RecoverForget, Goto, clock
<1>1. TypeOK'
  BY DEF TypeOK, Labels, Ids
<1>2. OutputsExact' /\ ManifestsExact' /\ NoRowLost'
  BY DEF OutputsExact, ManifestsExact, NoRowLost, Readable, Merged
<1>3. ASSUME NEW q \in Runs PROVE RunInv(q)'
  <2>1. CASE q = r
    BY <2>1 DEF RunInv, TypeOK, Merged
  <2>2. CASE q # r
    BY <2>2 DEF RunInv, TypeOK, Merged
  <2> QED BY <2>1, <2>2
<1> QED BY <1>1, <1>2, <1>3

\* The run skips the partition, or takes a batch none of which it has read.
LEMMA SelectInv ==
  ASSUME IInv, NEW r \in Runs, Select(r)
  PROVE  IInv'
<1> USE DEF IInv
<1>1. CASE Return(r)
  BY <1>1, ReturnInv DEF Select
<1>2. ASSUME NEW cfg \in Caps, NEW chosen, chosen = SelectSources(seen[r], cfg),
             batch' = [batch EXCEPT ![r] = chosen],
             todo' = [todo EXCEPT ![r] = chosen],
             rows' = [rows EXCEPT ![r] = {}],
             Goto(r, "get"),
             UNCHANGED <<clock, bucket, seen, pending, recovered>>
      PROVE  IInv'
  <2> USE <1>2 DEF clock, bucket, Goto
  <2>1. chosen \in Ids
    BY SelectionListed DEF TypeOK, Ids
  <2>2. TypeOK'
    BY <2>1 DEF TypeOK, Labels, Ids
  <2>3. OutputsExact' /\ ManifestsExact' /\ NoRowLost'
    BY DEF OutputsExact, ManifestsExact, NoRowLost, Readable, Merged
  <2>4. ASSUME NEW q \in Runs PROVE RunInv(q)'
    <3>1. CASE q = r
      BY <3>1 DEF RunInv, TypeOK
    <3>2. CASE q # r
      BY <3>2 DEF RunInv, TypeOK, Merged
    <3> QED BY <3>1, <3>2
  <2> QED BY <2>2, <2>3, <2>4
<1> QED BY <1>1, <1>2 DEF Select

\* What the run has read and what it has yet to read make up its batch.
LEMMA GetSourceInv ==
  ASSUME IInv, NEW r \in Runs, GetSource(r)
  PROVE  IInv'
<1> USE DEF IInv
<1>1. CASE Return(r)
  BY <1>1, ReturnInv DEF GetSource
<1>2. ASSUME NEW f \in todo[r], pc[r] = "get",
             todo' = [todo EXCEPT ![r] = @ \ {f}],
             rows' = [rows EXCEPT ![r] = @ \cup {f}],
             IF todo[r] = {f} THEN Goto(r, "putOutput") ELSE UNCHANGED pc,
             UNCHANGED <<clock, bucket, seen, pending, recovered, batch>>
      PROVE  IInv'
  <2> USE <1>2 DEF clock, bucket, Goto
  <2>1. TypeOK'
    BY DEF TypeOK, Labels, Ids
  <2>2. OutputsExact' /\ ManifestsExact' /\ NoRowLost'
    BY DEF OutputsExact, ManifestsExact, NoRowLost, Readable, Merged
  <2>3. ASSUME NEW q \in Runs PROVE RunInv(q)'
    <3>1. CASE q = r /\ todo[r] = {f}
      BY <3>1 DEF RunInv, TypeOK
    <3>2. CASE q = r /\ todo[r] # {f}
      BY <3>2 DEF RunInv, TypeOK
    <3>3. CASE q # r
      BY <3>3 DEF RunInv, TypeOK, Merged
    <3> QED BY <3>1, <3>2, <3>3
  <2> QED BY <2>1, <2>2, <2>3
<1> QED BY <1>1, <1>2 DEF GetSource

\* The object a run writes is either new or the very one that was there.
LEMMA PutOutputKeeps ==
  ASSUME IInv, NEW r \in Runs, PutOutput(r)
  PROVE  /\ outputs' = outputs \cup {[id |-> batch[r], rows |-> batch[r]]}
         /\ [id |-> batch[r], rows |-> batch[r]] \in Output
<1>1. rows[r] = batch[r] /\ batch[r] \in Ids
  BY DEF IInv, RunInv, PutOutput, TypeOK
<1>2. ASSUME NEW o \in outputs, o.id = batch[r]
      PROVE  o = [id |-> batch[r], rows |-> batch[r]]
  <2>1. o \in Output /\ o.rows = o.id
    BY DEF IInv, TypeOK, OutputsExact
  <2> QED BY <1>2, <2>1 DEF Output
<1> QED BY <1>1, <1>2 DEF PutOutput, Output, Ids

\* After the Put the batch is merged, whoever else merged it before.
LEMMA PutOutputInv ==
  ASSUME IInv, NEW r \in Runs, PutOutput(r)
  PROVE  IInv'
<1> DEFINE new == [id |-> batch[r], rows |-> batch[r]]
<1>1. outputs' = outputs \cup {new} /\ new \in Output
  BY PutOutputKeeps
<1>2. UNCHANGED <<clock, uploaded, sources, manifests, locals>>
  BY DEF PutOutput
<1>3. pc' = [pc EXCEPT ![r] = "putManifest"]
  BY DEF PutOutput, Goto
<1> HIDE DEF new
<1>4. new.id = batch[r] /\ new.rows = batch[r]
  BY DEF new
<1> USE DEF IInv, clock, locals
<1>5. TypeOK'
  BY <1>1, <1>2, <1>3 DEF TypeOK, Labels
<1>6. OutputsExact'
  BY <1>1, <1>4 DEF OutputsExact
<1>7. \A S : Merged(S) => Merged(S)'
  BY <1>1 DEF Merged
<1>8. Merged(batch[r])'
  BY <1>1, <1>4, <1>2 DEF Merged
<1>9. ManifestsExact'
  BY <1>2, <1>7 DEF ManifestsExact
<1>10. NoRowLost'
  BY <1>1, <1>2 DEF NoRowLost, Readable
<1>11. ASSUME NEW q \in Runs PROVE RunInv(q)'
  <2>1. CASE q = r
    BY <2>1, <1>2, <1>3, <1>8 DEF RunInv, TypeOK
  <2>2. CASE q # r
    BY <2>2, <1>2, <1>3, <1>7 DEF RunInv, TypeOK, Merged
  <2> QED BY <2>1, <2>2
<1> QED BY <1>5, <1>6, <1>9, <1>10, <1>11

\* The manifest lists the batch that has just been merged.
LEMMA PutManifestInv ==
  ASSUME IInv, NEW r \in Runs, PutManifest(r)
  PROVE  IInv'
<1> DEFINE new == [id |-> batch[r], sources |-> batch[r], readable |-> TRUE]
<1>1. manifests' \subseteq manifests \cup {new}
  BY DEF PutManifest
<1>2. /\ UNCHANGED <<clock, uploaded, sources, outputs>>
      /\ UNCHANGED <<seen, pending, recovered, batch, rows>>
      /\ todo' = [todo EXCEPT ![r] = batch[r]]
      /\ pc' = [pc EXCEPT ![r] = "delete"]
      /\ pc[r] = "putManifest"
  BY DEF PutManifest, Goto
<1>3. Merged(batch[r]) /\ batch[r] \in Ids
  BY <1>2 DEF IInv, RunInv, TypeOK
<1>4. new \in Manifest /\ new.id = batch[r] /\ new.sources = batch[r]
  BY <1>3 DEF Manifest, Ids
<1> HIDE DEF new
<1> USE DEF IInv, clock
<1>5. TypeOK'
  BY <1>1, <1>2, <1>3, <1>4 DEF TypeOK, Labels, Ids
<1>6. OutputsExact' /\ NoRowLost'
  BY <1>2 DEF OutputsExact, NoRowLost, Readable
<1>7. ManifestsExact'
  BY <1>1, <1>2, <1>3, <1>4 DEF ManifestsExact, Merged
<1>8. ASSUME NEW q \in Runs PROVE RunInv(q)'
  <2>1. CASE q = r
    BY <2>1, <1>2, <1>3 DEF RunInv, TypeOK, Merged
  <2>2. CASE q # r
    BY <2>2, <1>2 DEF RunInv, TypeOK, Merged
  <2> QED BY <2>1, <2>2
<1> QED BY <1>5, <1>6, <1>7, <1>8

\* What a run deletes is in its batch, and its batch has been merged.
LEMMA DeletedIsMerged ==
  ASSUME IInv, NEW r \in Runs, DeleteSource(r)
  PROVE  \E f : sources' = sources \ {f} /\ \E o \in outputs : f \in o.rows
<1>1. PICK f \in todo[r] : sources' = sources \ {f}
  BY DEF DeleteSource
<1>2. f \in batch[r] /\ Merged(batch[r])
  BY <1>1 DEF IInv, TypeOK, RunInv, DeleteSource
<1>3. PICK o \in outputs : o.id = batch[r]
  BY <1>2 DEF Merged
<1>4. f \in o.rows
  BY <1>2, <1>3 DEF IInv, OutputsExact
<1> QED BY <1>1, <1>4

\* So deleting it loses nothing.
LEMMA DeleteSourceInv ==
  ASSUME IInv, NEW r \in Runs, DeleteSource(r)
  PROVE  IInv'
<1> USE DEF IInv, clock
<1>1. /\ UNCHANGED <<clock, uploaded, outputs, manifests, pc>>
      /\ UNCHANGED <<seen, pending, recovered, batch, rows>>
      /\ sources' \subseteq sources
  BY DEF DeleteSource
<1>2. TypeOK'
  BY <1>1 DEF TypeOK, DeleteSource
<1>3. OutputsExact' /\ ManifestsExact'
  BY <1>1 DEF OutputsExact, ManifestsExact, Merged
<1>4. NoRowLost'
  BY <1>1, DeletedIsMerged DEF NoRowLost, Readable
<1>5. \A q \in Runs : RunInv(q)'
  BY <1>1 DEF RunInv, Merged, DeleteSource
<1> QED BY <1>2, <1>3, <1>4, <1>5

\* The run ends by deleting its manifest; the merged object stays.
LEMMA ForgetInv ==
  ASSUME IInv, NEW r \in Runs, Forget(r)
  PROVE  IInv'
<1> USE DEF IInv, Forget, Return, Goto, clock
<1>1. TypeOK'
  BY DEF TypeOK, Labels, Ids
<1>2. OutputsExact' /\ ManifestsExact' /\ NoRowLost'
  BY DEF OutputsExact, ManifestsExact, NoRowLost, Readable, Merged
<1>3. ASSUME NEW q \in Runs PROVE RunInv(q)'
  <2>1. CASE q = r
    BY <2>1 DEF RunInv, TypeOK
  <2>2. CASE q # r
    BY <2>2 DEF RunInv, TypeOK, Merged
  <2> QED BY <2>1, <2>2
<1> QED BY <1>1, <1>2, <1>3

-----------------------------------------------------------------------------
\* Every step keeps the invariant.
LEMMA NextInv == IInv /\ [Next]_vars => IInv'
<1> SUFFICES ASSUME IInv, [Next]_vars PROVE IInv'
  OBVIOUS
<1>1. ASSUME NEW f \in Files, Upload(f) PROVE IInv'
  BY <1>1, UploadInv
<1>2. CASE NextDay
  BY <1>2, NextDayInv
<1>3. CASE DamageManifest
  BY <1>3, DamageManifestInv
<1>4. ASSUME NEW r \in Runs, Start(r) \/ Fail(r) PROVE IInv'
  BY <1>4, StartInv, ReturnInv DEF Fail
<1>5. ASSUME NEW r \in Runs, Step(r) PROVE IInv'
  BY <1>5, ListFirstPageInv, ListRestInv, RelistRestInv, ReadManifestInv,
     RecoverForgetInv, EndRecoveryInv, SelectInv, GetSourceInv, PutOutputInv,
     PutManifestInv, DeleteSourceInv, ForgetInv DEF Step
<1>6. CASE UNCHANGED vars
  <2> USE <1>6 DEF vars, clock, bucket, locals, IInv
  <2>1. TypeOK' /\ OutputsExact' /\ ManifestsExact' /\ NoRowLost'
    BY DEF TypeOK, OutputsExact, ManifestsExact, NoRowLost, Readable, Merged
  <2>2. \A r \in Runs : RunInv(r)'
    BY DEF RunInv, Merged
  <2> QED BY <2>1, <2>2
<1> QED BY <1>1, <1>2, <1>3, <1>4, <1>5, <1>6 DEF Next

LEMMA Invariance == Spec => []IInv
  BY InitInv, NextInv, PTL DEF Spec

\* The variables keep their types, and a delete loop stays in its batch.
THEOREM TypeCorrect == Spec => []TypeOK
<1>1. IInv => TypeOK
  BY DEF IInv
<1> QED BY <1>1, Invariance, PTL

\* However many runs overlap, whatever fails, whatever lands late: no uploaded
\* row is ever in no object at all.
THEOREM NothingLost == Spec => []NoRowLost
<1>1. IInv => NoRowLost
  BY DEF IInv
<1> QED BY <1>1, Invariance, PTL

\* finishInterruptedRuns may trust a manifest without looking at the output.
THEOREM ManifestsHonest == Spec => []ManifestVouched
<1>1. IInv => ManifestVouched
  <2> SUFFICES ASSUME IInv, NEW m \in manifests
               PROVE  \E o \in outputs : o.id = m.id /\ m.sources \subseteq o.rows
    BY DEF ManifestVouched
  <2>1. m.sources = m.id /\ Merged(m.id)
    BY DEF IInv, ManifestsExact
  <2>2. PICK o \in outputs : o.id = m.id
    BY <2>1 DEF Merged
  <2>3. o.rows = o.id
    BY DEF IInv, OutputsExact
  <2> QED BY <2>1, <2>2, <2>3
<1> QED BY <1>1, Invariance, PTL

\* Only PutOutput writes a merged object, and it keeps those that are there.
LEMMA OutputsGrow == IInv /\ [Next]_vars => outputs \subseteq outputs'
<1> SUFFICES ASSUME IInv, [Next]_vars PROVE outputs \subseteq outputs'
  OBVIOUS
<1>1. ASSUME NEW r \in Runs, PutOutput(r) PROVE outputs \subseteq outputs'
  BY <1>1, PutOutputKeeps
<1>2. ASSUME NEW r \in Runs, Step(r), ~ PutOutput(r)
      PROVE  UNCHANGED outputs
  BY <1>2 DEF Step, ListFirstPage, ListRest, RelistRest, ReadManifest,
     RecoverForget, EndRecovery, Select, GetSource, PutManifest, DeleteSource,
     Forget, bucket
<1>3. ASSUME NEW r \in Runs, Start(r) \/ Fail(r) PROVE UNCHANGED outputs
  BY <1>3 DEF Start, Fail, bucket
<1>4. CASE NextDay \/ DamageManifest \/ \E f \in Files : Upload(f)
  BY <1>4 DEF NextDay, DamageManifest, Upload, bucket
<1>5. CASE UNCHANGED vars
  BY <1>5 DEF vars, bucket
<1> QED BY <1>1, <1>2, <1>3, <1>4, <1>5 DEF Next

\* A merged object, once written, is neither changed nor removed.
THEOREM OutputsImmutable == Spec => OutputsKept
<1>1. IInv /\ [Next]_vars => [outputs \subseteq outputs']_vars
  BY OutputsGrow
<1> QED BY <1>1, Invariance, PTL DEF Spec, OutputsKept

-----------------------------------------------------------------------------
(* The compactor implements LogTable.                                      *)

\* Every set the protocol handles was uploaded before.
Known ==
    /\ \A o \in outputs : o.id \subseteq uploaded
    /\ \A m \in manifests : m.id \subseteq uploaded
    /\ \A r \in Runs : /\ batch[r] \subseteq uploaded
                       /\ \A id \in pending[r] : id \subseteq uploaded

\* Only Select makes up a new set, of files it has listed.
LEMMA KnownInv == IInv /\ Known /\ [Next]_vars => Known'
<1> SUFFICES ASSUME IInv, Known, [Next]_vars PROVE Known'
  OBVIOUS
<1> USE DEF Known
<1>1. TypeOK
  BY DEF IInv
<1>2. ASSUME NEW f \in Files, Upload(f) PROVE Known'
  BY <1>2 DEF Upload, locals
<1>3. CASE NextDay
  BY <1>3 DEF NextDay, bucket, locals
<1>4. CASE DamageManifest
  BY <1>4, <1>1 DEF DamageManifest, locals, TypeOK, Manifest
<1>5. ASSUME NEW r \in Runs, Return(r), manifests' \subseteq manifests,
             UNCHANGED <<uploaded, outputs>>
      PROVE  Known'
  BY <1>5, <1>1 DEF Return, TypeOK
<1>6. ASSUME NEW r \in Runs, Start(r) \/ Fail(r) PROVE Known'
  BY <1>6, <1>5 DEF Start, Fail, bucket, locals
<1>7. ASSUME NEW r \in Runs,
             ListFirstPage(r) \/ ListRest(r) \/ RelistRest(r) \/ EndRecovery(r)
      PROVE  Known'
  BY <1>7, <1>1 DEF ListFirstPage, ListRest, RelistRest, EndRecovery,
     bucket, locals, TypeOK
<1>8. ASSUME NEW r \in Runs, ReadManifest(r) PROVE Known'
  <2>1. CASE Return(r)
    BY <1>8, <2>1, <1>5 DEF ReadManifest, bucket
  <2>2. ASSUME NEW id \in pending[r],
               pending' = [pending EXCEPT ![r] = @ \ {id}],
               UNCHANGED batch \/ batch' = [batch EXCEPT ![r] = id]
        PROVE  Known'
    BY <1>8, <2>2, <1>1 DEF ReadManifest, bucket, TypeOK
  <2> QED BY <1>8, <2>1, <2>2 DEF ReadManifest
<1>9. ASSUME NEW r \in Runs, RecoverForget(r) \/ Forget(r) PROVE Known'
  BY <1>9, <1>5 DEF RecoverForget, Forget
<1>10. ASSUME NEW r \in Runs, Select(r) PROVE Known'
  <2>1. CASE Return(r)
    BY <1>10, <2>1, <1>5 DEF Select, bucket
  <2>2. ASSUME NEW cfg \in Caps,
               batch' = [batch EXCEPT ![r] = SelectSources(seen[r], cfg)],
               UNCHANGED pending
        PROVE  Known'
    BY <1>10, <2>2, <1>1, SelectionListed DEF Select, bucket, TypeOK
  <2> QED BY <1>10, <2>1, <2>2 DEF Select
<1>11. ASSUME NEW r \in Runs, GetSource(r) PROVE Known'
  BY <1>11, <1>5 DEF GetSource, bucket
<1>12. ASSUME NEW r \in Runs, PutOutput(r) PROVE Known'
  BY <1>12, <1>1 DEF PutOutput, locals, TypeOK
<1>13. ASSUME NEW r \in Runs, PutManifest(r) PROVE Known'
  BY <1>13, <1>1 DEF PutManifest, TypeOK
<1>14. ASSUME NEW r \in Runs, DeleteSource(r) PROVE Known'
  BY <1>14 DEF DeleteSource
<1>15. CASE UNCHANGED vars
  BY <1>15 DEF vars, bucket, locals
<1> QED
  BY <1>2, <1>3, <1>4, <1>6, <1>7, <1>8, <1>9, <1>10, <1>11, <1>12, <1>13,
     <1>14, <1>15 DEF Next, Step

\* What a query finds is what has been uploaded.
LEMMA ReadableIsUploaded == IInv /\ Known => Readable = uploaded
  BY DEF IInv, Known, TypeOK, OutputsExact, NoRowLost, Readable

\* Only Upload uploads.
LEMMA UploadOrNot ==
  ASSUME [Next]_vars
  PROVE  \/ \E f \in Files : Upload(f)
         \/ UNCHANGED uploaded
<1>1. ASSUME NEW r \in Runs, Start(r) \/ Fail(r) \/ Step(r)
      PROVE  UNCHANGED uploaded
  BY <1>1 DEF Start, Fail, Step, ListFirstPage, ListRest, RelistRest,
     ReadManifest, RecoverForget, EndRecovery, Select, GetSource, PutOutput,
     PutManifest, DeleteSource, Forget, bucket
<1>2. CASE NextDay \/ DamageManifest \/ UNCHANGED vars
  BY <1>2 DEF NextDay, DamageManifest, vars, bucket
<1> QED BY <1>1, <1>2 DEF Next

\* Whatever the compactor does, a query reads every shipped row and no other:
\* Compaction implements LogTable.
THEOREM Refinement == Spec => QueriesSeeEveryRow
<1>1. Init => Known
  BY DEF Init, Known
<1>2. Init => Table!Init
  BY DEF Init, Table!Init, Readable
<1>3. IInv /\ Known /\ [Next]_vars => [Table!Next]_<<uploaded, Readable>>
  <2> SUFFICES ASSUME IInv, Known, [Next]_vars
               PROVE  [Table!Next]_<<uploaded, Readable>>
    OBVIOUS
  <2>1. Readable = uploaded /\ Readable' = uploaded'
    <3>1. IInv' /\ Known'
      BY NextInv, KnownInv
    <3>2. (IInv /\ Known)' => (Readable = uploaded)'
      BY ReadableIsUploaded, PTL
    <3> QED BY <3>1, <3>2, ReadableIsUploaded
  <2>2. ASSUME NEW f \in Files, Upload(f) PROVE Table!Ship(f)
    BY <2>1, <2>2 DEF Upload, Table!Ship
  <2> QED BY <2>1, <2>2, UploadOrNot DEF Table!Next
<1> QED
  BY <1>1, <1>2, <1>3, KnownInv, Invariance, PTL
  DEF Spec, QueriesSeeEveryRow, Table!Spec

\* A run that merges nothing has listed less than a batch.
SkipsSmall ==
    [][\A r \in Runs : Select(r) /\ pc'[r] = "idle" =>
          \E c \in Caps : Cardinality(seen[r]) < c.minFiles]_vars

\* selectSources: when minFiles files are always within the limits, no partition
\* that has as many is skipped, whatever the files' sizes and however many runs
\* overlap; it takes other limits for one to be (LeftoverBelowMinimum).
THEOREM SkipsOnlySmall ==
  ASSUME Roomy
  PROVE  Spec => SkipsSmall
<1>1. ASSUME IInv, NEW r \in Runs, Select(r), pc'[r] = "idle"
      PROVE  \E c \in Caps : Cardinality(seen[r]) < c.minFiles
  <2>1. pc \in [Runs -> Labels] /\ seen[r] \in SUBSET Files
    BY <1>1 DEF IInv, TypeOK
  <2>2. PICK c \in Caps : Cardinality(SelectSources(seen[r], c)) < c.minFiles
    BY <1>1, <2>1 DEF Select, Goto
  <2> QED BY <2>1, <2>2, SelectionEnough
<1>2. IInv => [\A r \in Runs : Select(r) /\ pc'[r] = "idle" =>
                 \E c \in Caps : Cardinality(seen[r]) < c.minFiles]_vars
  BY <1>1
<1> QED BY <1>2, Invariance, PTL DEF Spec, SkipsSmall

-----------------------------------------------------------------------------
(* Runs end *)

\* What a run at l may still have to do, in steps, with p manifests to look at
\* and t keys left in its loop; the manifests of a partition are at most one
\* for each set of its files.  To recover is to read a manifest, to delete
\* what it lists and to forget it.
StepsLeft(l, p, t) ==
    LET n == Cardinality(Files)
    IN  CASE l = "list" -> Cardinality(Ids) * (n + 2) + 2 * n + 9
          [] l = "listRest" -> Cardinality(Ids) * (n + 2) + 2 * n + 8
          [] l = "recover" -> p * (n + 2) + 2 * n + 7
          [] l = "recoverDelete" -> p * (n + 2) + 2 * n + 8 + t
          [] l = "relist" -> 2 * n + 6
          [] l = "relistRest" -> 2 * n + 5
          [] l = "select" -> 2 * n + 4
          [] l = "get" -> n + 3 + t
          [] l = "putOutput" -> n + 3
          [] l = "putManifest" -> n + 2
          [] l = "delete" -> t + 1
          [] OTHER -> 0

CallsLeft(r) == StepsLeft(pc[r], Cardinality(pending[r]), Cardinality(todo[r]))

\* Each step of a run leaves it less to do, whatever the others do.
RunsShorten == [][\A r \in Runs : Step(r) => CallsLeft(r)' < CallsLeft(r)]_vars

\* What is counted is finite.
LEMMA Counts ==
  ASSUME TypeOK, NEW r \in Runs
  PROVE  /\ Cardinality(Files) \in Nat /\ Cardinality(Ids) \in Nat
         /\ IsFiniteSet(todo[r]) /\ Cardinality(todo[r]) \in Nat
         /\ IsFiniteSet(pending[r]) /\ Cardinality(pending[r]) \in Nat
<1>1. IsFiniteSet(Files) /\ IsFiniteSet(Ids)
  BY FilesAssumption, FS_SUBSET DEF Ids
<1>2. todo[r] \in SUBSET Files /\ pending[r] \in SUBSET Ids
  BY DEF TypeOK
<1>3. IsFiniteSet(todo[r]) /\ IsFiniteSet(pending[r])
  BY <1>1, <1>2, FS_Subset
<1> QED BY <1>1, <1>3, FS_CardinalityType

\* A part of Files, or of the ids, has no more elements than they have.
LEMMA CountsBounded ==
  /\ \A S \in SUBSET Files : Cardinality(S) <= Cardinality(Files)
  /\ \A S \in SUBSET Ids : Cardinality(S) <= Cardinality(Ids)
BY FilesAssumption, FS_SUBSET, FS_Subset DEF Ids

\* The measure is a number ...
LEMMA StepsLeftType ==
  ASSUME NEW l, NEW p \in Nat, NEW t \in Nat,
         Cardinality(Files) \in Nat, Cardinality(Ids) \in Nat
  PROVE  /\ StepsLeft(l, p, t) \in Nat
         /\ l \in Labels \ {"idle", "forget", "recoverForget"} => StepsLeft(l, p, t) > 0
<1> PICK n \in Nat, k \in Nat : n = Cardinality(Files) /\ k = Cardinality(Ids)
  OBVIOUS
<1>1. k * (n + 2) \in Nat /\ p * (n + 2) \in Nat
  OBVIOUS
<1> QED BY <1>1 DEF StepsLeft, Labels

\* ... that falls from place to place.
LEMMA StepsLeftFalls ==
  ASSUME NEW p \in Nat, NEW t \in Nat, NEW q \in Nat, NEW u \in Nat,
         Cardinality(Files) \in Nat, Cardinality(Ids) \in Nat
  PROVE  /\ StepsLeft("listRest", q, u) < StepsLeft("list", p, t)
         /\ q <= Cardinality(Ids) => StepsLeft("recover", q, u) < StepsLeft("listRest", p, t)
         /\ q < p => StepsLeft("recover", q, u) < StepsLeft("recover", p, t)
         /\ q < p /\ u <= Cardinality(Files) =>
               StepsLeft("recoverDelete", q, u) < StepsLeft("recover", p, t)
         /\ StepsLeft("recover", p, u) < StepsLeft("recoverDelete", p, t)
         /\ StepsLeft("relist", q, u) < StepsLeft("recover", p, t)
         /\ StepsLeft("select", q, u) < StepsLeft("recover", p, t)
         /\ StepsLeft("relistRest", q, u) < StepsLeft("relist", p, t)
         /\ StepsLeft("select", q, u) < StepsLeft("relistRest", p, t)
         /\ u <= Cardinality(Files) => StepsLeft("get", q, u) < StepsLeft("select", p, t)
         /\ t > 0 => StepsLeft("putOutput", q, u) < StepsLeft("get", p, t)
         /\ StepsLeft("putManifest", q, u) < StepsLeft("putOutput", p, t)
         /\ u <= Cardinality(Files) => StepsLeft("delete", q, u) < StepsLeft("putManifest", p, t)
         /\ u < t => \A l \in {"recoverDelete", "get", "delete"} : StepsLeft(l, p, u) < StepsLeft(l, p, t)
<1> PICK n \in Nat, k \in Nat : n = Cardinality(Files) /\ k = Cardinality(Ids)
  OBVIOUS
<1>1. /\ k * (n + 2) \in Nat /\ p * (n + 2) \in Nat /\ q * (n + 2) \in Nat
      /\ q <= k => q * (n + 2) <= k * (n + 2)
  OBVIOUS
<1>2. q < p => q * (n + 2) + (n + 2) <= p * (n + 2)
  <2>1. q < p => (q + 1) * (n + 2) <= p * (n + 2)
    OBVIOUS
  <2>2. (q + 1) * (n + 2) = q * (n + 2) + (n + 2)
    OBVIOUS
  <2> QED BY <2>1, <2>2
<1> DEFINE K == k * (n + 2)
           P == p * (n + 2)
           Q == q * (n + 2)
<1>3. K \in Nat /\ P \in Nat /\ Q \in Nat /\ (q <= k => Q <= K) /\ (q < p => Q + n + 2 <= P)
  BY <1>1, <1>2
<1>4. \A l, s :
        /\ StepsLeft("list", s, t) = K + 2 * n + 9
        /\ StepsLeft("listRest", s, l) = K + 2 * n + 8
        /\ StepsLeft("recover", p, l) = P + 2 * n + 7
        /\ StepsLeft("recover", q, l) = Q + 2 * n + 7
        /\ StepsLeft("recoverDelete", p, l) = P + 2 * n + 8 + l
        /\ StepsLeft("recoverDelete", q, l) = Q + 2 * n + 8 + l
        /\ StepsLeft("relist", s, l) = 2 * n + 6
        /\ StepsLeft("relistRest", s, l) = 2 * n + 5
        /\ StepsLeft("select", s, l) = 2 * n + 4
        /\ StepsLeft("get", s, l) = n + 3 + l
        /\ StepsLeft("putOutput", s, l) = n + 3
        /\ StepsLeft("putManifest", s, l) = n + 2
        /\ StepsLeft("delete", s, l) = l + 1
  BY DEF StepsLeft
<1> HIDE DEF K, P, Q
<1> QED BY <1>3, <1>4

\* Each call of a run leaves it less to do.
LEMMA StepShortens ==
  ASSUME IInv, IInv', NEW r \in Runs, Step(r)
  PROVE  CallsLeft(r)' < CallsLeft(r)
<1>1. /\ pc \in [Runs -> Labels] /\ pending \in [Runs -> SUBSET Ids] /\ todo \in [Runs -> SUBSET Files]
      /\ TypeOK /\ TypeOK'
  BY DEF IInv, TypeOK
<1> PICK p \in Nat, t \in Nat : p = Cardinality(pending[r]) /\ t = Cardinality(todo[r])
  BY <1>1, Counts
<1> PICK q \in Nat, u \in Nat : q = Cardinality(pending'[r]) /\ u = Cardinality(todo'[r])
  <2>1. \A S \in SUBSET Files : Cardinality(S) \in Nat
    BY FilesAssumption, FS_Subset, FS_CardinalityType
  <2>2. \A S \in SUBSET Ids : Cardinality(S) \in Nat
    BY FilesAssumption, FS_SUBSET, FS_Subset, FS_CardinalityType DEF Ids
  <2>3. pending'[r] \in SUBSET Ids /\ todo'[r] \in SUBSET Files
    BY <1>1 DEF TypeOK
  <2> QED BY <2>1, <2>2, <2>3
<1>2. /\ Cardinality(Files) \in Nat /\ Cardinality(Ids) \in Nat
      /\ IsFiniteSet(todo[r]) /\ IsFiniteSet(pending[r])
      /\ u <= Cardinality(Files) /\ q <= Cardinality(Ids)
  <2>1. pending'[r] \in SUBSET Ids /\ todo'[r] \in SUBSET Files
    BY <1>1 DEF TypeOK
  <2> QED BY <1>1, <2>1, Counts, CountsBounded
<1>3. CallsLeft(r) = StepsLeft(pc[r], p, t) /\ CallsLeft(r)' = StepsLeft(pc'[r], q, u)
  BY DEF CallsLeft
<1>4. \A l : Goto(r, l) => pc'[r] = l
  BY <1>1 DEF Goto
<1>5. ASSUME NEW f \in todo[r], todo'[r] = todo[r] \ {f} PROVE u < t
  <2>1. Cardinality(todo[r] \ {f}) = Cardinality(todo[r]) - 1
    BY <1>2, <1>5, FS_RemoveElement
  <2>2. u = t - 1
    BY <2>1, <1>5
  <2> QED BY <2>2
<1>6. ASSUME NEW id \in pending[r], pending'[r] = pending[r] \ {id} PROVE q < p
  <2>1. Cardinality(pending[r] \ {id}) = Cardinality(pending[r]) - 1
    BY <1>2, <1>6, FS_RemoveElement
  <2>2. q = p - 1
    BY <2>1, <1>6
  <2> QED BY <2>2
<1>7. ASSUME NEW f \in todo[r] PROVE t > 0
  BY <1>2, <1>7, FS_EmptySet
<1>8. ASSUME Return(r), pc[r] \in {"recover", "select", "get", "delete"}
      PROVE  CallsLeft(r)' < CallsLeft(r)
  <2>1. pc'[r] = "idle"
    BY <1>4, <1>8 DEF Return
  <2>2. StepsLeft(pc[r], p, t) \in Nat /\ StepsLeft(pc[r], p, t) > 0
    BY <1>2, <1>8, StepsLeftType DEF Labels
  <2>3. StepsLeft("idle", q, u) = 0
    BY DEF StepsLeft
  <2> QED BY <1>3, <2>1, <2>2, <2>3
<1>9. CASE ListFirstPage(r)
  BY <1>2, <1>3, <1>4, <1>9, StepsLeftFalls DEF ListFirstPage
<1>10. CASE ListRest(r)
  BY <1>2, <1>3, <1>4, <1>10, StepsLeftFalls DEF ListRest
<1>11. CASE RelistRest(r)
  BY <1>2, <1>3, <1>4, <1>11, StepsLeftFalls DEF RelistRest
<1>12. CASE ReadManifest(r)
  <2>1. CASE Return(r)
    BY <2>1, <1>8, <1>12 DEF ReadManifest
  <2>2. ASSUME NEW id \in pending[r], pending' = [pending EXCEPT ![r] = @ \ {id}],
               UNCHANGED pc \/ Goto(r, "recoverDelete")
        PROVE  CallsLeft(r)' < CallsLeft(r)
    <3>1. q < p /\ pc[r] = "recover" /\ pc'[r] \in {"recover", "recoverDelete"}
      BY <1>1, <1>4, <1>6, <1>12, <2>2 DEF ReadManifest
    <3> QED BY <1>2, <1>3, <3>1, StepsLeftFalls
  <2> QED BY <2>1, <2>2, <1>12 DEF ReadManifest
<1>13. CASE RecoverForget(r)
  <2>1. q = p /\ pc[r] = "recoverDelete" /\ pc'[r] = "recover"
    BY <1>4, <1>13 DEF RecoverForget
  <2> QED BY <1>2, <1>3, <2>1, StepsLeftFalls
<1>14. CASE EndRecovery(r)
  <2>1. pc[r] = "recover" /\ pc'[r] \in {"relist", "select"}
    BY <1>4, <1>14 DEF EndRecovery
  <2> QED BY <1>2, <1>3, <2>1, StepsLeftFalls
<1>15. CASE Select(r)
  <2>1. CASE Return(r)
    BY <2>1, <1>8, <1>15 DEF Select
  <2>2. CASE Goto(r, "get")
    <3>1. pc[r] = "select" /\ pc'[r] = "get"
      BY <1>4, <1>15, <2>2 DEF Select
    <3> QED BY <1>2, <1>3, <3>1, StepsLeftFalls
  <2> QED BY <2>1, <2>2, <1>15 DEF Select
<1>16. CASE GetSource(r)
  <2>1. CASE Return(r)
    BY <2>1, <1>8, <1>16 DEF GetSource
  <2>2. ASSUME NEW f \in todo[r], todo' = [todo EXCEPT ![r] = @ \ {f}], UNCHANGED pending,
               Goto(r, "putOutput") \/ UNCHANGED pc
        PROVE  CallsLeft(r)' < CallsLeft(r)
    <3>1. u < t /\ t > 0 /\ q = p /\ pc[r] = "get" /\ pc'[r] \in {"get", "putOutput"}
      BY <1>1, <1>4, <1>5, <1>7, <1>16, <2>2 DEF GetSource
    <3> QED BY <1>2, <1>3, <3>1, StepsLeftFalls
  <2> QED BY <2>1, <2>2, <1>16 DEF GetSource
<1>17. CASE PutOutput(r)
  BY <1>2, <1>3, <1>4, <1>17, StepsLeftFalls DEF PutOutput
<1>18. CASE PutManifest(r)
  BY <1>2, <1>3, <1>4, <1>18, StepsLeftFalls DEF PutManifest
<1>19. CASE DeleteSource(r)
  <2>1. u < t /\ q = p /\ pc'[r] = pc[r] /\ pc[r] \in {"recoverDelete", "delete"}
    BY <1>1, <1>5, <1>19 DEF DeleteSource
  <2> QED BY <1>2, <1>3, <2>1, StepsLeftFalls
<1>20. CASE Forget(r)
  BY <1>8, <1>20 DEF Forget
<1> QED
  BY <1>9, <1>10, <1>11, <1>12, <1>13, <1>14, <1>15, <1>16, <1>17, <1>18, <1>19, <1>20 DEF Step

\* A run that is not over can make its next call: it reads in the order of the
\* keys, so it needs a first among those it has left.
MayStep(r) ==
    \/ pc[r] \in {"list", "listRest", "relist", "relistRest", "recover", "recoverDelete",
                  "putOutput", "putManifest", "delete"}
    \/ pc[r] = "select" /\ Caps # {}
    \/ pc[r] = "get" /\ \E f \in todo[r] : \A g \in todo[r] : f <= g
NoRunStuck == \A r \in Runs : pc[r] # "idle" => MayStep(r)

\* There is something to read, and the two labels that name no place are unused.
Reading == \A r \in Runs : /\ pc[r] = "get" => todo[r] # {}
                           /\ pc[r] \notin {"forget", "recoverForget"}

\* A batch is not empty, and the last of it ends the loop.
LEMMA ReadingNext == IInv /\ IInv' /\ Reading /\ [Next]_vars => Reading'
<1> SUFFICES ASSUME IInv, IInv', Reading, [Next]_vars, NEW q \in Runs
             PROVE  /\ pc'[q] = "get" => todo'[q] # {}
                    /\ pc'[q] \notin {"forget", "recoverForget"}
  BY DEF Reading
<1>1. pc \in [Runs -> Labels] /\ todo \in [Runs -> SUBSET Files]
  BY DEF IInv, TypeOK
<1>2. ASSUME NEW r \in Runs, NEW l \in Labels \ {"get", "forget", "recoverForget"}, Goto(r, l),
             \A s \in Runs \ {r} : todo'[s] = todo[s]
      PROVE  /\ pc'[q] = "get" => todo'[q] # {}
             /\ pc'[q] \notin {"forget", "recoverForget"}
  BY <1>1, <1>2 DEF Goto, Reading
<1>3. ASSUME UNCHANGED pc, \A s \in Runs : pc[s] = "get" => todo'[s] = todo[s] \/ todo'[s] # {}
      PROVE  /\ pc'[q] = "get" => todo'[q] # {}
             /\ pc'[q] \notin {"forget", "recoverForget"}
  BY <1>3 DEF Reading
<1>4. ASSUME NEW r \in Runs, Return(r)
      PROVE  /\ pc'[q] = "get" => todo'[q] # {}
             /\ pc'[q] \notin {"forget", "recoverForget"}
  BY <1>1, <1>2, <1>4 DEF Return, Labels
<1>5. CASE (\E f \in Files : Upload(f)) \/ NextDay \/ DamageManifest \/ UNCHANGED vars
  BY <1>3, <1>5 DEF Upload, NextDay, DamageManifest, vars, locals
<1>6. ASSUME NEW r \in Runs, Start(r) \/ ListFirstPage(r) \/ ListRest(r) \/ RelistRest(r)
                             \/ RecoverForget(r) \/ EndRecovery(r) \/ PutOutput(r)
      PROVE  /\ pc'[q] = "get" => todo'[q] # {}
             /\ pc'[q] \notin {"forget", "recoverForget"}
  <2>1. /\ todo' = todo
        /\ \E l \in Labels \ {"get", "forget", "recoverForget"} : Goto(r, l)
    BY <1>6 DEF Start, ListFirstPage, ListRest, RelistRest, RecoverForget, EndRecovery, PutOutput,
       locals, Labels
  <2> QED BY <1>2, <2>1
<1>7. ASSUME NEW r \in Runs, PutManifest(r)
      PROVE  /\ pc'[q] = "get" => todo'[q] # {}
             /\ pc'[q] \notin {"forget", "recoverForget"}
  BY <1>1, <1>2, <1>7 DEF PutManifest, Labels
<1>8. ASSUME NEW r \in Runs, ReadManifest(r)
      PROVE  /\ pc'[q] = "get" => todo'[q] # {}
             /\ pc'[q] \notin {"forget", "recoverForget"}
  <2>1. CASE Return(r)
    BY <1>4, <2>1
  <2>2. CASE UNCHANGED <<pc, todo>>
    BY <1>3, <2>2
  <2>3. CASE /\ Goto(r, "recoverDelete")
             /\ \A s \in Runs \ {r} : todo'[s] = todo[s]
    BY <1>2, <2>3 DEF Labels
  <2> QED BY <1>1, <1>8, <2>1, <2>2, <2>3 DEF ReadManifest
<1>9. ASSUME NEW r \in Runs, Select(r)
      PROVE  /\ pc'[q] = "get" => todo'[q] # {}
             /\ pc'[q] \notin {"forget", "recoverForget"}
  <2>1. CASE Return(r)
    BY <1>4, <2>1
  <2>2. ASSUME NEW cfg \in Caps, NEW chosen, Cardinality(chosen) >= cfg.minFiles,
               todo' = [todo EXCEPT ![r] = chosen], Goto(r, "get")
        PROVE  /\ pc'[q] = "get" => todo'[q] # {}
               /\ pc'[q] \notin {"forget", "recoverForget"}
    <3>1. chosen # {}
      BY <2>2, LimitsAssumption, FS_EmptySet
    <3> QED BY <1>1, <2>2, <3>1 DEF Goto, Reading
  <2> QED BY <1>9, <2>1, <2>2 DEF Select
<1>10. ASSUME NEW r \in Runs, GetSource(r)
      PROVE  /\ pc'[q] = "get" => todo'[q] # {}
             /\ pc'[q] \notin {"forget", "recoverForget"}
  <2>1. CASE Return(r)
    BY <1>4, <2>1
  <2>2. ASSUME NEW f \in todo[r], todo' = [todo EXCEPT ![r] = @ \ {f}],
               IF todo[r] = {f} THEN Goto(r, "putOutput") ELSE UNCHANGED pc
        PROVE  /\ pc'[q] = "get" => todo'[q] # {}
               /\ pc'[q] \notin {"forget", "recoverForget"}
    BY <1>1, <2>2 DEF Goto, Reading
  <2> QED BY <1>10, <2>1, <2>2 DEF GetSource
<1>11. ASSUME NEW r \in Runs, DeleteSource(r)
      PROVE  /\ pc'[q] = "get" => todo'[q] # {}
             /\ pc'[q] \notin {"forget", "recoverForget"}
  BY <1>1, <1>3, <1>11 DEF DeleteSource
<1>12. ASSUME NEW r \in Runs, Forget(r) \/ Fail(r)
      PROVE  /\ pc'[q] = "get" => todo'[q] # {}
             /\ pc'[q] \notin {"forget", "recoverForget"}
  BY <1>4, <1>12 DEF Forget, Fail
<1> QED BY <1>5, <1>6, <1>7, <1>8, <1>9, <1>10, <1>11, <1>12 DEF Next, Step

\* A run that is not killed ends, after at most as many steps as CallsLeft says:
\* no step of it leaves it more to do, and it is never without a next one.
THEOREM RunsEnd ==
  ASSUME Caps # {}
  PROVE  Spec => [](\A r \in Runs : CallsLeft(r) \in Nat) /\ RunsShorten /\ []NoRunStuck
<1>1. ASSUME IInv, NEW r \in Runs PROVE CallsLeft(r) \in Nat
  BY <1>1, Counts, StepsLeftType DEF CallsLeft, IInv
<1>2. IInv /\ IInv' => [\A r \in Runs : Step(r) => CallsLeft(r)' < CallsLeft(r)]_vars
  BY StepShortens
<1>3. Init => Reading
  BY DEF Init, Reading
<1>4. ASSUME IInv, Reading, NEW r \in Runs, pc[r] # "idle" PROVE MayStep(r)
  <2>1. pc[r] \in Labels /\ todo[r] \in SUBSET Files
    BY <1>4 DEF IInv, TypeOK
  <2>2. CASE pc[r] = "get"
    <3>1. todo[r] # {} /\ todo[r] \in SUBSET Nat /\ IsFiniteSet(todo[r])
      BY <1>4, <2>1, <2>2, FilesAssumption, FS_Subset DEF Reading
    <3>2. \E f \in todo[r] : \A g \in todo[r] : f <= g
      BY <3>1, LeastExists
    <3> QED BY <2>2, <3>2 DEF MayStep
  <2> QED BY <1>4, <2>1, <2>2 DEF Reading, MayStep, Labels
<1>5. IInv /\ Reading => NoRunStuck
  BY <1>4 DEF NoRunStuck
<1>6. IInv => \A r \in Runs : CallsLeft(r) \in Nat
  BY <1>1
<1> QED BY <1>2, <1>3, <1>5, <1>6, ReadingNext, Invariance, PTL DEF Spec, RunsShorten
=============================================================================
