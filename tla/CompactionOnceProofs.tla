------------------------- MODULE CompactionOnceProofs -------------------------
(***************************************************************************)
(* Proofs about what counts copies in Compaction, for runs that do not     *)
(* overlap, any files, limits, late uploads and deaths but one.            *)
(*                                                                         *)
(* A row is in two places from the Put of the merged object to the end of  *)
(* the deletion.  Whoever dies in between leaves a manifest, which the     *)
(* next run finishes before it selects; or, between the two Puts, an       *)
(* orphan: a merged object that nothing points to.  An orphan is harmless  *)
(* if the next run selects the same set, and it does so only if nothing    *)
(* was uploaded meanwhile.                                                 *)
(***************************************************************************)
EXTENDS CompactionProofs

\* The day takes no more uploads.
Closed == \A d \in {0} \cup LateDays : d < age

\* Runs do not overlap and nothing damages a manifest.  A run may die between
\* its Put of the merged object and that of the manifest only on a day that
\* takes no more uploads, and if every run has the same limits.
Sole(r, cfg) ==
    /\ Runs = {r}
    /\ Damageable = {}
    /\ LateDays \subseteq Nat
    /\ \A d \in 1 .. LookbackDays :
          "putManifest" \in Faults[d] =>
             Caps = {cfg} /\ \A late \in {0} \cup LateDays : late < d

\* Few enough to merge, and enough to.
Worth(S, cfg) == Cardinality(S) >= cfg.minFiles /\ Fits(S, cfg)

\* The set that names o is what the next run selects, and enough for it.
Orphan(o, cfg) ==
    /\ Closed
    /\ Caps = {cfg}
    /\ manifests = {}
    /\ o.id = SelectSources(sources, cfg)
    /\ Cardinality(o.id) >= cfg.minFiles

\* What o holds is no longer a source, or will not be before o is final.
Tidy(o, r, cfg) ==
    \/ o.id \cap sources = {}
    \/ \E m \in manifests : m.id = o.id
    \/ pc[r] = "putManifest" /\ batch[r] = o.id
    \/ Orphan(o, cfg)

\* The listing knows what it must of the sources.
Listed(r, page) ==
    /\ seen[r] \subseteq sources
    /\ Closed => seen[r] = sources \cap page
    /\ \A m \in manifests : m.id \cap sources \cap page \subseteq seen[r]

\* Where the run is, and what it knows, against what is in the bucket.
Protocol(r, cfg) ==
    /\ pc[r] # "idle" => age \in Window
    /\ pc[r] \in {"idle", "list", "listRest"} => ~ recovered[r]
    /\ pc[r] \in {"listRest", "relistRest"} => Listed(r, FirstPage)
    /\ pc[r] \in {"recover", "recoverDelete"} =>
          /\ pending[r] \subseteq {m.id : m \in manifests}
          /\ \A m \in manifests : m.id \in pending[r] \/ (pc[r] = "recoverDelete" /\ m.id = batch[r])
          /\ \A m \in manifests : m.id \cap sources \subseteq seen[r]
    /\ pc[r] = "recover" /\ ~ recovered[r] => Listed(r, Files)
    /\ pc[r] = "recoverDelete" =>
          /\ batch[r] \notin pending[r]
          /\ \E m \in manifests : m.id = batch[r]
          /\ batch[r] \cap sources \subseteq todo[r]
    /\ pc[r] \in {"relist", "relistRest", "select", "get", "putOutput", "putManifest"} =>
          manifests = {}
    /\ pc[r] = "select" => Listed(r, Files)
    /\ pc[r] \in {"get", "putOutput", "putManifest"} =>
          /\ batch[r] \subseteq sources
          /\ \E c \in Caps : Worth(batch[r], c)
          /\ Closed /\ Caps = {cfg} => batch[r] = SelectSources(sources, cfg)
          /\ \A o \in outputs : o.id = batch[r] \/ o.id \cap batch[r] = {}
    /\ pc[r] = "delete" =>
          /\ \E m \in manifests : TRUE
          /\ \A m \in manifests : m.id = batch[r]
          /\ batch[r] \cap sources \subseteq todo[r]

\* Merged objects are of different sources.
Apart == \A o, p \in outputs : o.id = p.id \/ o.id \cap p.id = {}

Once(r, cfg) ==
    /\ \A m \in manifests : m.readable
    /\ \A o \in outputs : Tidy(o, r, cfg)
    /\ Apart
    /\ Protocol(r, cfg)

\* Every row is there once, and no manifest.
Clean == manifests = {} /\ \A o \in outputs : o.id \cap sources = {}

\* Once a run that cannot die has returned on the last day, and from then on.
Cleaned(r) ==
    /\ age = LookbackDays /\ invoked /\ pc[r] = "idle" => Clean
    /\ age > LookbackDays => Clean /\ pc[r] = "idle"

-----------------------------------------------------------------------------
(* Steps *)

\* The one run, and the types of what the run keeps.
LEMMA Basics ==
  ASSUME NEW r, NEW cfg, Sole(r, cfg), IInv
  PROVE  /\ r \in Runs /\ \A q \in Runs : q = r
         /\ pc \in [Runs -> Labels] /\ seen \in [Runs -> SUBSET uploaded]
         /\ pending \in [Runs -> SUBSET Ids] /\ recovered \in [Runs -> BOOLEAN]
         /\ batch \in [Runs -> Ids] /\ todo \in [Runs -> SUBSET Files]
         /\ rows \in [Runs -> SUBSET Files]
         /\ sources \subseteq uploaded /\ uploaded \subseteq Files
         /\ todo[r] \subseteq batch[r]
         /\ age \in Nat /\ age <= LookbackDays + 1 /\ LookbackDays \in Nat
BY LimitsAssumption DEF Sole, IInv, TypeOK

\* An upload is to a day that is not closed, and of a file nothing knows.
LEMMA UploadOnce ==
  ASSUME NEW r, NEW cfg, Sole(r, cfg), IInv, Known, Once(r, cfg), NEW f \in Files, Upload(f)
  PROVE  Once(r, cfg)'
<1>1. /\ age \in {0} \cup LateDays /\ f \notin uploaded
      /\ sources' = sources \cup {f}
      /\ UNCHANGED <<age, outputs, manifests, pc, seen, pending, recovered, batch, todo>>
  BY DEF Upload, clock, locals
<1>2. ~ Closed /\ ~ Closed'
  BY <1>1, Basics DEF Closed
<1>3. \A m \in manifests : m.id \cap sources' = m.id \cap sources
  BY <1>1 DEF Known
<1>4. batch[r] \cap sources' = batch[r] \cap sources
  BY <1>1, Basics DEF Known
<1>5. \A o \in outputs : o.id \cap sources' = o.id \cap sources
  BY <1>1 DEF Known
<1>6. \A o \in outputs' : Tidy(o, r, cfg)'
  BY <1>1, <1>2, <1>5 DEF Once, Tidy, Orphan
<1>7. ASSUME NEW page, Listed(r, page) PROVE Listed(r, page)'
  BY <1>1, <1>2, <1>3, <1>7 DEF Listed
<1>8. Protocol(r, cfg)'
  <2>1. /\ (pc[r] \in {"listRest", "relistRest"} => Listed(r, FirstPage))'
        /\ (pc[r] = "recover" /\ ~ recovered[r] => Listed(r, Files))'
        /\ (pc[r] = "select" => Listed(r, Files))'
    BY <1>1, <1>7 DEF Once, Protocol
  <2>2. \A m \in manifests' : m.id \cap sources' = m.id \cap sources
    BY <1>1, <1>3
  <2>3. batch[r]' \cap sources' = batch[r] \cap sources /\ sources \subseteq sources'
    BY <1>1, <1>4
  <2> QED BY <1>1, <1>2, <2>1, <2>2, <2>3 DEF Once, Protocol, Window
<1> QED BY <1>1, <1>6, <1>8 DEF Once, Apart

\* A day closed stays closed.
LEMMA NextDayOnce ==
  ASSUME NEW r, NEW cfg, Sole(r, cfg), IInv, Once(r, cfg), NextDay
  PROVE  Once(r, cfg)'
<1>1. /\ age' = age + 1 /\ pc[r] = "idle"
      /\ UNCHANGED <<sources, outputs, manifests, pc, seen, pending, recovered, batch, todo>>
  BY Basics DEF NextDay, bucket, locals
<1>2. Closed => Closed'
  <2>1. ASSUME NEW d \in {0} \cup LateDays, d < age PROVE d < age + 1
    <3>1. d \in Nat
      BY DEF Sole
    <3>2. age \in Nat
      BY Basics
    <3> QED BY <2>1, <3>1, <3>2
  <2> QED BY <1>1, <2>1 DEF Closed
<1>3. \A o \in outputs' : Tidy(o, r, cfg)'
  BY <1>1, <1>2 DEF Once, Tidy, Orphan
<1> QED BY <1>1, <1>3 DEF Once, Protocol, Apart

\* A run that returns leaves the bucket tidy, if not from between the two Puts.
LEMMA ReturnOnce ==
  ASSUME NEW r, NEW cfg, Sole(r, cfg), IInv, Once(r, cfg), Return(r),
         UNCHANGED <<clock, bucket>>, pc[r] = "putManifest" => Closed /\ Caps = {cfg}
  PROVE  Once(r, cfg)'
<1>1. pc'[r] = "idle" /\ ~ recovered'[r] /\ UNCHANGED <<age, sources, outputs, manifests>>
  BY Basics DEF Return, Goto, clock, bucket
<1>2. Closed' = Closed
  BY <1>1 DEF Closed
<1>3. ASSUME NEW o \in outputs, Tidy(o, r, cfg) PROVE Tidy(o, r, cfg)'
  <2>1. CASE pc[r] = "putManifest" /\ batch[r] = o.id
    <3>1. Orphan(o, cfg)
      BY <2>1 DEF Once, Protocol, Orphan, Worth
    <3> QED BY <1>1, <1>2, <3>1 DEF Tidy, Orphan
  <2> QED BY <1>1, <1>2, <1>3, <2>1 DEF Tidy, Orphan
<1>4. Protocol(r, cfg)'
  BY <1>1 DEF Protocol
<1> QED BY <1>1, <1>3, <1>4 DEF Once, Apart

\* A fault between the two Puts is on a day that is closed.
LEMMA FailOnce ==
  ASSUME NEW r, NEW cfg, Sole(r, cfg), IInv, Once(r, cfg), Fail(r)
  PROVE  Once(r, cfg)'
<1>1. pc[r] = "putManifest" => Closed /\ Caps = {cfg}
  BY Basics DEF Fail, Once, Protocol, Window, Sole, Closed
<1> QED BY <1>1, ReturnOnce DEF Fail

\* A run starts with what the last one left.
LEMMA StartOnce ==
  ASSUME NEW r, NEW cfg, Sole(r, cfg), IInv, Once(r, cfg), Start(r)
  PROVE  Once(r, cfg)'
<1>1. /\ pc[r] = "idle" /\ pc'[r] = "list" /\ age \in Window
      /\ UNCHANGED <<age, sources, outputs, manifests, recovered>>
  BY Basics DEF Start, Goto, bucket, locals
<1>2. \A o \in outputs' : Tidy(o, r, cfg)'
  BY <1>1 DEF Once, Tidy, Orphan, Closed
<1>3. Protocol(r, cfg)'
  BY <1>1 DEF Once, Protocol, Window
<1> QED BY <1>1, <1>2, <1>3 DEF Once, Apart

\* Steps that change neither the bucket nor whether a manifest is due.
LEMMA TidyStays ==
  ASSUME NEW r, NEW cfg, Once(r, cfg), UNCHANGED <<age, sources, outputs, manifests>>,
         pc[r] # "putManifest"
  PROVE  /\ \A m \in manifests' : m.readable
         /\ \A o \in outputs' : Tidy(o, r, cfg)'
         /\ Apart'
BY DEF Once, Tidy, Orphan, Closed, Apart

\* What is on the first page is listed.
LEMMA ListFirstPageOnce ==
  ASSUME NEW r, NEW cfg, Sole(r, cfg), IInv, Once(r, cfg), ListFirstPage(r)
  PROVE  Once(r, cfg)'
<1>1. /\ \/ pc[r] = "list" /\ pc'[r] = "listRest"
         \/ pc[r] = "relist" /\ pc'[r] = "relistRest"
      /\ seen'[r] = sources \cap FirstPage
      /\ UNCHANGED <<age, sources, outputs, manifests, recovered>>
  BY Basics DEF ListFirstPage, Goto, bucket, clock
<1>2. Listed(r, FirstPage)'
  BY <1>1 DEF Listed
<1>3. Protocol(r, cfg)'
  BY <1>1, <1>2 DEF Once, Protocol, Window
<1> QED BY <1>1, <1>3, TidyStays DEF Once

\* After the rest of the listing every source of a manifest is known.
LEMMA RestListed ==
  ASSUME NEW r, NEW cfg, Sole(r, cfg), IInv, Listed(r, FirstPage),
         seen'[r] = seen[r] \cup (sources \ FirstPage),
         UNCHANGED <<age, sources, manifests>>
  PROVE  Listed(r, Files)'
<1>1. sources \subseteq Files
  BY Basics
<1>2. seen'[r] \subseteq sources'
  BY DEF Listed
<1>3. Closed' => Closed
  BY DEF Closed
<1>4. Closed' => seen'[r] = sources' \cap Files
  BY <1>1, <1>3 DEF Listed
<1>5. \A m \in manifests' : m.id \cap sources' \cap Files \subseteq seen'[r]
  BY DEF Listed
<1> QED BY <1>2, <1>4, <1>5 DEF Listed

\* The first listing names every manifest, and the sources it lists.
LEMMA ListRestOnce ==
  ASSUME NEW r, NEW cfg, Sole(r, cfg), IInv, Once(r, cfg), ListRest(r)
  PROVE  Once(r, cfg)'
<1>1. /\ pc[r] = "listRest" /\ pc'[r] = "recover"
      /\ seen'[r] = seen[r] \cup (sources \ FirstPage)
      /\ pending'[r] = {m.id : m \in manifests}
      /\ UNCHANGED <<age, sources, outputs, manifests, recovered>>
  BY Basics DEF ListRest, Goto, bucket, clock
<1>2. Listed(r, Files)'
  BY <1>1, RestListed DEF Once, Protocol
<1>3. \A m \in manifests' : m.id \in pending'[r] /\ m.id \cap sources' \subseteq seen'[r]
  BY <1>1, <1>2, Basics DEF Listed
<1>4. Protocol(r, cfg)'
  BY <1>1, <1>2, <1>3 DEF Once, Protocol, Window
<1> QED BY <1>1, <1>4, TidyStays DEF Once

\* The second listing finds no manifest.
LEMMA RelistRestOnce ==
  ASSUME NEW r, NEW cfg, Sole(r, cfg), IInv, Once(r, cfg), RelistRest(r)
  PROVE  Once(r, cfg)'
<1>1. /\ pc[r] = "relistRest" /\ pc'[r] = "select"
      /\ seen'[r] = seen[r] \cup (sources \ FirstPage)
      /\ UNCHANGED <<age, sources, outputs, manifests>>
  BY Basics DEF RelistRest, Goto, bucket, clock
<1>2. Listed(r, Files)'
  BY <1>1, RestListed DEF Once, Protocol
<1>3. Protocol(r, cfg)'
  BY <1>1, <1>2 DEF Once, Protocol, Window
<1> QED BY <1>1, <1>3, TidyStays DEF Once

\* Every pending manifest is there, and can be read.
LEMMA ReadManifestReads ==
  ASSUME NEW r, NEW cfg, Sole(r, cfg), IInv, Once(r, cfg), ReadManifest(r)
  PROVE  /\ pc[r] = "recover" /\ pc'[r] = "recoverDelete"
         /\ \E m \in manifests :
               /\ m.id \in pending[r] /\ m.sources = m.id
               /\ pending'[r] = pending[r] \ {m.id}
               /\ batch'[r] = m.id
               /\ todo'[r] = m.id \cap seen[r]
         /\ UNCHANGED <<age, invoked, sources, outputs, manifests, seen, recovered>>
<1>1. pc[r] = "recover" /\ UNCHANGED <<age, invoked, sources, outputs, manifests>>
  BY DEF ReadManifest, clock, bucket
<1>2. pending[r] \subseteq {m.id : m \in manifests} /\ \A m \in manifests : m.readable
  BY <1>1 DEF Once, Protocol
<1>3. PICK id \in pending[r] : \E m \in manifests :
                /\ m.id = id
                /\ m.readable
                /\ pending' = [pending EXCEPT ![r] = @ \ {id}]
                /\ batch' = [batch EXCEPT ![r] = id]
                /\ todo' = [todo EXCEPT ![r] = m.sources \cap seen[r]]
                /\ Goto(r, "recoverDelete")
                /\ UNCHANGED <<seen, recovered, rows>>
  BY <1>2 DEF ReadManifest
<1>4. PICK m \in manifests : m.id = id /\ todo' = [todo EXCEPT ![r] = m.sources \cap seen[r]]
  BY <1>3
<1>5. m.sources = m.id
  BY DEF IInv, ManifestsExact
<1>6. /\ pc'[r] = "recoverDelete" /\ pending'[r] = pending[r] \ {m.id}
      /\ batch'[r] = m.id /\ todo'[r] = m.id \cap seen[r] /\ UNCHANGED <<seen, recovered>>
  BY <1>3, <1>4, <1>5, Basics DEF Goto
<1> QED BY <1>1, <1>3, <1>4, <1>5, <1>6

\* What the manifest lists and still is there is to be deleted.
LEMMA ReadManifestOnce ==
  ASSUME NEW r, NEW cfg, Sole(r, cfg), IInv, Once(r, cfg), ReadManifest(r)
  PROVE  Once(r, cfg)'
<1>1. /\ pc[r] = "recover" /\ pc'[r] = "recoverDelete"
      /\ UNCHANGED <<age, sources, outputs, manifests, seen, recovered>>
  BY ReadManifestReads
<1>2. PICK m \in manifests : /\ m.id \in pending[r]
                             /\ pending'[r] = pending[r] \ {m.id}
                             /\ batch'[r] = m.id
                             /\ todo'[r] = m.id \cap seen[r]
  BY ReadManifestReads
<1>3. /\ pending[r] \subseteq {q.id : q \in manifests}
      /\ \A q \in manifests : q.id \in pending[r] /\ q.id \cap sources \subseteq seen[r]
      /\ age \in Window
  BY <1>1 DEF Once, Protocol
<1>4. \A q \in manifests' : q.id \in pending'[r] \/ q.id = batch'[r]
  BY <1>1, <1>2, <1>3
<1>5. batch'[r] \cap sources' \subseteq todo'[r] /\ batch'[r] \notin pending'[r]
  BY <1>1, <1>2, <1>3
<1>6. Protocol(r, cfg)'
  BY <1>1, <1>2, <1>3, <1>4, <1>5 DEF Protocol, Window
<1> QED BY <1>1, <1>6, TidyStays DEF Once

\* The sources of a forgotten manifest are gone.
LEMMA RecoverForgetOnce ==
  ASSUME NEW r, NEW cfg, Sole(r, cfg), IInv, Once(r, cfg), RecoverForget(r)
  PROVE  Once(r, cfg)'
<1>1. /\ pc[r] = "recoverDelete" /\ pc'[r] = "recover" /\ todo[r] = {}
      /\ manifests' = {m \in manifests : m.id # batch[r]} /\ recovered'[r]
      /\ UNCHANGED <<age, sources, outputs, seen, pending, batch>>
  BY Basics DEF RecoverForget, Goto, clock
<1>2. /\ batch[r] \cap sources = {} /\ batch[r] \notin pending[r]
      /\ pending[r] \subseteq {m.id : m \in manifests}
      /\ \A m \in manifests : m.id \in pending[r] \/ m.id = batch[r]
      /\ \A m \in manifests : m.id \cap sources \subseteq seen[r]
      /\ age \in Window /\ manifests # {}
  BY <1>1 DEF Once, Protocol
<1>3. ASSUME NEW o \in outputs PROVE Tidy(o, r, cfg)'
  <2>1. o.id \cap sources = {} \/ \E m \in manifests : m.id = o.id
    BY <1>1, <1>2 DEF Once, Tidy, Orphan
  <2>2. CASE o.id = batch[r]
    BY <1>1, <1>2, <2>2 DEF Tidy
  <2>3. CASE o.id # batch[r]
    BY <1>1, <2>1, <2>3 DEF Tidy
  <2> QED BY <2>2, <2>3
<1>4. pending'[r] \subseteq {m.id : m \in manifests'}
  <2> SUFFICES ASSUME NEW id \in pending[r] PROVE \E m \in manifests' : m.id = id
    BY <1>1
  <2> QED BY <1>1, <1>2
<1>5. Protocol(r, cfg)'
  BY <1>1, <1>2, <1>4 DEF Protocol, Window
<1> QED BY <1>1, <1>3, <1>5 DEF Once, Apart

\* Recovery ends when no manifest is left.
LEMMA EndRecoveryOnce ==
  ASSUME NEW r, NEW cfg, Sole(r, cfg), IInv, Once(r, cfg), EndRecovery(r)
  PROVE  Once(r, cfg)'
<1>1. /\ pc[r] = "recover" /\ pending[r] = {}
      /\ pc'[r] = IF recovered[r] THEN "relist" ELSE "select"
      /\ UNCHANGED <<age, sources, outputs, manifests, seen, recovered>>
  BY Basics DEF EndRecovery, Goto, clock, bucket, locals
<1>2. manifests = {} /\ age \in Window
  BY <1>1 DEF Once, Protocol
<1>3. ~ recovered[r] => Listed(r, Files)'
  BY <1>1 DEF Once, Protocol, Listed, Closed
<1>4. Protocol(r, cfg)'
  BY <1>1, <1>2, <1>3 DEF Protocol, Window
<1> QED BY <1>1, <1>4, TidyStays DEF Once

\* What is selected has been merged as a whole or not at all.
LEMMA SelectOnce ==
  ASSUME NEW r, NEW cfg, Sole(r, cfg), IInv, Once(r, cfg), Select(r)
  PROVE  Once(r, cfg)'
<1>1. pc[r] = "select" /\ UNCHANGED <<clock, bucket>>
  BY DEF Select
<1>2. CASE Return(r)
  BY <1>1, <1>2, ReturnOnce
<1>3. CASE ~ Return(r)
  <2>1. PICK c \in Caps :
           /\ Cardinality(SelectSources(seen[r], c)) >= c.minFiles
           /\ batch' = [batch EXCEPT ![r] = SelectSources(seen[r], c)]
           /\ Goto(r, "get")
    BY <1>3 DEF Select
  <2>2. PICK chosen : chosen = SelectSources(seen[r], c)
    OBVIOUS
  <2>3. /\ batch'[r] = chosen /\ pc'[r] = "get"
        /\ UNCHANGED <<age, sources, outputs, manifests>>
    BY <1>1, <2>1, <2>2, Basics DEF Goto, clock, bucket
  <2>4. Worth(chosen, c)
    <3>1. seen[r] \in SUBSET Files /\ c.minFiles \in Nat \ {0}
      BY LimitsAssumption, Basics
    <3>2. chosen # {}
      BY <2>1, <2>2, <3>1, FS_EmptySet
    <3> QED BY <2>1, <2>2, <3>1, <3>2, SelectionFits DEF Worth
  <2>5. Listed(r, Files) /\ manifests = {} /\ age \in Window
    BY <1>1 DEF Once, Protocol
  <2>6. chosen \subseteq sources
    BY <2>2, <2>5, SelectionListed DEF Listed
  <2>7. Closed /\ Caps = {cfg} => chosen = SelectSources(sources, cfg)
    <3>1. Closed => seen[r] = sources
      BY <2>5, Basics DEF Listed
    <3> QED BY <2>2, <3>1
  <2>8. \A o \in outputs : o.id = chosen \/ o.id \cap chosen = {}
    BY <1>1, <2>5, <2>6, <2>7 DEF Once, Tidy, Orphan
  <2>9. Closed' => Closed
    BY <2>3 DEF Closed
  <2>10. Protocol(r, cfg)'
    BY <2>3, <2>4, <2>5, <2>6, <2>7, <2>8, <2>9 DEF Protocol, Window
  <2> QED BY <1>1, <2>3, <2>10, TidyStays DEF Once
<1> QED BY <1>2, <1>3

\* Reading changes nothing.
LEMMA GetSourceOnce ==
  ASSUME NEW r, NEW cfg, Sole(r, cfg), IInv, Once(r, cfg), GetSource(r)
  PROVE  Once(r, cfg)'
<1>1. pc[r] = "get" /\ UNCHANGED <<clock, bucket>>
  BY DEF GetSource
<1>2. CASE Return(r)
  BY <1>1, <1>2, ReturnOnce
<1>3. CASE ~ Return(r)
  <2>1. /\ pc'[r] \in {"get", "putOutput"}
        /\ UNCHANGED <<age, sources, outputs, manifests, batch>>
    BY <1>1, <1>3, Basics DEF GetSource, Goto, clock, bucket
  <2>2. Closed' => Closed
    BY <2>1 DEF Closed
  <2>3. Protocol(r, cfg)'
    BY <1>1, <2>1, <2>2 DEF Once, Protocol, Window
  <2> QED BY <1>1, <2>1, <2>3, TidyStays DEF Once
<1> QED BY <1>2, <1>3

\* The object is new, or is the orphan that the batch was selected for.
LEMMA PutOutputOnce ==
  ASSUME NEW r, NEW cfg, Sole(r, cfg), IInv, Once(r, cfg), PutOutput(r)
  PROVE  Once(r, cfg)'
<1>1. PICK new : new = [id |-> batch[r], rows |-> batch[r]]
  OBVIOUS
<1>2. /\ pc[r] = "putOutput" /\ pc'[r] = "putManifest" /\ outputs' = outputs \cup {new}
      /\ UNCHANGED <<age, sources, manifests, batch>>
  BY <1>1, Basics, PutOutputKeeps DEF PutOutput, Goto, clock, locals
<1>3. new.id = batch[r] /\ \A o \in outputs' : o \in outputs \/ o = new
  BY <1>1, <1>2
<1>4. \A o \in outputs : o.id = batch[r] \/ o.id \cap batch[r] = {}
  BY <1>2 DEF Once, Protocol
<1>5. Closed' <=> Closed
  BY <1>2 DEF Closed
<1>6. ASSUME NEW o \in outputs' PROVE Tidy(o, r, cfg)'
  <2>1. CASE o = new
    BY <1>2, <1>3, <2>1 DEF Tidy
  <2>2. CASE o \in outputs
    BY <1>2, <1>5, <2>2 DEF Once, Tidy, Orphan
  <2> QED BY <1>3, <2>1, <2>2
<1>7. \A o \in outputs' : o.id = batch[r] \/ o.id \cap batch[r] = {}
  BY <1>3, <1>4
<1>8. Protocol(r, cfg)'
  BY <1>2, <1>5, <1>7 DEF Once, Protocol, Window
<1>9. Apart'
  BY <1>3, <1>4 DEF Once, Apart
<1> QED BY <1>2, <1>6, <1>8, <1>9 DEF Once

\* The manifest covers what is in both places; no other object needs one.
LEMMA PutManifestOnce ==
  ASSUME NEW r, NEW cfg, Sole(r, cfg), IInv, Once(r, cfg), PutManifest(r)
  PROVE  Once(r, cfg)'
<1>1. PICK new : new = [id |-> batch[r], sources |-> batch[r], readable |-> TRUE]
  OBVIOUS
<1>2. /\ pc[r] = "putManifest" /\ pc'[r] = "delete" /\ todo'[r] = batch[r]
      /\ manifests' = {m \in manifests : m.id # batch[r]} \cup {new}
      /\ UNCHANGED <<age, sources, outputs, batch>>
  BY <1>1, Basics DEF PutManifest, Goto, clock
<1>3. /\ manifests = {} /\ age \in Window
      /\ batch[r] \subseteq sources
      /\ Closed /\ Caps = {cfg} => batch[r] = SelectSources(sources, cfg)
  BY <1>2 DEF Once, Protocol
<1>4. manifests' = {new} /\ new.id = batch[r] /\ new.readable
  BY <1>1, <1>2, <1>3
<1>5. ASSUME NEW o \in outputs PROVE Tidy(o, r, cfg)'
  <2>1. o.id \cap sources = {} \/ o.id = batch[r]
    BY <1>2, <1>3 DEF Once, Tidy, Orphan
  <2> QED BY <1>2, <1>4, <2>1 DEF Tidy
<1>6. Protocol(r, cfg)'
  BY <1>2, <1>3, <1>4 DEF Protocol, Window
<1> QED BY <1>2, <1>4, <1>5, <1>6 DEF Once, Apart

\* While a manifest is there it covers what is left.
LEMMA DeleteSourceOnce ==
  ASSUME NEW r, NEW cfg, Sole(r, cfg), IInv, Once(r, cfg), DeleteSource(r)
  PROVE  Once(r, cfg)'
<1>1. PICK f \in todo[r] : sources' = sources \ {f} /\ todo'[r] = todo[r] \ {f}
  BY Basics DEF DeleteSource
<1>2. /\ pc[r] \in {"recoverDelete", "delete"} /\ pc'[r] = pc[r]
      /\ UNCHANGED <<age, outputs, manifests, seen, pending, batch, recovered>>
  BY Basics DEF DeleteSource, clock
<1>3. \E m \in manifests : TRUE
  BY <1>2 DEF Once, Protocol
<1>4. ASSUME NEW o \in outputs PROVE Tidy(o, r, cfg)'
  <2>1. o.id \cap sources = {} \/ \E m \in manifests : m.id = o.id
    BY <1>2, <1>3 DEF Once, Tidy, Orphan
  <2> QED BY <1>1, <1>2, <2>1 DEF Tidy
<1>5. \A m \in manifests : m.id \cap sources' \subseteq m.id \cap sources
  BY <1>1
<1>6. batch[r] \cap sources \subseteq todo[r] => batch'[r] \cap sources' \subseteq todo'[r]
  BY <1>1, <1>2
<1>7. Protocol(r, cfg)'
  <2>1. CASE pc[r] = "recoverDelete"
    BY <1>2, <1>5, <1>6, <2>1 DEF Once, Protocol, Window
  <2>2. CASE pc[r] = "delete"
    BY <1>2, <1>6, <2>2 DEF Once, Protocol, Window
  <2> QED BY <1>2, <2>1, <2>2
<1> QED BY <1>2, <1>4, <1>7 DEF Once, Apart

\* When a run forgets its manifest the batch is gone.
LEMMA ForgetCleans ==
  ASSUME NEW r, NEW cfg, Sole(r, cfg), IInv, Once(r, cfg), Forget(r)
  PROVE  Clean'
<1>1. /\ pc[r] = "delete" /\ todo[r] = {}
      /\ manifests' = {m \in manifests : m.id # batch[r]}
      /\ UNCHANGED <<sources, outputs>>
  BY DEF Forget
<1>2. /\ \E m \in manifests : TRUE
      /\ \A m \in manifests : m.id = batch[r]
      /\ batch[r] \cap sources = {}
  BY <1>1 DEF Once, Protocol
<1>3. \A o \in outputs : o.id \cap sources = {}
  BY <1>1, <1>2 DEF Once, Tidy, Orphan
<1> QED BY <1>1, <1>2, <1>3 DEF Clean

\* A clean bucket is tidy.
LEMMA ForgetOnce ==
  ASSUME NEW r, NEW cfg, Sole(r, cfg), IInv, Once(r, cfg), Forget(r)
  PROVE  Once(r, cfg)'
<1>1. pc'[r] = "idle" /\ ~ recovered'[r] /\ UNCHANGED outputs
  BY Basics DEF Forget, Return, Goto
<1>2. Clean'
  BY ForgetCleans
<1>3. \A o \in outputs' : Tidy(o, r, cfg)'
  BY <1>2 DEF Clean, Tidy
<1>4. Protocol(r, cfg)'
  BY <1>1 DEF Protocol
<1> QED BY <1>1, <1>2, <1>3, <1>4 DEF Once, Apart, Clean

\* Nothing can damage a manifest.
LEMMA NoDamage ==
  ASSUME NEW r, NEW cfg, Sole(r, cfg)
  PROVE  ~ DamageManifest
BY DEF Sole, DamageManifest

\* An empty bucket is tidy.
LEMMA OnceInit ==
  ASSUME NEW r, NEW cfg, Sole(r, cfg), Init
  PROVE  Once(r, cfg)
BY DEF Sole, Init, Once, Apart, Protocol

\* Every step keeps the bucket tidy.
LEMMA OnceNext ==
  ASSUME NEW r, NEW cfg, Sole(r, cfg), IInv, Known, Once(r, cfg), [Next]_vars
  PROVE  Once(r, cfg)'
<1>1. ASSUME NEW f \in Files, Upload(f) PROVE Once(r, cfg)'
  BY <1>1, UploadOnce
<1>2. CASE NextDay
  BY <1>2, NextDayOnce
<1>3. CASE Start(r) \/ Fail(r)
  BY <1>3, StartOnce, FailOnce
<1>4. CASE Step(r)
  BY <1>4, ListFirstPageOnce, ListRestOnce, RelistRestOnce, ReadManifestOnce,
     RecoverForgetOnce, EndRecoveryOnce, SelectOnce, GetSourceOnce, PutOutputOnce,
     PutManifestOnce, DeleteSourceOnce, ForgetOnce DEF Step
<1>5. CASE UNCHANGED vars
  BY <1>5 DEF vars, clock, bucket, locals, Once, Tidy, Orphan, Closed, Protocol, Listed, Apart, Window
<1> QED BY <1>1, <1>2, <1>3, <1>4, <1>5, Basics, NoDamage DEF Next

-----------------------------------------------------------------------------
(* The end of the window *)

\* A run that returns without having died has left the bucket clean: with
\* too little to merge there is no orphan.
LEMMA ReturnCleans ==
  ASSUME NEW r, NEW cfg, Sole(r, cfg), IInv, Once(r, cfg), Step(r), pc'[r] = "idle"
  PROVE  Clean'
<1>1. CASE Forget(r)
  BY <1>1, ForgetCleans
<1>2. CASE Select(r)
  <2>1. PICK c \in Caps : Cardinality(SelectSources(seen[r], c)) < c.minFiles
    BY <1>2, Basics DEF Select, Goto
  <2>2. pc[r] = "select" /\ UNCHANGED bucket
    BY <1>2 DEF Select
  <2>3. PICK chosen : chosen = SelectSources(seen[r], c)
    OBVIOUS
  <2>4. Listed(r, Files) /\ manifests = {}
    BY <2>2 DEF Once, Protocol
  <2>5. Closed /\ Caps = {cfg} => chosen = SelectSources(sources, cfg)
    <3>1. Closed => seen[r] = sources
      BY <2>4, Basics DEF Listed
    <3> QED BY <2>3, <3>1
  <2>6. ASSUME NEW o \in outputs PROVE ~ Orphan(o, cfg)
    <3>1. c.minFiles \in Nat
      BY LimitsAssumption
    <3>2. SUFFICES ASSUME Orphan(o, cfg) PROVE FALSE
      OBVIOUS
    <3>3. Cardinality(chosen) >= c.minFiles
      BY <2>5, <3>2 DEF Orphan
    <3>4. IsFiniteSet(chosen)
      BY <2>3, SelectionListed, Basics, FilesAssumption, FS_Subset
    <3>5. Cardinality(chosen) \in Nat
      BY <3>4, FS_CardinalityType
    <3> QED BY <2>1, <2>3, <3>1, <3>3, <3>5
  <2>7. \A o \in outputs : o.id \cap sources = {}
    BY <2>2, <2>4, <2>6 DEF Once, Tidy
  <2> QED BY <2>2, <2>4, <2>7 DEF Clean, bucket
<1>3. CASE ReadManifest(r)
  BY <1>3, ReadManifestReads
<1>4. CASE GetSource(r)
  <2>1. pc[r] = "get" /\ todo[r] \subseteq sources
    BY <1>4, Basics DEF GetSource, Once, Protocol
  <2> QED BY <1>4, <2>1, Basics DEF GetSource, Goto
<1>5. CASE DeleteSource(r)
  BY <1>5 DEF DeleteSource
<1> QED BY <1>1, <1>2, <1>3, <1>4, <1>5, Basics
     DEF Step, ListFirstPage, ListRest, RelistRest, RecoverForget, EndRecovery,
         PutOutput, PutManifest, Goto

\* An upload leaves a clean bucket clean.
LEMMA UploadClean ==
  ASSUME Known, Clean, NEW f \in Files, Upload(f)
  PROVE  Clean'
BY DEF Known, Clean, Upload

\* The last day ends clean, and nothing is done after it.
LEMMA CleanedNext ==
  ASSUME NEW r, NEW cfg, Sole(r, cfg), Faults[LookbackDays] = {},
         IInv, Known, Once(r, cfg), Cleaned(r), [Next]_vars
  PROVE  Cleaned(r)'
<1>1. ASSUME NEW f \in Files, Upload(f) PROVE Cleaned(r)'
  BY <1>1, UploadClean DEF Cleaned, Upload, clock, locals
<1>2. CASE NextDay
  <2>1. /\ age' = age + 1 /\ ~ invoked' /\ pc'[r] = "idle" /\ UNCHANGED bucket
        /\ pc[r] = "idle" /\ age <= LookbackDays
        /\ age = LookbackDays => invoked
    <3>1. LookbackDays # 0
      BY LimitsAssumption
    <3> QED BY <1>2, <3>1, Basics DEF NextDay, locals
  <2>2. age' > LookbackDays => age = LookbackDays
    BY <2>1, Basics
  <2>3. age' > LookbackDays => Clean'
    BY <2>1, <2>2 DEF Cleaned, Clean, bucket
  <2> QED BY <2>1, <2>3 DEF Cleaned
<1>3. ASSUME age \in Window, age' = age, age = LookbackDays /\ pc'[r] = "idle" => Clean'
      PROVE  Cleaned(r)'
  BY <1>3, Basics DEF Cleaned, Window
<1>4. CASE Start(r)
  BY <1>3, <1>4, Basics DEF Start, Goto
<1>5. pc[r] # "idle" => age \in Window
  BY DEF Once, Protocol
<1>6. CASE Fail(r)
  BY <1>3, <1>5, <1>6 DEF Fail, clock
<1>7. CASE Step(r)
  <2>1. pc[r] # "idle" /\ UNCHANGED age
    BY <1>7 DEF Step, ListFirstPage, ListRest, RelistRest, ReadManifest, RecoverForget,
       EndRecovery, Select, GetSource, PutOutput, PutManifest, DeleteSource, Forget, clock
  <2> QED BY <1>3, <1>5, <1>7, <2>1, ReturnCleans
<1>8. CASE UNCHANGED vars
  BY <1>8 DEF vars, clock, bucket, locals, Cleaned, Clean
<1> QED BY <1>1, <1>2, <1>4, <1>6, <1>7, <1>8, Basics, NoDamage DEF Next

\* In a clean bucket each row is there once.
LEMMA CleanCounts ==
  ASSUME IInv, Known, Apart, Clean, NEW f \in uploaded
  PROVE  Copies(f) = 1
<1>1. \A o \in outputs : o.rows = o.id
  BY DEF IInv, OutputsExact
<1>2. PICK holders : holders = {o \in outputs : f \in o.rows}
  OBVIOUS
<1>3. CASE f \in sources
  <2>1. holders = {}
    BY <1>1, <1>2, <1>3 DEF Clean
  <2> QED BY <1>2, <1>3, <2>1, FS_EmptySet DEF Copies
<1>4. CASE f \notin sources
  <2>1. PICK o \in outputs : f \in o.rows
    BY <1>4 DEF IInv, NoRowLost, Readable
  <2>2. ASSUME NEW p \in holders PROVE p = o
    <3>1. p.id = o.id /\ p.rows = o.rows
      BY <1>1, <1>2, <2>1, <2>2 DEF Apart
    <3>2. p \in Output /\ o \in Output
      BY <1>2, <2>1 DEF IInv, TypeOK
    <3> QED BY <3>1, <3>2 DEF Output
  <2>3. holders = {o}
    BY <1>2, <2>1, <2>2
  <2>4. Cardinality(holders) = 1
    BY <2>3, FS_Singleton
  <2> QED BY <1>2, <1>4, <2>4 DEF Copies
<1> QED BY <1>3, <1>4

-----------------------------------------------------------------------------
(* The theorems *)

\* What CompactionProofs shows of any runs.
LEMMA KnownAlways == Spec => [](IInv /\ Known)
<1>1. Init => Known
  BY DEF Init, Known
<1> QED BY <1>1, KnownInv, Invariance, PTL DEF Spec

\* The strengthening is an invariant.
LEMMA OnceAlways ==
  ASSUME NEW CONSTANT r, NEW CONSTANT cfg, Sole(r, cfg)
  PROVE  Spec => []Once(r, cfg)
<1>1. Init => Once(r, cfg)
  BY OnceInit
<1>2. IInv /\ Known /\ Once(r, cfg) /\ [Next]_vars => Once(r, cfg)'
  BY OnceNext
<1> QED BY <1>1, <1>2, KnownAlways, PTL DEF Spec

\* MergedOnce: runs that do not overlap, however many die and wherever, never
\* merge a row into two objects (compact.go).
THEOREM EachMergedOnce ==
  ASSUME NEW CONSTANT r, NEW CONSTANT cfg, Sole(r, cfg)
  PROVE  Spec => []MergedOnce
<1>1. IInv /\ Once(r, cfg) => MergedOnce
  <2> SUFFICES ASSUME IInv, Once(r, cfg), NEW o \in outputs, NEW p \in outputs, o # p
               PROVE  o.rows \cap p.rows = {}
    BY DEF MergedOnce
  <2>1. o.rows = o.id /\ p.rows = p.id /\ o \in Output /\ p \in Output
    BY DEF IInv, TypeOK, OutputsExact
  <2>2. o.id # p.id
    BY <2>1 DEF Output
  <2> QED BY <2>1, <2>2 DEF Once, Apart
<1> QED BY <1>1, OnceAlways, KnownAlways, PTL

\* DuplicatesRecoverable: a row that is in a merged object and still a source is
\* under a manifest or in the batch the next run selects (compact.go).
THEOREM DuplicatesAreSeenTo ==
  ASSUME NEW CONSTANT r, NEW CONSTANT cfg, Sole(r, cfg)
  PROVE  Spec => []DuplicatesRecoverable
<1>1. IInv /\ Once(r, cfg) => DuplicatesRecoverable
  <2> SUFFICES ASSUME IInv, Once(r, cfg), NEW o \in outputs
               PROVE  \/ o.rows \cap sources = {}
                      \/ \E m \in manifests : m.id = o.id /\ m.readable
                      \/ \E q \in Runs : pc[q] = "putManifest" /\ batch[q] = o.id
                      \/ \E c \in Caps : o.id = SelectSources(sources, c)
    BY DEF DuplicatesRecoverable
  <2>1. o.rows = o.id
    BY DEF IInv, OutputsExact
  <2> QED BY <2>1, Basics DEF Once, Tidy, Orphan
<1> QED BY <1>1, OnceAlways, KnownAlways, PTL

\* CleanAfterWindow: if the last run in the window does not die, the day leaves
\* it with each row there once and no manifest (compact.go, main.go).
THEOREM CleanAfterLastDay ==
  ASSUME NEW CONSTANT r, NEW CONSTANT cfg, Sole(r, cfg), Faults[LookbackDays] = {}
  PROVE  Spec => []CleanAfterWindow
<1>1. Init => Cleaned(r)
  BY LimitsAssumption DEF Init, Cleaned
<1>2. IInv /\ Known /\ Once(r, cfg) /\ Cleaned(r) /\ [Next]_vars => Cleaned(r)'
  BY CleanedNext
<1>3. IInv /\ Known /\ Once(r, cfg) /\ Cleaned(r) => CleanAfterWindow
  BY CleanCounts DEF CleanAfterWindow, Once, Cleaned, Clean
<1> QED BY <1>1, <1>2, <1>3, OnceAlways, KnownAlways, PTL DEF Spec

-----------------------------------------------------------------------------
(* Runs that do not overlap implement MergeTable. *)

\* A batch that has been merged is known by the set it was made of.
LEMMA BatchesAreIds ==
  ASSUME OutputsExact
  PROVE  Batches = {o.id : o \in outputs}
BY DEF OutputsExact, Batches

\* Only the Put of a merged object makes a batch, only an upload a new row.
LEMMA BatchOrNot ==
  ASSUME [Next]_vars
  PROVE  \/ \E f \in Files : Upload(f)
         \/ \E q \in Runs : PutOutput(q)
         \/ UNCHANGED <<uploaded, outputs>>
<1>1. ASSUME NEW q \in Runs, Start(q) \/ Fail(q)
      PROVE  UNCHANGED <<uploaded, outputs>>
  BY <1>1 DEF Start, Fail, bucket
<1>2. ASSUME NEW q \in Runs, Step(q), ~ PutOutput(q)
      PROVE  UNCHANGED <<uploaded, outputs>>
  BY <1>2 DEF Step, ListFirstPage, ListRest, RelistRest, ReadManifest,
     RecoverForget, EndRecovery, Select, GetSource, PutManifest, DeleteSource,
     Forget, bucket
<1>3. CASE NextDay \/ DamageManifest \/ UNCHANGED vars
  BY <1>3 DEF NextDay, DamageManifest, vars, bucket
<1> QED BY <1>1, <1>2, <1>3 DEF Next

\* An upload ships a row that is in no batch.
LEMMA UploadShips ==
  ASSUME IInv, Known, NEW f \in Files, Upload(f)
  PROVE  Merges!Ship(f)
<1>1. /\ f \notin uploaded /\ uploaded' = uploaded \cup {f}
      /\ outputs' = outputs
  BY DEF Upload
<1>2. UNION Batches \subseteq uploaded
  BY BatchesAreIds DEF IInv, Known
<1>3. Batches' = Batches
  BY <1>1 DEF Batches
<1>4. uploaded' \ UNION Batches' = (uploaded \ UNION Batches) \cup {f}
  BY <1>1, <1>2, <1>3
<1>5. f \notin (uploaded \ UNION Batches) \cup UNION Batches
  BY <1>1, <1>2
<1> QED BY <1>3, <1>4, <1>5 DEF Merges!Ship

\* The Put of a merged object takes its batch from the rows that are in none,
\* or writes once more what an interrupted run has written.
LEMMA PutOutputMerges ==
  ASSUME NEW r, NEW cfg, Sole(r, cfg), IInv, Once(r, cfg), PutOutput(r)
  PROVE  \/ \E lot \in Lots : Merges!Merge(lot)
         \/ UNCHANGED <<uploaded, Batches>>
<1>1. PICK new : new = [id |-> batch[r], rows |-> batch[r]]
  OBVIOUS
<1>2. pc[r] = "putOutput" /\ outputs' = outputs \cup {new} /\ uploaded' = uploaded
  BY <1>1, Basics, PutOutputKeeps DEF PutOutput
<1>3. Batches' = Batches \cup {batch[r]}
  BY <1>1, <1>2 DEF Batches
<1>4. CASE batch[r] \in Batches
  BY <1>2, <1>3, <1>4
<1>5. CASE batch[r] \notin Batches
  <2>1. \A S \in Batches : S \cap batch[r] = {}
    BY <1>2, <1>5, BatchesAreIds DEF IInv, Once, Protocol
  <2>2. batch[r] \subseteq uploaded \ UNION Batches
    BY <1>2, <2>1, Basics DEF Once, Protocol
  <2>3. uploaded' \ UNION Batches' = (uploaded \ UNION Batches) \ batch[r]
    BY <1>2, <1>3
  <2>4. batch[r] \in Lots
    BY <1>2, <2>2, Basics DEF Once, Protocol, Worth, Lots
  <2>5. Merges!Merge(batch[r])
    BY <1>3, <2>2, <2>3, <2>4 DEF Merges!Merge
  <2> QED BY <2>4, <2>5
<1> QED BY <1>4, <1>5

\* MergesAreAtomic: with runs that do not overlap, wherever they die, the merged
\* objects are those of runs that merge in one step (compact.go).
THEOREM AtomicMerges ==
  ASSUME NEW CONSTANT r, NEW CONSTANT cfg, Sole(r, cfg)
  PROVE  Spec => MergesAreAtomic
<1>1. Init => Merges!Init
  BY DEF Init, Merges!Init, Batches
<1>2. IInv /\ Known /\ Once(r, cfg) /\ [Next]_vars
      => [Merges!Next]_<<uploaded \ UNION Batches, Batches>>
  <2> SUFFICES ASSUME IInv, Known, Once(r, cfg), [Next]_vars
               PROVE  [Merges!Next]_<<uploaded \ UNION Batches, Batches>>
    OBVIOUS
  <2>1. ASSUME NEW f \in Files, Upload(f) PROVE Merges!Next
    BY <2>1, UploadShips DEF Merges!Next
  <2>2. CASE PutOutput(r)
    <3>1. CASE UNCHANGED <<uploaded, Batches>>
      BY <3>1
    <3>2. CASE \E lot \in Lots : Merges!Merge(lot)
      BY <3>2 DEF Merges!Next
    <3> QED BY <2>2, <3>1, <3>2, PutOutputMerges
  <2>3. CASE UNCHANGED <<uploaded, outputs>>
    BY <2>3 DEF Batches
  <2> QED BY <2>1, <2>2, <2>3, BatchOrNot, Basics
<1> QED
  BY <1>1, <1>2, OnceAlways, KnownAlways, PTL
  DEF Spec, MergesAreAtomic, Merges!Spec
===============================================================================
