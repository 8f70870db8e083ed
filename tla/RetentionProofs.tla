--------------------------- MODULE RetentionProofs ---------------------------
(* Proofs about Retention, for any lifecycle options, any look-back and       *)
(* projection window, any number of days, files and retries.                  *)
EXTENDS Retention, FiniteSetTheorems, TLAPS

\* A run sees one midnight at most, and is only tried again if it may be.
Running ==
    /\ started <= today
    /\ pc # "idle" => today <= started + 1
    /\ pc = "retry" => retries > 0

\* No object is from the future or overdue, and a merged one was made within
\* a day of the window.
Aged ==
    /\ \A o \in sources \cup outputs : o.made <= today /\ Kept(o.made)
    /\ \A o \in outputs : o.made <= o.day + Lookback + 1

\* A file is written once and merged once.
Once ==
    /\ \A v, w \in written : v.day = w.day /\ v.file = w.file => v = w
    /\ \A s \in sources, o \in outputs : s.day = o.day => s.file \notin o.files

Types == TypeOK /\ IsFiniteSet(sources) /\ IsFiniteSet(outputs)

-----------------------------------------------------------------------------
(* Rules *)

\* The rules are what is asked for, by either way of asking.
LEMMA RulesAsAsked ==
  ASSUME bucket \in BucketProps, NEW step \in Shorthand
  PROVE  /\ Asked(step) \in Nat
         /\ step \in DOMAIN LifecycleRules(bucket) <=> Asked(step) > 0
         /\ step \in DOMAIN LifecycleRules(bucket) => LifecycleRules(bucket)[step] = Asked(step)
<1>1. PICK props : props = bucket
  OBVIOUS
<1>2. CASE "lifecycleRules" \in DOMAIN props
  <2>1. PICK rules : rules = props.lifecycleRules
    OBVIOUS
  <2>2. LifecycleRules(bucket) = rules
    BY <1>1, <1>2, <2>1 DEF LifecycleRules
  <2>3. Asked(step) = IF step \in DOMAIN rules THEN rules[step] ELSE 0
    BY <1>1, <1>2, <2>1 DEF Asked
  <2>4. step \in DOMAIN rules => rules[step] \in Nat /\ rules[step] > 0
    <3>1. step \in DOMAIN rules => rules[step] \in Nat \ {0}
      BY <1>1, <1>2, <2>1, BucketAssumption
    <3> QED BY <3>1
  <2> QED BY <2>2, <2>3, <2>4
<1>3. CASE "lifecycleRules" \notin DOMAIN props
  <2>1. PICK after : after = After(props, step)
    OBVIOUS
  <2>2. after \in Nat
    <3>1. CASE step \in DOMAIN props
      BY <1>1, <2>1, <3>1, BucketAssumption DEF After
    <3>2. CASE step \notin DOMAIN props
      BY <2>1, <3>2 DEF After, DefaultAfter, Shorthand
    <3> QED BY <3>1, <3>2
  <2>3. Asked(step) = after
    BY <1>1, <1>3, <2>1 DEF Asked
  <2>4. LifecycleRules(bucket) = [s \in {t \in Shorthand : After(props, t) > 0} |-> After(props, s)]
    BY <1>1, <1>3 DEF LifecycleRules, BuildLifecycleRules
  <2>5. step \in DOMAIN LifecycleRules(bucket) <=> after > 0
    BY <2>1, <2>4
  <2>6. step \in DOMAIN LifecycleRules(bucket) => LifecycleRules(bucket)[step] = after
    BY <2>1, <2>4
  <2> QED BY <2>2, <2>3, <2>5, <2>6
<1> QED BY <1>2, <1>3

\* When a step is due.
LEMMA DueIs ==
  ASSUME bucket \in BucketProps, NEW step \in Shorthand, NEW o, NEW day
  PROVE  Due(o, step, day) <=> Asked(step) > 0 /\ day > o.made + Asked(step)
BY RulesAsAsked DEF Due

-----------------------------------------------------------------------------
(* Steps *)

\* An empty bucket on the first day has every type and age.
LEMMA InitTypes == Init => Types /\ Running /\ Aged /\ Once
<1> SUFFICES ASSUME Init PROVE Types /\ Running /\ Aged /\ Once
  OBVIOUS
<1>1. 1 \in Days /\ 1 \in 1 .. Lookback + 1 /\ 0 \in 0 .. MaxRetries
  BY DurationsAssumption DEF Days
<1>2. TypeOK
  BY <1>1 DEF Init, TypeOK
<1> QED BY <1>2, FS_EmptySet DEF Init, Types, Running, Aged, Once

\* The partition that is compacted is of a closed day of the window.
LEMMA PartitionIs ==
  ASSUME Types, Running, pc = "run", at <= Lookback
  PROVE  /\ Partition(at) \in Int /\ Partition(at) < today
         /\ today <= Partition(at) + Lookback + 1
BY DurationsAssumption DEF Types, TypeOK, Running, Partition, Days

\* What is selected is of the partition.
LEMMA SelectedIs ==
  ASSUME NEW d
  PROVE  Selected(d) \subseteq sources /\ \A s \in Selected(d) : s.day = d
BY DEF Selected, SelectSources, Sources

\* The objects' types, without the rest.
LEMMA ObjectTypes ==
  ASSUME Types
  PROVE  /\ today \in Nat /\ today \in Days /\ MinFiles \in Nat /\ MinFiles > 0
         /\ \A w \in written : /\ w \in Source /\ w.day \in Nat /\ w.made \in Nat /\ w.file \in Nat
                               /\ w.day \in Days /\ w.made >= w.day /\ w.made <= w.day + 1
         /\ sources \subseteq written
         /\ \A o \in outputs : o.day \in Nat /\ o.made \in Nat /\ o.made >= o.day + 1
<1>1. \A w \in written : w \in Source /\ w.made \in {w.day, w.day + 1}
  BY DEF Types, TypeOK
<1>2. \A o \in outputs : o \in Output /\ o.made > o.day
  BY DEF Types, TypeOK
<1>3. \A w \in written : w.day \in Days /\ w.made \in Days /\ w.file \in Nat
  BY <1>1 DEF Source
<1>4. \A o \in outputs : o.day \in Days /\ o.made \in Days
  BY <1>2 DEF Output
<1>5. today \in Days /\ sources \subseteq written
  BY DEF Types, TypeOK
<1>6. \A d \in Days : d \in Nat
  BY DEF Days
<1>7. MinFiles \in Nat /\ MinFiles > 0
  BY DurationsAssumption
<1> QED BY <1>1, <1>2, <1>3, <1>4, <1>5, <1>6, <1>7

\* What an upload that ends leaves: one more file, of today or yesterday.
Lands(w) ==
    /\ w \in Source /\ w.made = today /\ w.made \in {w.day, w.day + 1}
    /\ w.file \in 1 .. FilesOf[w.day]
    /\ \A v \in written : v.day = w.day => v.file # w.file
    /\ written' = written \cup {w}
    /\ sources' = sources \cup {w}
    /\ UNCHANGED <<config, today, outputs, handler, invoked>>

\* Write is such a step.
LEMMA WriteLands ==
  ASSUME Types, Write
  PROVE  \E w : Lands(w)
<1>0. PICK d \in {today, today - 1} \cap Days : \E n \in 1 .. FilesOf[d] :
         /\ \A w \in written : <<w.day, w.file>> # <<d, n>>
         /\ written' = written \cup {[day |-> d, made |-> today, file |-> n]}
         /\ sources' = sources \cup {[day |-> d, made |-> today, file |-> n]}
  BY DEF Write
<1>1. PICK n \in 1 .. FilesOf[d] :
         /\ \A w \in written : <<w.day, w.file>> # <<d, n>>
         /\ written' = written \cup {[day |-> d, made |-> today, file |-> n]}
         /\ sources' = sources \cup {[day |-> d, made |-> today, file |-> n]}
  BY <1>0
<1>2. PICK w : w = [day |-> d, made |-> today, file |-> n]
  OBVIOUS
<1>3. d \in Nat /\ today \in Nat /\ FilesOf[d] \in Nat
  BY DurationsAssumption, ObjectTypes DEF Days
<1>4. n \in Nat /\ (d = today \/ today = d + 1)
  BY <1>1, <1>3
<1>5. w \in Source
  BY <1>2, <1>4, ObjectTypes DEF Source
<1>6. UNCHANGED <<config, today, outputs, handler, invoked>>
  BY DEF Write
<1>7. Lands(w)
  BY <1>1, <1>2, <1>4, <1>5, <1>6 DEF Lands
<1> QED BY <1>7

\* What a merge leaves: one more object, in place of what was selected.
Merges(d, o) ==
    /\ d \in Days /\ d = Partition(at) /\ ~ Settled(d) /\ Selected(d) # {}
    /\ o \in Output /\ o.day = d /\ o.made = today
    /\ o.files = {s.file : s \in Selected(d)}
    /\ Cardinality(o.files) >= MinFiles
    /\ sources' = sources \ Selected(d)
    /\ outputs' = outputs \cup {o}
    /\ compacted' = compacted \cup {d}

\* Merge is such a step.
LEMMA MergeMerges ==
  ASSUME Types, Once, Merge
  PROVE  \E d, o : Merges(d, o)
<1>1. PICK d : d = Partition(at)
  OBVIOUS
<1>2. PICK o : o = [day |-> d, made |-> today, files |-> {s.file : s \in Selected(d)}]
  OBVIOUS
<1>3. /\ ~ Settled(d)
      /\ sources' = sources \ Selected(d)
      /\ outputs' = outputs \cup {o}
      /\ compacted' = compacted \cup {d}
  BY <1>1, <1>2 DEF Merge
<1>4. IsFiniteSet(Selected(d))
  BY SelectedIs, FS_Subset DEF Types
<1>5. PICK n \in Nat : n = Cardinality(Selected(d))
  BY <1>4, FS_CardinalityType
<1>6. n >= MinFiles /\ n > 0
  BY <1>3, <1>5, ObjectTypes DEF Settled
<1>7. Selected(d) # {}
  BY <1>5, <1>6, FS_EmptySet
<1>8. d \in Days /\ \A s \in Selected(d) : s.file \in Nat
  BY <1>7, SelectedIs, ObjectTypes
<1>9. o \in Output
  BY <1>2, <1>8, ObjectTypes DEF Output
<1>10. Cardinality(o.files) = n
  <2>1. PICK f : f = [s \in Selected(d) |-> s.file]
    OBVIOUS
  <2>2. \A r, s \in Selected(d) : r.file = s.file => r = s
    BY SelectedIs, ObjectTypes DEF Once
  <2>3. f \in Bijection(Selected(d), o.files)
    BY <1>2, <2>1, <2>2 DEF Bijection, Injection, Surjection, IsInjective
  <2>4. ExistsBijection(Selected(d), o.files)
    BY <2>3 DEF ExistsBijection
  <2> QED BY <1>4, <1>5, <2>4, FS_Bijection
<1>11. Merges(d, o)
  BY <1>1, <1>2, <1>3, <1>6, <1>7, <1>8, <1>9, <1>10 DEF Merges
<1> QED BY <1>11

\* Nothing but these changes objects.
LEMMA ObjectsChange ==
  ASSUME [Next]_vars
  PROVE  \/ Write \/ NextDay \/ (Compact /\ Merge)
         \/ UNCHANGED <<objects, today>>
BY DEF Next, Handler, Invoke, Retry, Run, Compact, Skip, FailOne, CompactFails, Return, Die, vars, objects

\* What the bucket is given and which days are stuck never changes.
LEMMA BucketStays ==
  ASSUME [Next]_vars
  PROVE  UNCHANGED <<bucket, stuck>>
BY DEF Next, Handler, Write, NextDay, Invoke, Retry, Run, Compact, FailOne, CompactFails, Return, Die, vars, config

\* So the durations asked for never change.
LEMMA AskedStays ==
  ASSUME [Next]_vars
  PROVE  /\ KeepFor' = KeepFor
         /\ Asked("glacierAfter")' = Asked("glacierAfter")
BY BucketStays DEF KeepFor, Asked

-----------------------------------------------------------------------------
(* Types and ages *)

\* Every step keeps the types, and a run within one midnight of its start.
LEMMA TypesNext == Types /\ Running /\ Once /\ [Next]_vars => Types' /\ Running'
<1> SUFFICES ASSUME Types, Running, Once, [Next]_vars PROVE Types' /\ Running'
  OBVIOUS
<1> USE DEF Types, Running
<1>1. CASE Write
  <2>1. PICK w : Lands(w)
    BY <1>1, WriteLands
  <2>2. IsFiniteSet(sources') /\ IsFiniteSet(outputs')
    BY <2>1, FS_AddElement DEF Lands
  <2>3. written' \subseteq Source /\ sources' \subseteq written'
    BY <2>1 DEF Lands, TypeOK
  <2>4. \A v \in written' : v.made \in {v.day, v.day + 1} /\ v.file \in 1 .. FilesOf[v.day]
    BY <2>1 DEF Lands, TypeOK
  <2>5. \A o \in outputs' :
          /\ o.made > o.day
          /\ Cardinality(o.files) >= MinFiles
          /\ o.files \subseteq {v.file : v \in {u \in written' : u.day = o.day}}
    <3>1. written \subseteq written' /\ outputs' = outputs
      BY <2>1 DEF Lands
    <3> QED BY <3>1 DEF TypeOK
  <2> QED BY <2>1, <2>2, <2>3, <2>4, <2>5 DEF Lands, TypeOK, config, handler
<1>2. CASE NextDay
  <2>1. /\ today < LastDay /\ today' = today + 1
        /\ pc # "idle" => started = today
        /\ sources' \subseteq sources /\ outputs' \subseteq outputs
        /\ invoked' = FALSE
        /\ UNCHANGED <<config, written, handler>>
    BY <1>2 DEF NextDay
  <2>2. today' \in Days /\ started <= today' /\ (pc # "idle" => today' <= started + 1)
    BY <2>1, DurationsAssumption DEF TypeOK, Days
  <2>3. IsFiniteSet(sources') /\ IsFiniteSet(outputs')
    BY <2>1, FS_Subset
  <2> QED BY <2>1, <2>2, <2>3 DEF TypeOK, config, handler
<1>3. CASE Invoke
  <2>1. MaxRetries \in 0 .. MaxRetries /\ 1 \in 1 .. Lookback + 1 /\ today <= today + 1 /\ today <= today
    BY DurationsAssumption DEF TypeOK, Days
  <2> QED BY <1>3, <2>1 DEF Invoke, Run, Fresh, TypeOK, config, objects
<1>4. CASE Retry
  <2>1. retries - 1 \in 0 .. MaxRetries
    BY <1>4, DurationsAssumption DEF Retry, TypeOK
  <2>2. 1 \in 1 .. Lookback + 1 /\ today <= today + 1 /\ today <= today
    BY DurationsAssumption DEF TypeOK, Days
  <2> QED BY <1>4, <2>1, <2>2 DEF Retry, Run, Fresh, TypeOK, config, objects
<1>5. CASE Compact
  <2>1. /\ at' = at + 1 /\ at <= Lookback /\ pc = "run"
        /\ UNCHANGED <<config, today, written, pc, started, failed, retries, invoked>>
    BY <1>5 DEF Compact
  <2>2. at' \in 1 .. Lookback + 1
    BY <2>1, DurationsAssumption DEF TypeOK
  <2>3. CASE Skip
    BY <2>1, <2>2, <2>3 DEF Skip, TypeOK, config
  <2>4. CASE Merge
    <3>1. PICK d, o : Merges(d, o)
      BY <2>4, MergeMerges
    <3>2. today > d
      BY <2>1, <3>1, PartitionIs DEF Merges
    <3>3. o.files \subseteq {v.file : v \in {u \in written : u.day = o.day}}
      BY <3>1, SelectedIs DEF Merges, TypeOK
    <3>4. \A p \in outputs' : p \in outputs \/ p = o
      BY <3>1 DEF Merges
    <3>5. outputs' \subseteq Output
      BY <3>1, <3>4 DEF Merges, TypeOK
    <3>6. \A p \in outputs' :
            /\ p.made > p.day
            /\ Cardinality(p.files) >= MinFiles
            /\ p.files \subseteq {v.file : v \in {u \in written : u.day = p.day}}
      <4>1. /\ o.made > o.day
            /\ Cardinality(o.files) >= MinFiles
        BY <3>1, <3>2 DEF Merges
      <4> QED BY <3>3, <3>4, <4>1 DEF TypeOK
    <3>7. sources' \subseteq sources /\ IsFiniteSet(sources') /\ IsFiniteSet(outputs')
      BY <3>1, FS_Subset, FS_AddElement DEF Merges
    <3>8. sources' \subseteq written' /\ written' = written
      BY <2>1, <3>7 DEF TypeOK
    <3> QED BY <2>1, <2>2, <3>5, <3>6, <3>7, <3>8 DEF TypeOK, config
  <2> QED BY <1>5, <2>3, <2>4 DEF Compact
<1>6. CASE FailOne
  <2>1. at' \in 1 .. Lookback + 1
    BY <1>6, DurationsAssumption DEF FailOne, CompactFails, TypeOK
  <2> QED BY <1>6, <2>1 DEF FailOne, CompactFails, TypeOK, config, objects
<1>7. CASE Return \/ Die
  <2>1. 1 \in 1 .. Lookback + 1
    BY DurationsAssumption
  <2> QED BY <1>7, <2>1 DEF Return, Die, Fresh, Again, TypeOK, config, objects
<1>8. CASE UNCHANGED vars
  BY <1>8 DEF vars, TypeOK, config, handler, objects
<1> QED BY <1>1, <1>2, <1>3, <1>4, <1>5, <1>6, <1>7, <1>8 DEF Next, Handler

\* A file that lands is a new one, and what is merged is no source any more.
LEMMA OnceNext == Types /\ Once /\ [Next]_vars => Once'
<1> SUFFICES ASSUME Types, Once, [Next]_vars PROVE Once'
  OBVIOUS
<1>1. CASE Write
  <2>1. PICK w : Lands(w)
    BY <1>1, WriteLands
  <2>2. \A v \in written' : v \in written \/ v = w
    BY <2>1 DEF Lands
  <2>3. \A o \in outputs : o.day = w.day => w.file \notin o.files
    <3> SUFFICES ASSUME NEW o \in outputs, o.day = w.day, w.file \in o.files PROVE FALSE
      OBVIOUS
    <3>1. PICK v \in written : v.day = o.day /\ v.file = w.file
      BY DEF Types, TypeOK
    <3> QED BY <2>1, <3>1 DEF Lands
  <2>4. \A s \in sources' : s \in sources \/ s = w
    BY <2>1 DEF Lands
  <2>5. \A u, v \in written' : u.day = v.day /\ u.file = v.file => u = v
    BY <2>1, <2>2 DEF Lands, Once
  <2>6. \A s \in sources', o \in outputs' : s.day = o.day => s.file \notin o.files
    BY <2>1, <2>3, <2>4 DEF Lands, Once
  <2> QED BY <2>5, <2>6 DEF Once
<1>2. CASE NextDay
  BY <1>2 DEF NextDay, Once
<1>3. CASE Compact /\ Merge
  <2>1. PICK d, o : Merges(d, o)
    BY <1>3, MergeMerges
  <2>2. written' = written
    BY <1>3 DEF Compact
  <2>3. \A s \in sources' : s.day = d => s.file \notin o.files
    <3> SUFFICES ASSUME NEW s \in sources', s.day = d, s.file \in o.files PROVE FALSE
      OBVIOUS
    <3>1. PICK r \in Selected(d) : r.file = s.file
      BY <2>1 DEF Merges
    <3>2. s \in sources /\ s \notin Selected(d) /\ r \in sources /\ r.day = d
      BY <2>1, <3>1, SelectedIs DEF Merges
    <3> QED BY <3>1, <3>2, ObjectTypes DEF Once
  <2>4. \A p \in outputs' : p \in outputs \/ p = o
    BY <2>1 DEF Merges
  <2>5. \A s \in sources' : s \in sources
    BY <2>1 DEF Merges
  <2>6. o.day = d
    BY <2>1 DEF Merges
  <2>7. \A s \in sources', p \in outputs' : s.day = p.day => s.file \notin p.files
    BY <2>3, <2>4, <2>5, <2>6 DEF Once
  <2> QED BY <2>2, <2>7 DEF Once
<1>4. CASE UNCHANGED <<objects, today>>
  BY <1>4 DEF Once, objects
<1> QED BY <1>1, <1>2, <1>3, <1>4, ObjectsChange

\* What a day's run leaves, and what of it expires.
LEMMA AgedNext == Types /\ Running /\ Once /\ Aged /\ [Next]_vars => Aged'
<1> SUFFICES ASSUME Types, Running, Once, Aged, [Next]_vars PROVE Aged'
  OBVIOUS
<1>1. KeepFor' = KeepFor
  BY AskedStays
<1>2. PICK keep \in Nat : keep = KeepFor
  BY RulesAsAsked DEF Types, TypeOK, KeepFor, Shorthand
<1>3. /\ today \in Nat
      /\ \A o \in sources \cup outputs : o.made \in Nat /\ o.day \in Nat
  BY ObjectTypes
<1>4. \A made \in Nat : Kept(made) <=> (keep > 0 => today <= made + keep)
  BY <1>2 DEF Kept
<1>5. \A made \in Nat : Kept(made)' <=> (keep > 0 => today' <= made + keep)
  BY <1>1, <1>2 DEF Kept
<1>6. Kept(today)
  BY <1>2, <1>3, <1>4
<1>7. CASE Write
  <2>1. PICK w : Lands(w)
    BY <1>7, WriteLands
  <2>2. \A s \in sources' : s \in sources \/ s = w
    BY <2>1 DEF Lands
  <2>3. today' = today /\ outputs' = outputs /\ w.made = today
    BY <2>1 DEF Lands
  <2>4. today <= today
    BY <1>3
  <2>5. \A made \in Nat : Kept(made)' <=> Kept(made)
    BY <1>4, <1>5, <2>3
  <2> QED BY <1>3, <1>6, <2>2, <2>3, <2>4, <2>5 DEF Aged
<1>8. CASE NextDay
  <2>1. /\ today' = today + 1
        /\ sources' = {o \in sources : ~ Due(o, "expireAfter", today + 1)}
        /\ outputs' = {o \in outputs : ~ Due(o, "expireAfter", today + 1)}
    BY <1>8 DEF NextDay
  <2>2. \A o : Due(o, "expireAfter", today + 1) <=> keep > 0 /\ today + 1 > o.made + keep
    BY <1>2, DueIs DEF Types, TypeOK, KeepFor, Shorthand
  <2>3. ASSUME NEW o \in sources' \cup outputs'
        PROVE  /\ o.made <= today + 1
               /\ Kept(o.made)'
               /\ o.made \in Nat
    <3>1. o \in sources \cup outputs /\ ~ (keep > 0 /\ today + 1 > o.made + keep)
      BY <2>1, <2>2
    <3>2. o.made <= today /\ o.made \in Nat
      BY <1>3, <3>1 DEF Aged
    <3>3. keep > 0 => today + 1 <= o.made + keep
      BY <1>2, <1>3, <3>1, <3>2
    <3> QED BY <1>3, <1>5, <2>1, <3>2, <3>3
  <2>4. \A o \in outputs' : o \in outputs
    BY <2>1
  <2> QED BY <2>1, <2>3, <2>4 DEF Aged
<1>9. CASE Compact /\ Merge
  <2>1. PICK d, o : Merges(d, o)
    BY <1>9, MergeMerges
  <2>2. today' = today /\ pc = "run" /\ at <= Lookback
    BY <1>9 DEF Compact
  <2>3. \A p \in outputs' : p \in outputs \/ p = o
    BY <2>1 DEF Merges
  <2>4. \A s \in sources' : s \in sources
    BY <2>1 DEF Merges
  <2>5. o.made = today /\ o.made <= o.day + Lookback + 1
    BY <2>1, <2>2, PartitionIs DEF Merges
  <2>6. today <= today
    BY <1>3
  <2>7. \A made \in Nat : Kept(made)' <=> Kept(made)
    BY <1>4, <1>5, <2>2
  <2> QED BY <1>3, <1>6, <2>2, <2>3, <2>4, <2>5, <2>6, <2>7 DEF Aged
<1>10. CASE UNCHANGED <<objects, today>>
  <2>1. \A made \in Nat : Kept(made)' <=> Kept(made)
    BY <1>4, <1>5, <1>10
  <2> QED BY <1>3, <1>10, <2>1 DEF Aged, objects
<1> QED BY <1>7, <1>8, <1>9, <1>10, ObjectsChange


-----------------------------------------------------------------------------
(* Merging *)

\* What is settled depends on the sources of the partition alone.
LEMMA SameSources ==
  ASSUME NEW d, Sources(d)' = Sources(d)
  PROVE  Settled(d)' <=> Settled(d)
BY DEF Settled, Selected

\* A file of the partition came while the run was on, or may have expired.
Disturbed(d) ==
    \/ \E w \in written : w.day = d /\ w.made >= started
    \/ ~ Kept(d)

\* Nothing of a day that is to be kept expires at midnight.
LEMMA KeptAtMidnight ==
  ASSUME Types, NextDay, NEW d \in Nat, Kept(d)'
  PROVE  /\ Kept(d)
         /\ Sources(d)' = Sources(d)
         /\ Outputs(d)' = Outputs(d)
<1>1. PICK keep \in Nat : keep = KeepFor
  BY RulesAsAsked DEF Types, TypeOK, KeepFor, Shorthand
<1>2. KeepFor' = keep
  BY <1>1, AskedStays DEF Next
<1>3. /\ today' = today + 1
      /\ sources' = {o \in sources : ~ Due(o, "expireAfter", today + 1)}
      /\ outputs' = {o \in outputs : ~ Due(o, "expireAfter", today + 1)}
  BY DEF NextDay
<1>4. today \in Nat
  BY ObjectTypes
<1>5. keep > 0 => today + 1 <= d + keep
  BY <1>2, <1>3 DEF Kept
<1>6. Kept(d)
  <2>1. keep > 0 => today <= d + keep
    BY <1>4, <1>5
  <2> QED BY <1>1, <2>1 DEF Kept
<1>7. ASSUME NEW o \in sources \cup outputs, o.day = d
      PROVE  ~ Due(o, "expireAfter", today + 1)
  <2>1. o.made \in Nat /\ o.made >= d
    BY <1>7, ObjectTypes
  <2>2. ~ (keep > 0 /\ today + 1 > o.made + keep)
    BY <1>4, <1>5, <2>1
  <2> QED BY <1>1, <2>2, DueIs DEF Types, TypeOK, KeepFor, Shorthand
<1>8. Sources(d)' = Sources(d)
  BY <1>3, <1>7 DEF Sources
<1>9. Outputs(d)' = Outputs(d)
  BY <1>3, <1>7 DEF Outputs
<1> QED BY <1>6, <1>8, <1>9

\* A merge leaves the other partitions alone.
LEMMA OthersStay ==
  ASSUME NEW d, NEW o, Merges(d, o), NEW e, e # d
  PROVE  Sources(e)' = Sources(e) /\ Outputs(e)' = Outputs(e)
<1>1. \A s \in Selected(d) : s.day # e
  BY SelectedIs
<1>2. o.day # e
  BY DEF Merges
<1>3. sources' = sources \ Selected(d) /\ outputs' = outputs \cup {o}
  BY DEF Merges
<1> QED BY <1>1, <1>2, <1>3 DEF Sources, Outputs

\* An upload that ends leaves the other partitions alone.
LEMMA LandsElsewhere ==
  ASSUME NEW w, Lands(w), NEW e, e # w.day
  PROVE  Sources(e)' = Sources(e) /\ Outputs(e)' = Outputs(e)
BY DEF Lands, Sources, Outputs

\* What a run has done about a partition.
Answered(d) == d \in failed \/ MergedInRun(d) \/ Settled(d) \/ Disturbed(d)

\* How far a run has come.
Progress ==
    pc = "run" => \A d \in Int : started - at < d /\ d < started => Answered(d)

\* At the start no run has come anywhere.
LEMMA InitProgress == Init => Progress
BY DEF Init, Progress

\* Each partition passed is merged, settled or counted among the failures.
LEMMA ProgressNext == Types /\ Running /\ Once /\ Progress /\ [Next]_vars => Progress'
<1> SUFFICES ASSUME Types, Running, Once, Progress, [Next]_vars, pc' = "run",
                    NEW d \in Int, started' - at' < d, d < started'
             PROVE  Answered(d)'
  BY DEF Progress
<1>1. started \in Nat /\ started <= today /\ today \in Nat /\ at \in Nat
  BY DurationsAssumption DEF Types, TypeOK, Running, Days
<1>2. pc = "run" /\ started - at < d /\ d < started => Answered(d)
  BY DEF Progress
<1> USE DEF Answered
<1>5. CASE Write
  <2>1. PICK w : Lands(w)
    BY <1>5, WriteLands
  <2>2. /\ UNCHANGED <<pc, started, at, failed, compacted, today, outputs, bucket>>
        /\ written' = written \cup {w} /\ w.made = today
    BY <2>1 DEF Lands, handler, config
  <2>3. Kept(d)' <=> Kept(d)
    BY <2>2, <1>5, AskedStays DEF Kept, Next
  <2>4. Disturbed(d) => Disturbed(d)'
    BY <2>2, <2>3 DEF Disturbed
  <2>5. MergedInRun(d) => MergedInRun(d)'
    BY <2>2 DEF MergedInRun, Outputs
  <2>6. CASE w.day = d
    <3>1. w \in written' /\ w.made >= started'
      BY <1>1, <2>2
    <3>2. Disturbed(d)'
      BY <2>6, <3>1 DEF Disturbed
    <3> QED BY <2>2, <3>2
  <2>7. CASE w.day # d
    <3>1. Settled(d)' <=> Settled(d)
      BY <2>1, <2>7, LandsElsewhere, SameSources
    <3> QED BY <1>2, <2>2, <2>4, <2>5, <3>1
  <2> QED BY <2>6, <2>7
<1>6. CASE NextDay
  <2>1. /\ UNCHANGED <<pc, started, at, failed, compacted, written>>
        /\ pc # "idle" => started = today
    BY <1>6 DEF NextDay, handler
  <2>3. CASE d \notin Nat
    <3>1. Sources(d) = {} /\ Sources(d)' = {}
      <4>1. \A s \in sources : s.day # d
        BY <2>3, ObjectTypes
      <4>2. sources' \subseteq sources
        BY <1>6 DEF NextDay
      <4> QED BY <4>1, <4>2 DEF Sources
    <3>2. Settled(d)'
      <4>1. SelectSources({}) = {}
        BY DEF SelectSources
      <4>2. Cardinality({}) = 0 /\ 0 < MinFiles
        BY FS_EmptySet, ObjectTypes
      <4>3. Selected(d)' = {}
        BY <3>1, <4>1 DEF Selected
      <4> QED BY <4>2, <4>3 DEF Settled
    <3> QED BY <2>1, <3>2
  <2>4. CASE d \in Nat /\ ~ Kept(d)'
    BY <2>1, <2>4 DEF Disturbed
  <2>5. CASE d \in Nat /\ Kept(d)'
    <3>1. Kept(d) /\ Sources(d)' = Sources(d) /\ Outputs(d)' = Outputs(d)
      BY <1>6, <2>5, KeptAtMidnight
    <3>2. MergedInRun(d) => MergedInRun(d)'
      BY <2>1, <3>1 DEF MergedInRun
    <3>3. Settled(d) => Settled(d)'
      BY <3>1, SameSources
    <3>4. Disturbed(d) => Disturbed(d)'
      BY <2>1, <3>1 DEF Disturbed
    <3> QED BY <1>2, <2>1, <3>2, <3>3, <3>4
  <2> QED BY <2>3, <2>4, <2>5
<1>7. CASE Compact
  <2>1. /\ at' = at + 1 /\ pc = "run" /\ at <= Lookback
        /\ UNCHANGED <<today, written, started, failed>>
    BY <1>7 DEF Compact
  <2>2. Disturbed(d) => Disturbed(d)'
    BY <1>7, <2>1, AskedStays DEF Disturbed, Kept, Next, Handler
  <2>3. started - at < d \/ d = started - at
    BY <1>1, <2>1
  <2>4. CASE Skip
    <3>1. UNCHANGED <<sources, outputs, compacted>>
      BY <2>4 DEF Skip
    <3>2. (MergedInRun(d) => MergedInRun(d)') /\ (Settled(d) => Settled(d)')
      BY <2>1, <3>1, SameSources DEF MergedInRun, Outputs, Sources
    <3>3. d = started - at => Settled(d)
      BY <2>4 DEF Skip, Partition
    <3> QED BY <1>2, <2>1, <2>2, <2>3, <3>2, <3>3
  <2>5. CASE Merge
    <3>1. PICK e, o : Merges(e, o)
      BY <2>5, MergeMerges
    <3>2. CASE d = started - at
      <4>1. e = d
        BY <3>1, <3>2 DEF Merges, Partition
      <4>2. o \in Outputs(d)' /\ o.made >= started'
        BY <1>1, <2>1, <3>1, <4>1 DEF Merges, Outputs
      <4>3. MergedInRun(d)'
        BY <3>1, <4>1, <4>2 DEF Merges, MergedInRun
      <4> QED BY <2>1, <4>3
    <3>3. CASE started - at < d
      <4>1. e = started - at
        BY <3>1 DEF Merges, Partition
      <4>2. e # d
        BY <1>1, <3>3, <4>1
      <4>3. Sources(d)' = Sources(d) /\ Outputs(d)' = Outputs(d) /\ compacted \subseteq compacted'
        BY <3>1, <4>2, OthersStay DEF Merges
      <4>4. (MergedInRun(d) => MergedInRun(d)') /\ (Settled(d) => Settled(d)')
        BY <2>1, <4>3, SameSources DEF MergedInRun
      <4> QED BY <1>2, <2>1, <2>2, <3>3, <4>4
    <3> QED BY <2>3, <3>2, <3>3
  <2> QED BY <1>7, <2>4, <2>5 DEF Compact
<1>8. CASE FailOne
  <2>1. /\ at' = at + 1 /\ pc = "run" /\ failed' = failed \cup {Partition(at)}
        /\ UNCHANGED <<today, objects, started, compacted>>
    BY <1>8 DEF FailOne, CompactFails
  <2>2. Disturbed(d) => Disturbed(d)'
    BY <1>8, <2>1, AskedStays DEF Disturbed, Kept, Next, Handler, objects
  <2>3. (MergedInRun(d) => MergedInRun(d)') /\ (Settled(d) => Settled(d)')
    BY <2>1, SameSources DEF MergedInRun, Outputs, Sources, objects
  <2>4. CASE d = started - at
    BY <2>1, <2>4 DEF Partition
  <2>5. CASE started - at < d
    BY <1>2, <2>1, <2>2, <2>3, <2>5
  <2>6. started - at < d \/ d = started - at
    BY <1>1, <2>1
  <2> QED BY <2>4, <2>5, <2>6
<1>9. CASE Invoke \/ Retry
  <2>1. at' = 1 /\ started' = today
    BY <1>9 DEF Invoke, Retry, Run, Fresh
  <2> QED BY <1>1, <2>1
<1>10. CASE Return \/ Die
  BY <1>10 DEF Return, Die, Again
<1>11. CASE UNCHANGED vars
  <2>1. UNCHANGED <<pc, started, at, failed, compacted, today, written, sources, outputs>>
    BY <1>11 DEF vars, handler, objects
  <2>2. Disturbed(d) => Disturbed(d)'
    BY <2>1, AskedStays DEF Disturbed, Kept
  <2>3. (MergedInRun(d) => MergedInRun(d)') /\ (Settled(d) => Settled(d)')
    BY <2>1, SameSources DEF MergedInRun, Outputs, Sources
  <2> QED BY <1>2, <2>1, <2>2, <2>3
<1> QED BY <1>5, <1>6, <1>7, <1>8, <1>9, <1>10, <1>11 DEF Next, Handler


-----------------------------------------------------------------------------
(* Catching up *)

\* A file that is not merged is archived within the window only if asked.
Unarchived == Asked("glacierAfter") \notin 1 .. Lookback

\* Then a run finds no file of its window archived.
LEMMA NotArchived ==
  ASSUME Types, Running, pc = "run", at <= Lookback, Unarchived,
         NEW o \in Selected(Partition(at))
  PROVE  ~ Archived(o)
<1>1. PICK wait \in Nat : wait = Asked("glacierAfter")
  BY RulesAsAsked DEF Types, TypeOK, Shorthand
<1>2. Archived(o) <=> wait > 0 /\ today > o.made + wait
  BY <1>1, DueIs DEF Types, TypeOK, Shorthand, Archived
<1>3. o.made \in Nat /\ o.made >= Partition(at)
  BY SelectedIs, ObjectTypes
<1>4. wait > 0 => wait > Lookback
  BY <1>1, DurationsAssumption DEF Unarchived
<1>5. today \in Nat
  BY ObjectTypes
<1>6. today <= Partition(at) + Lookback + 1 /\ Partition(at) \in Int
  BY PartitionIs
<1> QED BY <1>1, <1>2, <1>3, <1>4, <1>5, <1>6, DurationsAssumption

\* The good days of d on which a run has passed d.
Passed(d) ==
    {day \in GoodDays(d) :
        \/ (day < today \/ (day = today /\ invoked)) /\ ~ (pc = "run" /\ started = day)
        \/ pc = "run" /\ started = day /\ day - at < d}

\* One batch for each of them, or none left.
CaughtUp(d) == Settled(d) \/ Cardinality(Outputs(d)) >= Cardinality(Passed(d))

\* That holds of each closed day, while nothing of it is archived or expires.
Seen ==
    Unarchived =>
       \A d \in Days : d < today /\ d \notin stuck /\ Kept(d) => CaughtUp(d)

\* At the start no day has ended.
LEMMA InitSeen == Init => Seen
BY DEF Init, Seen, Days

\* The sets that are counted are finite.
LEMMA CountedAreFinite ==
  ASSUME Types, NEW d \in Days
  PROVE  /\ IsFiniteSet(Outputs(d)) /\ Cardinality(Outputs(d)) \in Nat
         /\ IsFiniteSet(Passed(d)) /\ Cardinality(Passed(d)) \in Nat
<1>1. Outputs(d) \subseteq outputs
  BY DEF Outputs
<1>2. IsFiniteSet(Outputs(d))
  BY <1>1, FS_Subset DEF Types
<1>3. d + 1 \in Int /\ d + Lookback \in Int
  BY DurationsAssumption DEF Days
<1>4. IsFiniteSet(d + 1 .. d + Lookback)
  BY <1>3, FS_Interval
<1>5. Passed(d) \subseteq d + 1 .. d + Lookback
  BY DEF Passed, GoodDays
<1>6. IsFiniteSet(Passed(d))
  BY <1>4, <1>5, FS_Subset
<1> QED BY <1>2, <1>6, FS_CardinalityType

\* A good day of d is one of its window.
LEMMA GoodDayIs ==
  ASSUME NEW d \in Days, NEW day \in GoodDays(d)
  PROVE  /\ d \in Nat /\ day \in Nat /\ day > d /\ day <= d + Lookback /\ day \notin Flaky
         /\ \A w \in written : w.day = d => w.made # day
<1>1. day \in d + 1 .. d + Lookback
  BY DEF GoodDays
<1> QED BY <1>1, DurationsAssumption DEF GoodDays, Days

\* A partition that stays as it is has no more to catch up with.
LEMMA StaysCaughtUp ==
  ASSUME Types, NEW d \in Days, CaughtUp(d), Sources(d)' = Sources(d),
         Outputs(d)' = Outputs(d), Passed(d)' \subseteq Passed(d)
  PROVE  CaughtUp(d)'
<1>1. CASE Settled(d)
  BY <1>1, SameSources DEF CaughtUp
<1>2. CASE Cardinality(Outputs(d)) >= Cardinality(Passed(d))
  <2>1. IsFiniteSet(Passed(d))
    BY CountedAreFinite
  <2>2. Cardinality(Passed(d)') <= Cardinality(Passed(d))
    BY <2>1, FS_Subset
  <2>3. PICK fewer, all, made \in Nat :
          fewer = Cardinality(Passed(d)') /\ all = Cardinality(Passed(d)) /\ made = Cardinality(Outputs(d))
    <3>1. Cardinality(Passed(d)') \in Nat
      BY <2>1, FS_Subset, FS_CardinalityType
    <3> QED BY <3>1, CountedAreFinite
  <2>4. made >= fewer
    BY <1>2, <2>2, <2>3
  <2> QED BY <2>3, <2>4 DEF CaughtUp
<1> QED BY <1>1, <1>2 DEF CaughtUp

\* A day that no run of a good day has passed has nothing to catch up with.
LEMMA NonePassed ==
  ASSUME Types', NEW d \in Days, Passed(d)' = {}
  PROVE  CaughtUp(d)'
<1>1. Outputs(d)' \subseteq outputs'
  BY DEF Outputs
<1>2. IsFiniteSet(Outputs(d)')
  BY <1>1, FS_Subset DEF Types
<1>3. PICK made \in Nat : made = Cardinality(Outputs(d)')
  BY <1>2, FS_CardinalityType
<1>4. Cardinality(Passed(d)') = 0
  BY FS_EmptySet
<1> QED BY <1>3, <1>4 DEF CaughtUp

\* A good day ends only after a run of its own has passed the whole window.
LEMMA SeenNext == Types /\ Running /\ Once /\ Seen /\ [Next]_vars => Seen'
<1> SUFFICES ASSUME Types, Running, Once, Seen, [Next]_vars PROVE Seen'
  OBVIOUS
<1>0. Types' /\ (Unarchived' <=> Unarchived) /\ stuck' = stuck
  BY TypesNext, AskedStays, BucketStays DEF Unarchived
<1> SUFFICES ASSUME Unarchived, NEW d \in Days, d < today', d \notin stuck, Kept(d)'
             PROVE  CaughtUp(d)'
  BY <1>0 DEF Seen
<1>1. /\ d \in Nat /\ today \in Nat /\ started \in Nat /\ started <= today /\ at \in Nat
      /\ at <= Lookback + 1
  BY DurationsAssumption DEF Types, TypeOK, Running, Days
<1>2. d < today /\ Kept(d) => CaughtUp(d)
  BY DEF Seen
<1>3. today' = today => Kept(d)
  BY AskedStays DEF Kept
<1>4. CASE Write
  <2>1. PICK w : Lands(w)
    BY <1>4, WriteLands
  <2>2. /\ UNCHANGED <<pc, started, at, today, invoked>>
        /\ written' = written \cup {w} /\ w.made = today
    BY <2>1 DEF Lands, handler
  <2>3. CASE w.day # d
    <3>1. GoodDays(d)' = GoodDays(d)
      BY <2>2, <2>3 DEF GoodDays
    <3>2. Passed(d)' = Passed(d)
      BY <2>2, <3>1 DEF Passed
    <3> QED BY <1>2, <1>3, <2>1, <2>2, <2>3, <3>2, LandsElsewhere, StaysCaughtUp
  <2>4. CASE w.day = d
    <3>1. today = d + 1
      BY <1>1, <2>1, <2>2, <2>4 DEF Lands
    <3>2. Passed(d)' = {}
      <4> SUFFICES ASSUME NEW day \in Passed(d)' PROVE FALSE
        OBVIOUS
      <4>1. day \in d + 1 .. d + Lookback /\ ~ \E v \in written' : v.day = d /\ v.made = day
        BY DEF Passed, GoodDays
      <4>2. day <= today
        BY <1>1, <2>2, <4>1, DurationsAssumption DEF Passed
      <4>3. day = today
        BY <1>1, <3>1, <4>1, <4>2, DurationsAssumption
      <4>4. w \in written'
        BY <2>2
      <4> QED BY <2>2, <2>4, <4>1, <4>3, <4>4
    <3> QED BY <1>0, <3>2, NonePassed
  <2> QED BY <2>3, <2>4
<1>5. CASE NextDay
  <2>1. /\ today' = today + 1 /\ (invoked \/ today \in Flaky)
        /\ invoked' = FALSE /\ UNCHANGED <<written, pc, started, at>>
    BY <1>5 DEF NextDay, handler
  <2>2. Kept(d) /\ Sources(d)' = Sources(d) /\ Outputs(d)' = Outputs(d)
    BY <1>1, <1>5, KeptAtMidnight
  <2>3. GoodDays(d)' = GoodDays(d)
    BY <2>1 DEF GoodDays
  <2>4. CASE d < today
    <3>1. ASSUME NEW day \in Passed(d)' PROVE day \in Passed(d)
      <4>1. day \in GoodDays(d)
        BY <2>3 DEF Passed
      <4>2. CASE pc = "run" /\ started = day
        BY <2>1, <4>1, <4>2 DEF Passed
      <4>3. CASE ~ (pc = "run" /\ started = day)
        <5>1. day < today + 1
          BY <2>1, <4>3 DEF Passed
        <5>2. day < today \/ (day = today /\ invoked)
          BY <1>1, <2>1, <4>1, <5>1, GoodDayIs
        <5> QED BY <4>1, <4>3, <5>2 DEF Passed
      <4> QED BY <4>2, <4>3
    <3> QED BY <1>2, <2>2, <2>4, <3>1, StaysCaughtUp
  <2>5. CASE d >= today
    <3>1. Passed(d)' = {}
      <4> SUFFICES ASSUME NEW day \in Passed(d)' PROVE FALSE
        OBVIOUS
      <4>1. day \in GoodDays(d)
        BY <2>3 DEF Passed
      <4>2. day \in Nat /\ day > d
        BY <4>1, GoodDayIs
      <4>3. day < today + 1 \/ started = day
        BY <2>1 DEF Passed
      <4> QED BY <1>1, <2>5, <4>2, <4>3
    <3> QED BY <1>0, <3>1, NonePassed
  <2> QED BY <1>1, <2>4, <2>5
<1>6. CASE Invoke \/ Retry
  <2>1. /\ pc' = "run" /\ started' = today /\ today' = today /\ pc # "run" /\ at' = 1
        /\ UNCHANGED objects
    BY <1>6 DEF Invoke, Retry, Run, Fresh
  <2>2. GoodDays(d)' = GoodDays(d) /\ Sources(d)' = Sources(d) /\ Outputs(d)' = Outputs(d)
    BY <2>1 DEF GoodDays, Sources, Outputs, objects
  <2>3. ASSUME NEW day \in Passed(d)' PROVE day \in Passed(d)
    <3>1. day \in GoodDays(d) /\ day \in Nat /\ day > d
      BY <2>2, GoodDayIs DEF Passed
    <3>2. ~ (day - 1 < d)
      BY <1>1, <3>1
    <3>3. day < today /\ day # today
      BY <1>1, <2>1, <3>1, <3>2 DEF Passed
    <3> QED BY <2>1, <3>1, <3>3 DEF Passed
  <2> QED BY <1>2, <1>3, <2>1, <2>2, <2>3, StaysCaughtUp
<1>7. CASE Compact
  <2>1. /\ at' = at + 1 /\ pc = "run" /\ at <= Lookback
        /\ UNCHANGED <<today, written, pc, started, invoked>>
    BY <1>7 DEF Compact
  <2>2. GoodDays(d)' = GoodDays(d)
    BY <2>1 DEF GoodDays
  <2>3. CaughtUp(d)
    BY <1>2, <1>3, <2>1
  <2>4. \A day \in Passed(d)' : day \in Passed(d) \/ (day = started /\ d = started - at)
    <3> SUFFICES ASSUME NEW day \in Passed(d)', day \notin Passed(d)
                 PROVE  day = started /\ d = started - at
      OBVIOUS
    <3>1. day \in GoodDays(d)
      BY <2>2 DEF Passed
    <3>2. started = day /\ day - (at + 1) < d /\ ~ (day - at < d)
      BY <2>1, <3>1 DEF Passed
    <3> QED BY <1>1, <3>2
  <2>5. CASE d # started - at
    <3>1. Passed(d)' \subseteq Passed(d)
      BY <2>4, <2>5
    <3>2. Sources(d)' = Sources(d) /\ Outputs(d)' = Outputs(d)
      <4>1. CASE Skip
        BY <4>1 DEF Skip, Sources, Outputs
      <4>2. CASE Merge
        <5>1. PICK e, o : Merges(e, o)
          BY <4>2, MergeMerges
        <5>2. e # d
          BY <2>5, <5>1 DEF Merges, Partition
        <5> QED BY <5>1, <5>2, OthersStay
      <4> QED BY <1>7, <4>1, <4>2 DEF Compact
    <3> QED BY <2>3, <3>1, <3>2, StaysCaughtUp
  <2>6. CASE d = started - at /\ Skip
    <3>1. Settled(d) /\ Sources(d)' = Sources(d)
      BY <2>6 DEF Skip, Partition, Sources
    <3> QED BY <3>1, SameSources DEF CaughtUp
  <2>7. CASE d = started - at /\ Merge
    <3>1. PICK e, o : Merges(e, o)
      BY <2>7, MergeMerges
    <3>2. e = d /\ ~ Settled(d)
      BY <2>7, <3>1 DEF Merges, Partition
    <3>3. Outputs(d)' = Outputs(d) \cup {o}
      BY <3>1, <3>2 DEF Merges, Outputs
    <3>4. o \notin Outputs(d)
      <4> SUFFICES ASSUME o \in outputs PROVE FALSE
        BY DEF Outputs
      <4>1. PICK s \in Selected(d) : TRUE
        BY <3>1, <3>2 DEF Merges
      <4>2. s \in sources /\ s.day = o.day /\ s.file \in o.files
        BY <3>1, <3>2, SelectedIs DEF Merges
      <4> QED BY <4>2 DEF Once
    <3>5. PICK made, all, more, passed \in Nat :
             /\ made = Cardinality(Outputs(d)) /\ all = Cardinality(Passed(d))
             /\ more = Cardinality(Outputs(d)') /\ passed = Cardinality(Passed(d)')
      <4>1. IsFiniteSet(Outputs(d)')
        BY <3>3, CountedAreFinite, FS_AddElement
      <4>2. IsFiniteSet(Passed(d) \cup {started}) /\ Passed(d)' \subseteq Passed(d) \cup {started}
        BY <2>4, CountedAreFinite, FS_AddElement
      <4>3. IsFiniteSet(Passed(d)')
        BY <4>2, FS_Subset
      <4>4. Cardinality(Outputs(d)') \in Nat
        BY <4>1, FS_CardinalityType
      <4>5. Cardinality(Passed(d)') \in Nat
        BY <4>3, FS_CardinalityType
      <4> QED BY <4>4, <4>5, CountedAreFinite
    <3>6. more = made + 1
      BY <3>3, <3>4, <3>5, CountedAreFinite, FS_AddElement
    <3>7. passed <= all + 1
      <4>1. Passed(d)' \subseteq Passed(d) \cup {started}
        BY <2>4
      <4>2. IsFiniteSet(Passed(d) \cup {started})
        BY CountedAreFinite, FS_AddElement
      <4>3. PICK n \in Nat : n = Cardinality(Passed(d) \cup {started})
        BY <4>2, FS_CardinalityType
      <4>4. passed <= n
        BY <3>5, <4>1, <4>2, <4>3, FS_Subset
      <4>5. n = all \/ n = all + 1
        BY <3>5, <4>3, CountedAreFinite, FS_AddElement
      <4> QED BY <4>4, <4>5
    <3>8. made >= all
      BY <2>3, <3>2, <3>5 DEF CaughtUp
    <3>9. more >= passed
      BY <3>6, <3>7, <3>8
    <3> QED BY <3>5, <3>9 DEF CaughtUp
  <2> QED BY <1>7, <2>5, <2>6, <2>7 DEF Compact
<1>8. CASE FailOne
  <2>1. /\ at' = at + 1 /\ pc = "run" /\ at <= Lookback
        /\ UNCHANGED <<today, objects, pc, started, invoked>>
    BY <1>8 DEF FailOne, CompactFails
  <2>2. GoodDays(d)' = GoodDays(d) /\ Sources(d)' = Sources(d) /\ Outputs(d)' = Outputs(d)
    BY <2>1 DEF GoodDays, Sources, Outputs, objects
  <2>3. started = d + at => started \in Flaky
    <3> SUFFICES ASSUME started = d + at PROVE started \in Flaky
      OBVIOUS
    <3>1. Partition(at) = d
      BY <1>1 DEF Partition
    <3> QED BY <1>8, <2>1, <3>1, NotArchived DEF FailOne, CompactFails
  <2>4. ASSUME NEW day \in Passed(d)' PROVE day \in Passed(d)
    <3>1. day \in GoodDays(d) /\ day \in Nat /\ day \notin Flaky
      BY <2>2, GoodDayIs DEF Passed
    <3>2. CASE started = day
      <4>1. day - (at + 1) < d /\ started # d + at
        BY <2>1, <2>3, <3>1, <3>2 DEF Passed
      <4>2. day - at < d
        BY <1>1, <3>1, <3>2, <4>1
      <4> QED BY <2>1, <3>1, <3>2, <4>2 DEF Passed
    <3>3. CASE started # day
      BY <2>1, <3>1, <3>3 DEF Passed
    <3> QED BY <3>2, <3>3
  <2> QED BY <1>2, <1>3, <2>1, <2>2, <2>4, StaysCaughtUp
<1>9. CASE Return \/ Die
  <2>1. /\ pc = "run" /\ pc' # "run" /\ (at > Lookback \/ started \in Flaky)
        /\ UNCHANGED <<today, objects, started, invoked>>
    BY <1>9 DEF Return, Die, Again
  <2>2. GoodDays(d)' = GoodDays(d) /\ Sources(d)' = Sources(d) /\ Outputs(d)' = Outputs(d)
    BY <2>1 DEF GoodDays, Sources, Outputs, objects
  <2>3. ASSUME NEW day \in Passed(d)' PROVE day \in Passed(d)
    <3>1. /\ day \in GoodDays(d) /\ day \in Nat /\ day > d /\ day <= d + Lookback
          /\ day \notin Flaky
      BY <2>2, GoodDayIs DEF Passed
    <3>2. CASE started = day
      <4>1. day - at < d
        BY <1>1, <2>1, <3>1, <3>2, DurationsAssumption
      <4> QED BY <2>1, <3>1, <3>2, <4>1 DEF Passed
    <3>3. CASE started # day
      BY <2>1, <3>1, <3>3 DEF Passed
    <3> QED BY <3>2, <3>3
  <2> QED BY <1>2, <1>3, <2>1, <2>2, <2>3, StaysCaughtUp
<1>10. CASE UNCHANGED vars
  <2>1. UNCHANGED <<today, written, sources, outputs, pc, started, at, invoked>>
    BY <1>10 DEF vars, handler, objects
  <2>2. GoodDays(d)' = GoodDays(d) /\ Sources(d)' = Sources(d) /\ Outputs(d)' = Outputs(d)
    BY <2>1 DEF GoodDays, Sources, Outputs
  <2>3. Passed(d)' = Passed(d)
    BY <2>1, <2>2 DEF Passed
  <2> QED BY <1>2, <1>3, <2>1, <2>2, <2>3, StaysCaughtUp
<1> QED BY <1>4, <1>5, <1>6, <1>7, <1>8, <1>9, <1>10 DEF Next, Handler

-----------------------------------------------------------------------------
(* Keeping *)

\* The rows of a file are in an object of its day.
Held(w) == w \in sources \/ \E o \in outputs : o.day = w.day /\ w.file \in o.files

\* At the start there is no row to keep.
LEMMA KeptInit == Init => KeptLongEnough
BY DEF Init, KeptLongEnough

\* A file goes only by expiry or into a merged object of its day, which is the
\* younger.
LEMMA KeptNext == Types /\ Running /\ Once /\ KeptLongEnough /\ [Next]_vars => KeptLongEnough'
<1> SUFFICES ASSUME Types, Running, Once, KeptLongEnough, [Next]_vars PROVE KeptLongEnough'
  OBVIOUS
<1>1. PICK keep \in Nat : keep = KeepFor /\ KeepFor' = keep
  BY AskedStays, RulesAsAsked DEF Types, TypeOK, KeepFor, Shorthand
<1> SUFFICES ASSUME NEW w \in written', keep > 0 => today' <= w.made + keep
             PROVE  Held(w)'
  BY <1>1 DEF KeptLongEnough, Kept, Held
<1>2. w \in written /\ (keep > 0 => today <= w.made + keep) => Held(w)
  BY <1>1 DEF KeptLongEnough, Kept, Held
<1>3. today \in Nat /\ (w \in written => w.made \in Nat /\ w.day \in Nat /\ w.made <= w.day + 1)
  BY ObjectTypes
<1>4. CASE Write
  <2>1. PICK v : Lands(v)
    BY <1>4, WriteLands
  <2>2. CASE w = v
    BY <2>1, <2>2 DEF Lands, Held
  <2>3. CASE w \in written
    BY <1>2, <2>1, <2>3 DEF Lands, Held
  <2> QED BY <2>1, <2>2, <2>3 DEF Lands
<1>5. CASE NextDay
  <2>1. /\ today' = today + 1 /\ written' = written
        /\ sources' = {o \in sources : ~ Due(o, "expireAfter", today + 1)}
        /\ outputs' = {o \in outputs : ~ Due(o, "expireAfter", today + 1)}
    BY <1>5 DEF NextDay, objects
  <2>2. keep > 0 => today + 1 <= w.made + keep
    BY <2>1
  <2>3. Held(w)
    BY <1>2, <1>3, <2>1, <2>2
  <2>4. ASSUME NEW o, o.made \in Nat, o.made >= w.made
        PROVE  ~ Due(o, "expireAfter", today + 1)
    <3>1. ~ (keep > 0 /\ today + 1 > o.made + keep)
      BY <1>3, <2>1, <2>2, <2>4
    <3> QED BY <1>1, <3>1, DueIs DEF Types, TypeOK, KeepFor, Shorthand
  <2>5. CASE w \in sources
    <3>1. w.made >= w.made
      BY <1>3, <2>1
    <3> QED BY <1>3, <2>1, <2>4, <2>5, <3>1 DEF Held
  <2>6. CASE w \notin sources
    <3>1. PICK o \in outputs : o.day = w.day /\ w.file \in o.files
      BY <2>3, <2>6 DEF Held
    <3>2. o.made \in Nat /\ o.made >= w.made
      BY <1>3, <2>1, <3>1, ObjectTypes
    <3> QED BY <2>1, <2>4, <3>1, <3>2 DEF Held
  <2> QED BY <2>5, <2>6
<1>6. CASE Compact /\ Merge
  <2>1. today' = today /\ written' = written
    BY <1>6 DEF Compact
  <2>2. PICK d, o : Merges(d, o)
    BY <1>6, MergeMerges
  <2>3. Held(w)
    BY <1>2, <2>1
  <2>4. CASE w \in Selected(d)
    <3>1. w.day = o.day /\ w.file \in o.files /\ o \in outputs'
      BY <2>2, <2>4, SelectedIs DEF Merges
    <3> QED BY <3>1 DEF Held
  <2>5. CASE w \notin Selected(d)
    BY <2>2, <2>3, <2>5 DEF Merges, Held
  <2> QED BY <2>4, <2>5
<1>7. CASE UNCHANGED <<objects, today>>
  BY <1>2, <1>7 DEF objects, Held
<1> QED BY <1>4, <1>5, <1>6, <1>7, ObjectsChange

-----------------------------------------------------------------------------
(* The theorems *)

\* What is inductive.
IInv == Types /\ Running /\ Aged /\ Once /\ Progress /\ Seen /\ KeptLongEnough

\* The strengthening is an invariant.
LEMMA Inductive == Spec => []IInv
<1>1. Init => IInv
  BY InitTypes, InitProgress, InitSeen, KeptInit DEF IInv
<1>2. IInv /\ [Next]_vars => IInv'
  BY TypesNext, AgedNext, OnceNext, ProgressNext, SeenNext, KeptNext DEF IInv
<1> QED BY <1>1, <1>2, PTL DEF Spec

\* TypeOK: bucket, handler and clock have their types; a source is made on the day
\* of its key or the next, a merged object by the run of a later day and of at
\* least MinFiles files that were written (writer.go, compact.go).
THEOREM TypeCorrect == Spec => []TypeOK
<1>1. IInv => TypeOK
  BY DEF IInv, Types
<1> QED BY <1>1, Inductive, PTL

\* KeptLongEnough: the rows of a file stay in an object of its day until the
\* bucket's rules expire them; compaction never shortens it (log-bucket.ts,
\* compact.go).
THEOREM KeptStays == Spec => []KeptLongEnough
<1>1. IInv => KeptLongEnough
  BY DEF IInv
<1> QED BY <1>1, Inductive, PTL

\* KeptIsQueryable: with a window longer than the retention and the look-back,
\* every object in the bucket is of a day the table projects (log-analytics.ts).
THEOREM KeptShows == Spec => []KeptIsQueryable
<1>1. IInv => KeptIsQueryable
  <2> SUFFICES ASSUME IInv, KeepFor > 0, Window > KeepFor + Lookback,
                      NEW o \in sources \cup outputs
               PROVE  o.day \in Projected
    BY DEF KeptIsQueryable
  <2>1. PICK keep \in Nat : keep = KeepFor
    BY RulesAsAsked DEF IInv, Types, TypeOK, KeepFor, Shorthand
  <2>2. today \in Nat /\ o.day \in Nat /\ o.made \in Nat /\ o.day <= o.made
    BY ObjectTypes DEF IInv
  <2>3. o.made <= today /\ today <= o.made + keep
    BY <2>1 DEF IInv, Aged, Kept
  <2>4. o.made <= o.day + Lookback + 1
    <3>1. CASE o \in sources
      BY <2>2, <3>1, ObjectTypes, DurationsAssumption DEF IInv
    <3>2. CASE o \in outputs
      BY <3>2 DEF IInv, Aged
    <3> QED BY <3>1, <3>2
  <2>5. today - Window <= o.day /\ o.day <= today
    BY <2>1, <2>2, <2>3, <2>4, DurationsAssumption
  <2> QED BY <2>2, <2>5, DurationsAssumption DEF Projected
<1> QED BY <1>1, Inductive, PTL

\* MergedOnLeaving: of a day that has left the look-back window a batch has been
\* merged for each of its good days, or no batch is left, if nothing of it was
\* archived or expired (main.go, compact.go).
THEOREM LeavesMerged == Spec => []MergedOnLeaving
<1>1. IInv => MergedOnLeaving
  <2> SUFFICES ASSUME IInv, NEW d \in Days, today > d + Lookback + 1, d \notin stuck,
                      Asked("glacierAfter") \notin 1 .. Lookback, Kept(d)
               PROVE  Settled(d) \/ Cardinality(Outputs(d)) >= Cardinality(GoodDays(d))
    BY DEF MergedOnLeaving
  <2>1. d \in Nat /\ today \in Nat /\ started \in Nat /\ (pc = "run" => today <= started + 1)
    BY DEF IInv, Types, TypeOK, Running, Days
  <2>2. CaughtUp(d)
    <3>1. d < today
      BY <2>1, DurationsAssumption
    <3> QED BY <3>1 DEF IInv, Seen, Unarchived
  <2>3. ASSUME NEW day \in GoodDays(d) PROVE day \in Passed(d)
    <3>1. day \in Nat /\ day <= d + Lookback
      BY GoodDayIs
    <3>2. day < today /\ ~ (pc = "run" /\ started = day)
      BY <2>1, <3>1, DurationsAssumption
    <3> QED BY <3>2 DEF Passed
  <2>4. Passed(d) = GoodDays(d)
    BY <2>3 DEF Passed
  <2> QED BY <2>2, <2>4 DEF CaughtUp
<1> QED BY <1>1, Inductive, PTL

\* SuccessMeansMerged: a run that returns no error, and so is not retried, has
\* merged a batch of each partition of its window in which it found one
\* (compactor/main.go).
THEOREM SuccessIsTrue == Spec => SuccessMeansMerged
<1>1. ASSUME IInv, [Next]_vars, pc = "run", pc' = "idle", retries > 0, NEW i \in 1 .. Lookback
      PROVE  LET d == Partition(i) IN
             \/ MergedInRun(d)
             \/ Settled(d)
             \/ \E w \in written : w.day = d /\ w.made >= started
             \/ ~ Kept(d)
  <2>1. Again = "retry"
    BY <1>1 DEF Again
  <2>2. Return
    BY <1>1, <2>1 DEF Next, Handler, Write, NextDay, Invoke, Retry, Run, Compact, FailOne,
                      CompactFails, Die, vars, handler
  <2>3. failed = {} /\ at > Lookback
    BY <1>1, <2>1, <2>2 DEF Return
  <2>4. /\ started \in Nat /\ at \in Nat /\ i \in Nat /\ i >= 1 /\ i <= Lookback
    BY <1>1, DurationsAssumption DEF IInv, Types, TypeOK, Days
  <2>5. started - i \in Int /\ started - at < started - i /\ started - i < started
    BY <2>3, <2>4, DurationsAssumption
  <2>6. Answered(started - i)
    BY <1>1, <2>5 DEF IInv, Progress
  <2> QED BY <2>3, <2>6 DEF Answered, Disturbed, Partition
<1>2. IInv /\ [Next]_vars =>
         [pc = "run" /\ pc' = "idle" /\ retries > 0 =>
          \A i \in 1 .. Lookback :
             LET d == Partition(i) IN
             \/ MergedInRun(d)
             \/ Settled(d)
             \/ \E w \in written : w.day = d /\ w.made >= started
             \/ ~ Kept(d)]_vars
  BY <1>1
<1> QED BY <1>2, Inductive, PTL DEF Spec, SuccessMeansMerged

\* OnlyClosedDays: no step, neither compaction nor expiry, takes an object of the
\* day that is still written to (compactor/main.go).
THEOREM TodayIsLeft == Spec => OnlyClosedDays
<1>1. ASSUME IInv, [Next]_vars, NEW o \in (sources \ sources') \cup (outputs \ outputs')
      PROVE  o.day < today
  <2>1. /\ today \in Nat /\ o.day \in Nat /\ o.made \in Nat /\ o.day <= o.made
    BY <1>1, ObjectTypes DEF IInv
  <2>2. CASE NextDay
    <3>1. PICK keep \in Nat : keep = KeepFor
      BY <1>1, RulesAsAsked DEF IInv, Types, TypeOK, KeepFor, Shorthand
    <3>2. Due(o, "expireAfter", today + 1)
      BY <2>2, <1>1 DEF NextDay
    <3>3. keep > 0 /\ today + 1 > o.made + keep
      BY <1>1, <3>1, <3>2, DueIs DEF IInv, Types, TypeOK, KeepFor, Shorthand
    <3> QED BY <2>1, <3>1, <3>3
  <2>3. CASE Compact /\ Merge
    <3>1. PICK d, p : Merges(d, p)
      BY <1>1, <2>3, MergeMerges DEF IInv
    <3>2. o \in Selected(d) /\ d = Partition(at)
      BY <1>1, <3>1 DEF Merges
    <3>3. o.day = Partition(at) /\ pc = "run" /\ at <= Lookback
      BY <2>3, <3>2, SelectedIs DEF Compact
    <3> QED BY <1>1, <3>3, PartitionIs DEF IInv
  <2>4. CASE Write
    BY <1>1, <2>4 DEF Write
  <2>5. CASE UNCHANGED <<objects, today>>
    BY <1>1, <2>5 DEF objects
  <2> QED BY <1>1, <2>2, <2>3, <2>4, <2>5, ObjectsChange
<1>2. IInv /\ [Next]_vars =>
        [\A o \in (sources \ sources') \cup (outputs \ outputs') : o.day < today]_vars
  BY <1>1
<1> QED BY <1>2, Inductive, PTL DEF Spec, OnlyClosedDays

==============================================================================
