---------------------------- MODULE LoggerProofs ----------------------------
(***************************************************************************)
(* Proofs about the logger, for any tasks, variables and programs.         *)
(*                                                                         *)
(* No context sees the id of another because a task is, by number, in      *)
(* exactly the stores of the runs it is in, and a store holds an id of its *)
(* own run (Stacks).  A level governs all that is derived from its logger  *)
(* because a derived logger keeps what was asked when the first was made,  *)
(* whatever process.env has become (Loggers).  What becomes of a call is   *)
(* then a matter of the record, of where the parser looks for its object   *)
(* (ReadBack), and of the two filters; and what is printed otherwise, a    *)
(* matter of where the parser finds no object with the sentinel (TextIs).  *)
(***************************************************************************)
EXTENDS Logger, SequenceTheorems, TLAPS

\* A task is in one store for each run it is in, the one made for that run.
Stacks ==
    /\ program \in Programs
    /\ runs \in 0 .. program.runs
    /\ store \in Seq(Nat \X Nat) /\ Len(store) = runs
    /\ \A s \in 1 .. runs : store[s][1] = s
    /\ stack = within
    /\ within \in [Tasks -> Seq(0 .. runs)]

\* A logger has what was asked of it or of what it was derived from: the level
\* as it was then, and its other options.
AsAsked(logger, from) ==
    /\ DOMAIN from = {"source", "options", "env"}
    /\ from.env \in program.environments
    /\ logger.level = Option(from.options, "level", DefaultLevel(from.env))
    /\ logger.level \in DOMAIN LEVEL_ORDER
    /\ logger.source = from.source
    /\ \A o \in {"correlationId", "captureCaller"} :
          /\ o \in DOMAIN logger.options <=> o \in DOMAIN from.options
          /\ o \in DOMAIN from.options => logger.options[o] = from.options[o]

Loggers ==
    /\ {deployed, env} \subseteq program.environments
    /\ DOMAIN loggers = Names /\ DOMAIN origin = Names
    /\ \A n \in Names : loggers[n] # NoLogger => AsAsked(loggers[n], origin[n])

\* What the last call became.
LastCall == Isolation /\ LevelGoverns /\ RoundTrip

IInv == Stacks /\ Loggers /\ LastCall

-----------------------------------------------------------------------------
(* Stacks *)

\* The last element, and what is before it.
LEMMA LastAndFront ==
  ASSUME NEW S, NEW s \in Seq(S), s # <<>>
  PROVE  /\ Len(s) \in Nat /\ Len(s) >= 1 /\ Last(s) \in S
         /\ SubSeq(s, 1, Len(s) - 1) \in Seq(S)
<1>1. PICK n \in Nat : n = Len(s) /\ n # 0
  BY LenProperties, EmptySeq
<1>2. n >= 1 /\ n \in 1 .. n
  BY <1>1
<1>3. \A i \in 1 .. n - 1 : i \in 1 .. n
  BY <1>1
<1>4. \A i \in 1 .. n : s[i] \in S
  BY <1>1, ElementOfSeq
<1>5. s[n] \in S
  BY <1>2, <1>4
<1>6. SubSeq(s, 1, n - 1) \in Seq(S)
  BY <1>1, <1>3, <1>4, SubSeqProperties
<1> QED BY <1>1, <1>2, <1>5, <1>6 DEF Last

\* What AsyncLocalStorage gives a task is the store of the run it is in.
LEMMA TopOf ==
  ASSUME Stacks, NEW t \in Tasks, Live(t)
  PROVE  /\ Last(stack[t]) \in 0 .. runs /\ Last(within[t]) = Last(stack[t])
         /\ Len(stack[t]) \in Nat /\ Len(stack[t]) >= 1 /\ stack[t] \in Seq(0 .. runs)
<1>1. stack[t] \in Seq(0 .. runs) /\ stack[t] = within[t]
  BY DEF Stacks
<1>2. PICK s : s = stack[t]
  OBVIOUS
<1>3. Len(s) \in Nat /\ Len(s) >= 1 /\ Last(s) \in 0 .. runs
  BY <1>1, <1>2, LastAndFront DEF Live
<1> QED BY <1>1, <1>2, <1>3

\* At the start no run has been called.
LEMMA InitStacks == Init => Stacks
<1> SUFFICES ASSUME Init PROVE Stacks
  OBVIOUS
<1>1. program \in Programs /\ runs = 0 /\ stack = within /\ store = <<>> /\ program.runs \in Nat
  BY ProgramsAssumption DEF Init
<1>2. within \in [Tasks -> Seq(0 .. runs)]
  <2>1. <<0>> \in Seq(0 .. 0) /\ <<>> \in Seq(0 .. 0)
    OBVIOUS
  <2> QED BY <1>1, <2>1 DEF Init
<1> QED BY <1>1, <1>2 DEF Stacks

\* Most steps leave the stores alone.
LEMMA StacksSame ==
  ASSUME Stacks, UNCHANGED <<program, async>>
  PROVE  Stacks'
BY DEF Stacks, async

\* A task starts in the store of the one that starts it.
LEMMA StacksSpawn ==
  ASSUME Stacks, NEW t \in Tasks, NEW u \in Others, Spawn(t, u)
  PROVE  Stacks'
<1>1. /\ Last(stack[t]) \in 0 .. runs /\ Last(within[t]) = Last(stack[t])
  BY TopOf DEF Spawn
<1>2. PICK s : s = <<Last(stack[t])>>
  OBVIOUS
<1>3. s \in Seq(0 .. runs) /\ u \in Tasks
  BY <1>1, <1>2 DEF Tasks
<1>4. stack' = [stack EXCEPT ![u] = s] /\ within' = [within EXCEPT ![u] = s]
  BY <1>1, <1>2 DEF Spawn
<1>5. UNCHANGED <<program, store, runs>>
  BY DEF Spawn
<1> QED BY <1>3, <1>4, <1>5 DEF Stacks

\* A run gets a store of its own.
LEMMA StacksRun ==
  ASSUME Stacks, NEW t \in Tasks, RunWithCorrelationId(t)
  PROVE  Stacks'
<1>1. PICK k \in 1 .. 2 : store' = Append(store, <<runs + 1, k>>)
  BY DEF RunWithCorrelationId
<1>2. PICK id : id = <<runs + 1, k>>
  OBVIOUS
<1>3. /\ program' = program /\ runs' = runs + 1 /\ runs < program.runs /\ runs \in Nat
      /\ program.runs \in Nat /\ program \in Programs
  BY ProgramsAssumption DEF RunWithCorrelationId, Enter, Stacks
<1>4. /\ store' \in Seq(Nat \X Nat) /\ Len(store') = runs + 1
      /\ \A s \in 1 .. runs : store'[s] = store[s]
      /\ store'[runs + 1] = id
  <2>1. id \in Nat \X Nat
    BY <1>2, <1>3
  <2>2. store' = Append(store, id) /\ store \in Seq(Nat \X Nat) /\ Len(store) = runs
    BY <1>1, <1>2 DEF Stacks
  <2> QED BY <2>1, <2>2, AppendProperties
<1>5. \A s \in 1 .. runs' : store'[s][1] = s
  <2>1. \A s \in 1 .. runs + 1 : s \in 1 .. runs \/ s = runs + 1
    BY <1>3
  <2>2. \A s \in 1 .. runs : store'[s][1] = s
    BY <1>4 DEF Stacks
  <2>3. id[1] = runs + 1
    BY <1>2
  <2> QED BY <1>3, <1>4, <2>1, <2>2, <2>3
<1>6. stack' = within' /\ within' = [within EXCEPT ![t] = Append(within[t], runs + 1)]
  BY DEF RunWithCorrelationId, Enter, Stacks
<1>7. within' \in [Tasks -> Seq(0 .. runs')]
  <2>1. within \in [Tasks -> Seq(0 .. runs + 1)]
    <3>1. \A u \in Tasks : within[u] \in Seq(0 .. runs)
      BY DEF Stacks
    <3>2. 0 .. runs \subseteq 0 .. runs + 1
      BY <1>3
    <3>3. \A u \in Tasks : within[u] \in Seq(0 .. runs + 1)
      BY <3>1, <3>2, SeqMonotonic
    <3> QED BY <3>3 DEF Stacks
  <2>2. Append(within[t], runs + 1) \in Seq(0 .. runs + 1)
    BY <1>3, <2>1, AppendProperties
  <2> QED BY <1>3, <1>6, <2>1, <2>2
<1> QED BY <1>3, <1>4, <1>5, <1>6, <1>7 DEF Stacks

\* Its end leaves the store of before.
LEMMA StacksReturn ==
  ASSUME Stacks, NEW t \in Tasks, Return(t)
  PROVE  Stacks'
<1>1. PICK s : s = SubSeq(within[t], 1, Len(within[t]) - 1)
  OBVIOUS
<1>2. s \in Seq(0 .. runs)
  <2>1. PICK w : w = within[t]
    OBVIOUS
  <2>2. w \in Seq(0 .. runs) /\ w # <<>>
    <3>1. Len(<<>>) = 0
      OBVIOUS
    <3> QED BY <2>1, <3>1 DEF Stacks, Return
  <2> QED BY <1>1, <2>1, <2>2, LastAndFront
<1>3. /\ stack' = within' /\ within' = [within EXCEPT ![t] = s]
      /\ UNCHANGED <<program, store, runs>>
  BY <1>1 DEF Return, Stacks
<1> QED BY <1>2, <1>3 DEF Stacks

\* A new id is one of the run whose store it is put into.
LEMMA StacksSet ==
  ASSUME Stacks, NEW t \in Tasks, SetCorrelationId(t)
  PROVE  Stacks'
<1>1. UNCHANGED <<program, stack, runs, within>> /\ Live(t)
  BY DEF SetCorrelationId
<1>2. Last(stack[t]) \in 0 .. runs /\ Last(within[t]) = Last(stack[t]) /\ runs \in Nat
  BY <1>1, TopOf DEF Stacks
<1>3. PICK k \in 1 .. 2 :
         IF Last(stack[t]) = 0 THEN UNCHANGED store
         ELSE store' = [store EXCEPT ![Last(stack[t])] = <<Last(within[t]), k>>]
  BY DEF SetCorrelationId, Ids
<1>4. CASE Last(stack[t]) = 0
  BY <1>1, <1>3, <1>4 DEF Stacks
<1>5. CASE Last(stack[t]) # 0
  <2>1. PICK s, id : s = Last(stack[t]) /\ id = <<s, k>>
    OBVIOUS
  <2>2. s \in 1 .. runs /\ id \in Nat \X Nat /\ id[1] = s
    BY <1>2, <1>5, <2>1
  <2>3. store' = [store EXCEPT ![s] = id]
    BY <1>2, <1>3, <1>5, <2>1
  <2>4. store' \in Seq(Nat \X Nat) /\ Len(store') = runs
    <3>1. store \in Seq(Nat \X Nat) /\ Len(store) = runs
      BY DEF Stacks
    <3> QED BY <2>2, <2>3, <3>1, ExceptSeq
  <2>5. \A r \in 1 .. runs : store'[r][1] = r
    <3>1. DOMAIN store = 1 .. runs
      BY LenProperties DEF Stacks
    <3> QED BY <2>2, <2>3, <3>1 DEF Stacks
  <2> QED BY <1>1, <2>4, <2>5 DEF Stacks
<1> QED BY <1>4, <1>5

-----------------------------------------------------------------------------
(* Loggers *)

\* Options laid over others.
LEMMA Overlaid ==
  ASSUME NEW old, NEW new
  PROVE  /\ DOMAIN Overlay(old, new) = DOMAIN old \cup DOMAIN new
         /\ \A f \in DOMAIN old \cup DOMAIN new :
               Overlay(old, new)[f] = IF f \in DOMAIN new THEN new[f] ELSE old[f]
BY DEF Overlay

\* A default level is one of the four.
LEMMA LevelsKnown ==
  /\ DOMAIN LEVEL_ORDER = {"DEBUG", "INFO", "WARN", "ERROR"}
  /\ \A e : DefaultLevel(e) \in DOMAIN LEVEL_ORDER
BY DEF LEVEL_ORDER, DefaultLevel

\* A logger that is created ...
LEMMA CreatedAsAsked ==
  ASSUME Loggers, program \in Programs, NEW source, NEW options \in program.options
  PROVE  AsAsked(CreateStructuredLogger(source, options),
                 [source |-> source, options |-> options, env |-> env])
<1>1. Option(options, "level", "INFO") \in DOMAIN LEVEL_ORDER /\ env \in program.environments
  BY ProgramsAssumption DEF Loggers
<1>2. Option(options, "level", DefaultLevel(env)) \in DOMAIN LEVEL_ORDER
  BY <1>1, LevelsKnown DEF Option
<1> QED BY <1>1, <1>2 DEF AsAsked, CreateStructuredLogger

\* ... one that child derives ...
LEMMA ChildAsAsked ==
  ASSUME NEW logger, NEW from, AsAsked(logger, from), NEW source
  PROVE  AsAsked(Child(logger, source), [from EXCEPT !.source = source])
<1>0. PICK own, new : own = logger.options /\ new = [level |-> logger.level]
  OBVIOUS
<1>1. PICK options : options = Overlay(own, new)
  OBVIOUS
<1>2. /\ DOMAIN options = DOMAIN logger.options \cup {"level"}
      /\ options.level = logger.level
      /\ \A o \in {"correlationId", "captureCaller"} :
            o \in DOMAIN logger.options => options[o] = logger.options[o]
  <2>1. DOMAIN new = {"level"} /\ new.level = logger.level
    BY <1>0
  <2>2. /\ DOMAIN options = DOMAIN own \cup DOMAIN new
        /\ \A f \in DOMAIN own \cup DOMAIN new :
              options[f] = IF f \in DOMAIN new THEN new[f] ELSE own[f]
    BY <1>1, Overlaid
  <2> QED BY <1>0, <2>1, <2>2
<1>3. PICK c : c = Child(logger, source)
  OBVIOUS
<1>4. c.level = logger.level /\ c.source = source /\ c.options = options
  BY <1>0, <1>1, <1>2, <1>3 DEF Child, CreateStructuredLogger, Option
<1>5. PICK f : f = [from EXCEPT !.source = source]
  OBVIOUS
<1>6. /\ DOMAIN f = {"source", "options", "env"} /\ f.source = source
      /\ f.options = from.options /\ f.env = from.env
  BY <1>5 DEF AsAsked
<1>7. AsAsked(c, f)
  BY <1>2, <1>4, <1>6 DEF AsAsked
<1> QED BY <1>3, <1>5, <1>7

\* ... and one that withCorrelationId derives have what was asked.
LEMMA PinnedAsAsked ==
  ASSUME NEW logger, NEW from, AsAsked(logger, from), NEW id
  PROVE  AsAsked(WithCorrelationId(logger, id),
                 [from EXCEPT !.options = Overlay(from.options, [correlationId |-> id])])
<1>0. PICK own, new :
         own = logger.options /\ new = [level |-> logger.level, correlationId |-> id]
  OBVIOUS
<1>1. PICK options : options = Overlay(own, new)
  OBVIOUS
<1>2. /\ DOMAIN options = DOMAIN logger.options \cup {"level", "correlationId"}
      /\ options.level = logger.level /\ options.correlationId = id
      /\ "captureCaller" \in DOMAIN logger.options =>
            options.captureCaller = logger.options.captureCaller
  <2>1. /\ DOMAIN new = {"level", "correlationId"}
        /\ new.level = logger.level /\ new.correlationId = id
    BY <1>0
  <2>2. /\ DOMAIN options = DOMAIN own \cup DOMAIN new
        /\ \A f \in DOMAIN own \cup DOMAIN new :
              options[f] = IF f \in DOMAIN new THEN new[f] ELSE own[f]
    BY <1>1, Overlaid
  <2> QED BY <1>0, <2>1, <2>2
<1>3. PICK c : c = WithCorrelationId(logger, id)
  OBVIOUS
<1>4. c.level = logger.level /\ c.source = logger.source /\ c.options = options
  BY <1>0, <1>1, <1>2, <1>3 DEF WithCorrelationId, CreateStructuredLogger, Option
<1>p. PICK were, pin : were = from.options /\ pin = [correlationId |-> id]
  OBVIOUS
<1>5. PICK asked : asked = Overlay(were, pin)
  OBVIOUS
<1>6. /\ DOMAIN asked = DOMAIN from.options \cup {"correlationId"}
      /\ asked.correlationId = id
      /\ \A o \in {"level", "captureCaller"} :
            o \in DOMAIN from.options => asked[o] = from.options[o]
  <2>1. DOMAIN pin = {"correlationId"} /\ pin.correlationId = id
    BY <1>p
  <2>2. /\ DOMAIN asked = DOMAIN were \cup DOMAIN pin
        /\ \A f \in DOMAIN were \cup DOMAIN pin :
              asked[f] = IF f \in DOMAIN pin THEN pin[f] ELSE were[f]
    BY <1>5, Overlaid
  <2> QED BY <1>p, <2>1, <2>2
<1>7. PICK f : f = [from EXCEPT !.options = asked]
  OBVIOUS
<1>8. /\ DOMAIN f = {"source", "options", "env"} /\ f.source = from.source
      /\ f.options = asked /\ f.env = from.env
  BY <1>7 DEF AsAsked
<1>9. c.level = Option(f.options, "level", DefaultLevel(f.env))
  BY <1>4, <1>6, <1>8 DEF AsAsked, Option
<1>10. AsAsked(c, f)
  BY <1>2, <1>4, <1>6, <1>8, <1>9 DEF AsAsked
<1> QED BY <1>3, <1>p, <1>5, <1>7, <1>10

\* A variable that gets such a logger.
LEMMA LoggersAssign ==
  ASSUME Loggers, NEW n \in Names, NEW logger, NEW from, AsAsked(logger, from),
         Assign(n, logger, from)
  PROVE  Loggers'
<1>1. /\ loggers' = [loggers EXCEPT ![n] = logger] /\ origin' = [origin EXCEPT ![n] = from]
      /\ UNCHANGED <<program, deployed, env>>
  BY DEF Assign
<1>2. ASSUME NEW m \in Names, loggers'[m] # NoLogger
      PROVE  AsAsked(loggers'[m], origin'[m])
  <2>1. CASE m = n
    BY <2>1, <1>1 DEF Loggers
  <2>2. CASE m # n
    BY <2>2, <1>1, <1>2 DEF Loggers
  <2> QED BY <2>1, <2>2
<1>3. (\A m \in Names : loggers[m] # NoLogger => AsAsked(loggers[m], origin[m]))'
  BY <1>1, <1>2 DEF AsAsked
<1> QED BY <1>1, <1>3 DEF Loggers

\* Most steps leave the loggers alone.
LEMMA LoggersSame ==
  ASSUME Loggers, UNCHANGED <<program, deployed, env, loggers, origin>>
  PROVE  Loggers'
BY DEF Loggers, AsAsked

\* At the start there is no logger.
LEMMA InitLoggers == Init => Loggers
BY DEF Init, Loggers

\* Each step keeps what was asked, SetEnv among them.
LEMMA LoggersNext ==
  ASSUME Stacks, Loggers, [Next]_vars
  PROVE  Loggers'
<1>0. program \in Programs
  BY DEF Stacks
<1>1. ASSUME NEW n \in Names, Create(n)
      PROVE  Loggers'
  <2> PICK source \in program.sources, options \in program.options :
         Assign(n, CreateStructuredLogger(source, options),
                [source |-> source, options |-> options, env |-> env])
    BY <1>1 DEF Create
  <2> QED BY <1>0, CreatedAsAsked, LoggersAssign
<1>2. ASSUME NEW n \in Names, NEW m \in Names, Derive(n, m)
      PROVE  Loggers'
  <2>0. AsAsked(loggers[m], origin[m])
    BY <1>2 DEF Derive, Loggers
  <2>1. ASSUME NEW source, Assign(n, Child(loggers[m], source), [origin[m] EXCEPT !.source = source])
        PROVE  Loggers'
    BY <2>0, <2>1, ChildAsAsked, LoggersAssign
  <2>2. ASSUME Assign(n, WithCorrelationId(loggers[m], <<0, 1>>),
                  [origin[m] EXCEPT !.options = Overlay(@, [correlationId |-> <<0, 1>>])])
        PROVE  Loggers'
    BY <2>0, <2>2, PinnedAsAsked, LoggersAssign
  <2> QED BY <1>2, <2>1, <2>2 DEF Derive
<1>3. CASE SetEnv
  <2>1. /\ env' \in program.environments
        /\ UNCHANGED <<program, deployed, loggers, origin>>
    BY <1>3 DEF SetEnv
  <2>2. (\A m \in Names : loggers[m] # NoLogger => AsAsked(loggers[m], origin[m]))'
    BY <2>1 DEF Loggers, AsAsked
  <2> QED BY <2>1, <2>2 DEF Loggers
<1>4. ASSUME NEW t \in Tasks,
             \/ \E u \in Others : Spawn(t, u)
             \/ RunWithCorrelationId(t) \/ Return(t) \/ SetCorrelationId(t)
             \/ \E n \in Names : Emit(t, n)
      PROVE  Loggers'
  BY <1>4, LoggersSame DEF Spawn, RunWithCorrelationId, Enter, Return, SetCorrelationId, Emit
<1>5. CASE PrintLine \/ Forget \/ UNCHANGED vars
  BY <1>5, LoggersSame DEF PrintLine, Forget, vars
<1> QED BY <1>1, <1>2, <1>3, <1>4, <1>5 DEF Next

\* Each step keeps stores and runs in step.
LEMMA StacksNext ==
  ASSUME Stacks, [Next]_vars
  PROVE  Stacks'
<1>1. ASSUME NEW t \in Tasks,
             \/ \E u \in Others : Spawn(t, u)
             \/ RunWithCorrelationId(t) \/ Return(t) \/ SetCorrelationId(t)
      PROVE  Stacks'
  BY <1>1, StacksSpawn, StacksRun, StacksReturn, StacksSet
<1>2. ASSUME NEW t \in Tasks, NEW n \in Names, Emit(t, n)
      PROVE  Stacks'
  BY <1>2, StacksSame DEF Emit
<1>3. ASSUME NEW n \in Names, Create(n) \/ \E m \in Names : Derive(n, m)
      PROVE  Stacks'
  BY <1>3, StacksSame DEF Create, Derive, Assign
<1>4. CASE SetEnv \/ PrintLine \/ Forget \/ UNCHANGED vars
  BY <1>4, StacksSame DEF SetEnv, PrintLine, Forget, vars, async
<1> QED BY <1>1, <1>2, <1>3, <1>4 DEF Next

-----------------------------------------------------------------------------
(* The last call *)

\* The two sides agree about the four levels.
LEMMA OrderFacts ==
  /\ \A l \in DOMAIN LEVEL_ORDER : LEVEL_ORDER[l] \in Nat
  /\ \A l \in DOMAIN LEVEL_ORDER : ParseLevel(l) = LEVEL_ORDER[l] /\ Upper(l) = l
  /\ \A raw : Upper(raw) \in DOMAIN LEVEL_ORDER => ParseLevel(raw) = LEVEL_ORDER[Upper(raw)]
  /\ Upper("") = "" /\ "" \notin DOMAIN LEVEL_ORDER /\ ParseLevel("") = Unknown
BY DEF LEVEL_ORDER, ParseLevel, Upper, Unknown

\* With plain variables the logger defaults to the level they name ...
LEMMA DefaultIsNamed ==
  ASSUME NEW e, Plain(e)
  PROVE  DefaultLevel(e) = Named(e) /\ Named(e) \in DOMAIN LEVEL_ORDER
<1>1. PICK raw : raw = Option(e, "LOG_TO_S3_LEVEL", Option(e, "LOG_LEVEL", "INFO"))
  OBVIOUS
<1>2. Upper(raw) \in DOMAIN LEVEL_ORDER
  <2>1. raw = "INFO" \/ \E v \in DOMAIN e : raw = e[v]
    BY <1>1 DEF Option
  <2>2. Upper("INFO") \in DOMAIN LEVEL_ORDER
    BY LevelsKnown, OrderFacts
  <2> QED BY <2>1, <2>2 DEF Plain
<1> QED BY <1>1, <1>2 DEF DefaultLevel, Named

\* ... and so does the extension.
LEMMA ConfigIsNamed ==
  ASSUME NEW e, Plain(e)
  PROVE  ConfigLevel(e) = LEVEL_ORDER[Named(e)]
<1>1. PICK first : first = IF Option(e, "LOG_TO_S3_LEVEL", "") # ""
                           THEN e["LOG_TO_S3_LEVEL"] ELSE Option(e, "LOG_LEVEL", "")
  OBVIOUS
<1>2. ConfigLevel(e) = IF ParseLevel(first) = Unknown THEN 1 ELSE ParseLevel(first)
  BY <1>1 DEF ConfigLevel
<1>3. Unknown \notin Nat /\ LEVEL_ORDER["INFO"] = 1 /\ Upper("INFO") = "INFO"
  BY DEF Unknown, LEVEL_ORDER, Upper
<1>4. \A v \in DOMAIN e : Upper(e[v]) \in DOMAIN LEVEL_ORDER /\ e[v] # ""
  BY OrderFacts DEF Plain
<1>5. CASE "LOG_TO_S3_LEVEL" \in DOMAIN e
  <2>1. first = e["LOG_TO_S3_LEVEL"] /\ Named(e) = Upper(e["LOG_TO_S3_LEVEL"])
    BY <1>1, <1>4, <1>5 DEF Option, Named
  <2> QED BY <1>2, <1>3, <1>4, <1>5, <2>1, OrderFacts
<1>6. CASE "LOG_TO_S3_LEVEL" \notin DOMAIN e /\ "LOG_LEVEL" \in DOMAIN e
  <2>1. first = e["LOG_LEVEL"] /\ Named(e) = Upper(e["LOG_LEVEL"])
    BY <1>1, <1>6 DEF Option, Named
  <2> QED BY <1>2, <1>3, <1>4, <1>6, <2>1, OrderFacts
<1>7. CASE "LOG_TO_S3_LEVEL" \notin DOMAIN e /\ "LOG_LEVEL" \notin DOMAIN e
  <2>1. first = "" /\ Named(e) = "INFO"
    BY <1>1, <1>3, <1>7 DEF Option, Named
  <2> QED BY <1>2, <1>3, <2>1, OrderFacts
<1> QED BY <1>5, <1>6, <1>7

\* What there is in a row of the logger's.
IsRow(r, logger, t, call) ==
    /\ {"level", "source", "correlationId", "message"} \subseteq DOMAIN r
    /\ r.level = call.level /\ r.source = logger.source /\ r.message = call.message
    /\ r.correlationId = Option(logger.options, "correlationId", Ambient(t))
    /\ "caller" \in DOMAIN r <=> call.site /\ Option(logger.options, "captureCaller", TRUE)
    /\ "stackTrace" \in DOMAIN r <=> call.err = "Error"
    /\ "context" \in DOMAIN r <=> Context(call) # {}
    /\ "context" \in DOMAIN r =>
          r.context = {entry \in Context(call) : entry[2] # "undefined"}

\* What there is in what emit writes.
IsWritten(f, logger, t, call) ==
    /\ {"logLevel", "source", "correlationId", "message"} \subseteq DOMAIN f
    /\ f.logLevel = call.level /\ f.source = logger.source /\ f.message = call.message
    /\ f.correlationId = Option(logger.options, "correlationId", Ambient(t))
    /\ "caller" \in DOMAIN f <=> call.site /\ Option(logger.options, "captureCaller", TRUE)
    /\ "stackTrace" \in DOMAIN f <=> call.err = "Error"
    /\ "context" \in DOMAIN f <=> Context(call) # {}
    /\ "context" \in DOMAIN f =>
          f.context = {entry \in Context(call) : entry[2] # "undefined"}

\* emit writes such an object.
LEMMA WrittenOf ==
  ASSUME NEW logger, NEW t, NEW call, NEW part, part = Stringify(Record(logger, t, call))
  PROVE  /\ Sentinel(part)
         /\ IsWritten(part.fields, logger, t, call)
<1>1. PICK caller, id, ctx :
         /\ caller = (call.site /\ Option(logger.options, "captureCaller", TRUE))
         /\ id = Option(logger.options, "correlationId", Ambient(t))
         /\ ctx = Context(call)
  OBVIOUS
<1>2. PICK fields : fields =
         [logLevel |-> call.level, source |-> logger.source, correlationId |-> id,
          message |-> call.message, caller |-> TRUE, context |-> ctx, stackTrace |-> TRUE]
  OBVIOUS
<1>3. PICK out : out = (IF caller THEN {} ELSE {"caller"})
                       \cup (IF ctx # {} THEN {} ELSE {"context"})
                       \cup (IF call.err = "Error" THEN {} ELSE {"stackTrace"})
  OBVIOUS
<1>4. PICK r : r = [f \in DOMAIN fields \ out |-> fields[f]]
  OBVIOUS
<1>5. r = Record(logger, t, call)
  BY <1>1, <1>2, <1>3, <1>4 DEF Record
<1>6. /\ DOMAIN fields = {"logLevel", "source", "correlationId", "message", "caller",
                          "context", "stackTrace"}
      /\ fields.logLevel = call.level /\ fields.source = logger.source
      /\ fields.correlationId = id /\ fields.context = ctx /\ fields.message = call.message
  BY <1>2
<1>7. /\ {"logLevel", "source", "correlationId", "message"} \cap out = {}
      /\ "caller" \in out <=> ~ caller
      /\ "context" \in out <=> ctx = {}
      /\ "stackTrace" \in out <=> call.err # "Error"
  BY <1>3
<1>8. PICK w : w = [f \in DOMAIN r |-> IF f # "context" THEN r[f]
                                      ELSE {entry \in r[f] : entry[2] # "undefined"}]
  OBVIOUS
<1>9. part.is = "object" /\ part.decodes /\ part.fields = w
  BY <1>5, <1>8 DEF Stringify, Object
<1>10. /\ DOMAIN w = DOMAIN fields \ out
       /\ \A f \in DOMAIN w : f # "context" => w[f] = fields[f]
       /\ "context" \in DOMAIN w => w.context = {entry \in ctx : entry[2] # "undefined"}
  BY <1>4, <1>6, <1>8
<1>11. IsWritten(w, logger, t, call)
  BY <1>1, <1>6, <1>7, <1>10 DEF IsWritten
<1>12. Sentinel(part)
  BY <1>9, <1>11 DEF Sentinel, IsWritten
<1> QED BY <1>9, <1>11, <1>12

\* Its columns are those of the row.
LEMMA ColumnsOf ==
  ASSUME NEW f, NEW logger, NEW t, NEW call, IsWritten(f, logger, t, call),
         call.level \in DOMAIN LEVEL_ORDER
  PROVE  IsRow(Columns(f), logger, t, call)
<1>1. PICK r : r = Columns(f)
  OBVIOUS
<1>2. /\ DOMAIN r = {"level", "source", "correlationId", "message"}
                    \cup (DOMAIN f \cap {"caller", "context", "stackTrace"})
      /\ r.level = Upper(f.logLevel)
      /\ r.source = Option(f, "source", "")
      /\ r.correlationId = Option(f, "correlationId", NoId)
      /\ r.message = Option(f, "message", <<>>)
      /\ "context" \in DOMAIN f => r.context = f.context
  BY <1>1 DEF Columns
<1>3. Upper(call.level) = call.level
  BY OrderFacts
<1>4. /\ r.source = f.source /\ r.correlationId = f.correlationId /\ r.message = f.message
      /\ r.level = call.level
  BY <1>2, <1>3 DEF Option, IsWritten
<1>5. IsRow(r, logger, t, call)
  BY <1>2, <1>4 DEF IsRow, IsWritten
<1> QED BY <1>1, <1>5

\* r is s with x in front.
InFrontOf(x, s, r, S) ==
    /\ r \in Seq(S \cup {x}) /\ Len(r) = Len(s) + 1 /\ r[1] = x
    /\ \A i \in 1 .. Len(s) : r[i + 1] = s[i]
    /\ Tail(r) = s
    /\ s # <<>> => Last(r) = Last(s)

\* A line with one more part in front.
LEMMA InFront ==
  ASSUME NEW S, NEW s \in Seq(S), NEW x, NEW r, r = Cons(x, s)
  PROVE  InFrontOf(x, s, r, S)
<1>1. PICK n \in Nat : n = Len(s) /\ s \in [1 .. n -> S]
  BY LenProperties
<1>2. <<x>> \in Seq(S \cup {x}) /\ s \in Seq(S \cup {x}) /\ Len(<<x>>) = 1 /\ <<x>>[1] = x
  OBVIOUS
<1>3. /\ r \in Seq(S \cup {x}) /\ Len(r) = n + 1
      /\ \A i \in 1 .. n + 1 : r[i] = IF i <= 1 THEN <<x>>[i] ELSE s[i - 1]
  BY <1>1, <1>2, ConcatProperties DEF Cons
<1>4. r[1] = x /\ \A i \in 1 .. n : r[i + 1] = s[i]
  <2>1. r[1] = x
    BY <1>1, <1>2, <1>3
  <2>2. ASSUME NEW i \in 1 .. n PROVE r[i + 1] = s[i]
    <3>1. i + 1 \in 1 .. n + 1 /\ ~ (i + 1 <= 1) /\ (i + 1) - 1 = i
      BY <1>1
    <3> QED BY <1>3, <3>1
  <2> QED BY <2>1, <2>2
<1>5. Tail(r) = s
  <2>1. r # <<>>
    BY <1>1, <1>3
  <2>2. /\ Tail(r) \in Seq(S \cup {x}) /\ Len(Tail(r)) = n
        /\ \A i \in 1 .. n : Tail(r)[i] = r[i + 1]
    BY <1>1, <1>3, <2>1, HeadTailProperties
  <2> QED BY <1>1, <1>2, <1>4, <2>2, SeqEqual
<1>6. s # <<>> => Last(r) = Last(s)
  <2>1. s # <<>> => n \in 1 .. n
    BY <1>1
  <2> QED BY <1>1, <1>3, <1>4, <2>1 DEF Last
<1> QED BY <1>1, <1>3, <1>4, <1>5, <1>6 DEF InFrontOf

\* What parseFunction does, kind by kind.
LEMMA Parses ==
  ASSUME NEW x, NEW y
  PROVE  /\ ParseFunction([kind |-> "string", record |-> x]) = FillFromText(x)
         /\ ParseFunction([kind |-> "other", record |-> x]) = [level |-> "INFO", message |-> x]
         /\ ParseFunction([kind |-> "object", level |-> y, message |-> x]) =
               IF Structured(x) THEN Columns(x[1].fields)
               ELSE [level |-> IF y = "" THEN "INFO" ELSE Upper(y), message |-> x]
<1>1. PICK b : b = [kind |-> "string", record |-> x]
  OBVIOUS
<1>2. PICK c : c = [kind |-> "other", record |-> x]
  OBVIOUS
<1>3. PICK d : d = [kind |-> "object", level |-> y, message |-> x]
  OBVIOUS
<1>4. b.kind = "string" /\ b.record = x
  BY <1>1
<1>5. c.kind = "other" /\ c.record = x
  BY <1>2
<1>6. d.kind = "object" /\ d.level = y /\ d.message = x
  BY <1>3
<1>7. ParseFunction(b) = FillFromText(x)
  BY <1>4 DEF ParseFunction
<1>8. ParseFunction(c) = [level |-> "INFO", message |-> x]
  BY <1>5 DEF ParseFunction
<1>9. ParseFunction(d) = IF Structured(x) THEN Columns(x[1].fields)
                         ELSE [level |-> IF y = "" THEN "INFO" ELSE Upper(y), message |-> x]
  BY <1>6 DEF ParseFunction
<1> QED BY <1>1, <1>2, <1>3, <1>7, <1>8, <1>9

\* An object with the sentinel is found behind every prefix and in the object
\* of the JSON format.
LEMMA ReadBack ==
  ASSUME NEW part, Sentinel(part), NEW form \in Forms, NEW label
  PROVE  ParseFunction(Delivered(<<part>>, form, label)) = Columns(part.fields)
<1>1. PICK line : line = <<part>>
  OBVIOUS
<1>2. line \in Seq({part}) /\ Len(line) = 1 /\ line[1] = part /\ Structured(line)
  BY <1>1 DEF Structured
<1>3. part.is = "object"
  BY DEF Sentinel
<1>4. CASE form = "prefixed"
  <2>1. PICK s : s = Cons(Word(label), line)
    OBVIOUS
  <2>2. PICK r : r = Cons(Stamp, s)
    OBVIOUS
  <2>3. s \in Seq({part} \cup {Word(label)}) /\ Len(s) = 2 /\ s[1] = Word(label) /\ Tail(s) = line
    <3>1. InFrontOf(Word(label), line, s, {part})
      BY <1>2, <2>1, InFront
    <3> QED BY <1>2, <3>1 DEF InFrontOf
  <2>4. Len(r) = 3 /\ r[1] = Stamp /\ r[2] = Word(label) /\ Tail(r) = s
    <3>1. InFrontOf(Stamp, s, r, {part} \cup {Word(label)})
      BY <2>2, <2>3, InFront
    <3>2. Len(r) = 3 /\ r[1] = Stamp /\ Tail(r) = s /\ r[1 + 1] = s[1]
      BY <2>3, <3>1 DEF InFrontOf
    <3> QED BY <2>3, <3>2
  <2>5. Labelled(r)
    BY <2>4 DEF Labelled, Stamped, Stamp, Word
  <2>6. Body(r) = line
    BY <2>3, <2>4, <2>5 DEF Body
  <2>7. FillFromText(r) = Columns(part.fields)
    BY <1>2, <2>6 DEF FillFromText
  <2>8. Delivered(line, form, label) = [kind |-> "string", record |-> r]
    BY <1>4, <2>1, <2>2 DEF Delivered
  <2> QED BY <1>1, <2>7, <2>8, Parses
<1>5. CASE form = "unlabelled"
  <2>1. PICK r : r = Cons(Stamp, line)
    OBVIOUS
  <2>2. Len(r) = 2 /\ r[1] = Stamp /\ Tail(r) = line
    <3>1. InFrontOf(Stamp, line, r, {part})
      BY <1>2, <2>1, InFront
    <3> QED BY <1>2, <3>1 DEF InFrontOf
  <2>3. Body(r) = line
    BY <2>2 DEF Body, Labelled, Stamped, Stamp
  <2>4. FillFromText(r) = Columns(part.fields)
    BY <1>2, <2>3 DEF FillFromText
  <2>5. Delivered(line, form, label) = [kind |-> "string", record |-> r]
    BY <1>5, <2>1 DEF Delivered
  <2> QED BY <1>1, <2>4, <2>5, Parses
<1>6. CASE form = "odd"
  <2>1. PICK r : r = Cons(Text(FALSE), line)
    OBVIOUS
  <2>2. PICK text, S : text = Text(FALSE) /\ S = {part} \cup {text}
    OBVIOUS
  <2>3. r \in Seq(S) /\ Len(r) = 2 /\ r[1] = text /\ r[2] = part
    <3>1. InFrontOf(text, line, r, {part})
      BY <1>2, <2>2, <2>1, InFront
    <3>2. /\ r \in Seq({part} \cup {text}) /\ Len(r) = Len(line) + 1 /\ r[1] = text
          /\ \A i \in 1 .. Len(line) : r[i + 1] = line[i]
      BY <3>1, Zenon DEF InFrontOf
    <3>3. r \in Seq(S)
      BY <2>2, <3>2, Zenon
    <3>4. 1 \in 1 .. Len(line)
      BY <1>2
    <3>5. Len(r) = 2 /\ r[1 + 1] = line[1]
      BY <1>2, <3>2, <3>4
    <3> QED BY <1>2, <3>2, <3>3, <3>5
  <2>4. Body(r) = r
    BY <2>2, <2>3 DEF Body, Labelled, Stamped, Text
  <2>5. ~ Structured(Body(r))
    BY <2>3, <2>4 DEF Structured
  <2>6. TabBraces(r) = {2}
    BY <1>3, <2>3 DEF TabBraces, BeginsWithBrace
  <2>7. FirstTabBrace(r) = {2}
    BY <2>6 DEF FirstTabBrace
  <2>8. Structured(SubSeq(r, 2, Len(r)))
    <3>1. PICK tail : tail = SubSeq(r, 2, 2)
      OBVIOUS
    <3>2. Len(tail) = 1 /\ tail[1] = r[2]
      BY <2>3, <3>1
    <3> QED BY <2>3, <3>1, <3>2 DEF Structured
  <2>9. Last(r) = part
    BY <2>3 DEF Last
  <2>10. FillFromText(r) = Columns(part.fields)
    BY <2>5, <2>7, <2>8, <2>9 DEF FillFromText
  <2>11. Delivered(line, form, label) = [kind |-> "string", record |-> r]
    BY <1>6, <2>1 DEF Delivered
  <2> QED BY <1>1, <2>10, <2>11, Parses
<1>7. CASE form = "bare"
  <2>1. Body(line) = line
    BY <1>2 DEF Body, Labelled, Stamped
  <2>2. FillFromText(line) = Columns(part.fields)
    BY <1>2, <2>1 DEF FillFromText
  <2>3. Delivered(line, form, label) = [kind |-> "string", record |-> line]
    BY <1>7 DEF Delivered
  <2> QED BY <1>1, <2>2, <2>3, Parses
<1>8. CASE form \in {"envelope", "unlevelled"}
  <2>1. PICK level : Delivered(line, form, label) =
                        [kind |-> "object", level |-> level, message |-> line]
    <3>1. CASE form = "envelope"
      BY <3>1 DEF Delivered
    <3>2. CASE form = "unlevelled"
      BY <3>2 DEF Delivered
    <3> QED BY <1>8, <3>1, <3>2
  <2>2. ParseFunction([kind |-> "object", level |-> level, message |-> line])
           = Columns(line[1].fields)
    BY <1>2, Parses
  <2> QED BY <1>1, <1>2, <2>1, <2>2
<1> QED BY <1>4, <1>5, <1>6, <1>7, <1>8 DEF Forms

\* In every log format a record is read back, or left out for its level.
LEMMA RowOf ==
  ASSUME NEW logger, NEW t, NEW call, call.level \in DOMAIN LEVEL_ORDER,
         NEW form \in Forms, NEW label,
         NEW b, b = Delivered(<<Stringify(Record(logger, t, call))>>, form, label)
  PROVE  \E r : /\ Row(b) = IF LEVEL_ORDER[call.level] >= ConfigLevel(deployed) THEN r ELSE NoCall
                /\ IsRow(r, logger, t, call)
                /\ r # NoCall
<1>1. PICK part : part = Stringify(Record(logger, t, call))
  OBVIOUS
<1>2. PICK r : r = ParseFunction(b)
  OBVIOUS
<1>3. r = Columns(part.fields)
  BY <1>1, <1>2, WrittenOf, ReadBack
<1>4. IsRow(r, logger, t, call)
  BY <1>1, <1>3, WrittenOf, ColumnsOf
<1>5. r.level = call.level /\ "source" \in DOMAIN r
  BY <1>4 DEF IsRow
<1>6. ParseLevel(r.level) = LEVEL_ORDER[call.level] /\ LEVEL_ORDER[call.level] # Unknown
  <2>1. LEVEL_ORDER[call.level] \in Nat /\ ParseLevel(call.level) = LEVEL_ORDER[call.level]
    BY OrderFacts
  <2>2. Unknown \notin Nat
    BY DEF Unknown
  <2> QED BY <1>5, <2>1, <2>2
<1>7. ShouldInclude(r) <=> LEVEL_ORDER[call.level] >= ConfigLevel(deployed)
  BY <1>6 DEF ShouldInclude
<1>8. r # NoCall
  BY <1>5 DEF NoCall
<1> QED BY <1>2, <1>4, <1>7, <1>8 DEF Row

\* The body of a text is the text, or one of its ends.
LEMMA BodyOf ==
  ASSUME NEW S, NEW r \in Seq(S), r # <<>>
  PROVE  Body(r) # <<>> /\ Body(r) \in Seq(S) /\ Last(Body(r)) = Last(r)
<1>1. PICK n \in Nat : n = Len(r) /\ n >= 1
  BY LenProperties, EmptySeq
<1>2. ASSUME n > 1
      PROVE  /\ Tail(r) \in Seq(S) /\ Len(Tail(r)) = n - 1 /\ Last(Tail(r)) = Last(r)
             /\ Tail(r) # <<>>
  <2>1. /\ Tail(r) \in Seq(S) /\ Len(Tail(r)) = n - 1
        /\ \A i \in 1 .. n - 1 : Tail(r)[i] = r[i + 1]
    BY <1>1, HeadTailProperties
  <2>2. n - 1 \in 1 .. n - 1 /\ (n - 1) + 1 = n
    BY <1>1, <1>2
  <2>3. Tail(r)[n - 1] = r[n]
    BY <2>1, <2>2
  <2>4. Len(<<>>) = 0
    OBVIOUS
  <2> QED BY <1>1, <1>2, <2>1, <2>3, <2>4 DEF Last
<1>3. CASE Labelled(r)
  <2>1. n > 1 /\ n > 2
    BY <1>1, <1>3 DEF Labelled, Stamped
  <2>2. PICK s : s = Tail(r)
    OBVIOUS
  <2>3. s \in Seq(S) /\ Len(s) = n - 1 /\ Last(s) = Last(r) /\ s # <<>>
    BY <1>2, <2>1, <2>2
  <2>4. PICK m \in Nat : m = n - 1 /\ m > 1
    BY <1>1, <2>1
  <2>5. /\ Tail(s) \in Seq(S) /\ Len(Tail(s)) = m - 1
        /\ \A i \in 1 .. m - 1 : Tail(s)[i] = s[i + 1]
    BY <2>3, <2>4, HeadTailProperties
  <2>6. m - 1 \in 1 .. m - 1 /\ (m - 1) + 1 = m
    BY <2>4
  <2>7. Tail(s)[m - 1] = s[m]
    BY <2>5, <2>6
  <2>8. Len(<<>>) = 0
    OBVIOUS
  <2>9. Tail(s) # <<>> /\ Last(Tail(s)) = Last(s)
    <3>1. PICK rest : rest = Tail(s)
      OBVIOUS
    <3>2. Len(rest) = m - 1 /\ rest[m - 1] = s[m] /\ Len(s) = m
      BY <2>3, <2>4, <2>5, <2>7, <3>1
    <3>3. Last(rest) = Last(s)
      BY <3>2 DEF Last
    <3>4. rest # <<>>
      BY <2>4, <2>8, <3>2
    <3> QED BY <3>1, <3>3, <3>4
  <2>10. Body(r) = Tail(s)
    BY <1>3, <2>2 DEF Body
  <2> QED BY <2>3, <2>5, <2>9, <2>10
<1>4. CASE Stamped(r) /\ ~ Labelled(r)
  <2>1. n > 1
    BY <1>1, <1>4 DEF Stamped
  <2>2. Body(r) = Tail(r)
    BY <1>4 DEF Body
  <2> QED BY <1>2, <2>1, <2>2
<1>5. CASE ~ Stamped(r) /\ ~ Labelled(r)
  BY <1>5 DEF Body
<1> QED BY <1>3, <1>4, <1>5 DEF Labelled

\* A text becomes a structured row only if it ends in the sentinel.
LEMMA TextIs ==
  ASSUME NEW S, NEW r \in Seq(S), r # <<>>, ~ Sentinel(Last(r))
  PROVE  FillFromText(r) = [level |-> TextLevel(r), message |-> Body(r)]
<1>1. ASSUME NEW s \in Seq(S), Structured(s)
      PROVE  Sentinel(Last(s))
  BY <1>1 DEF Structured, Last
<1>2. ~ Structured(Body(r))
  BY <1>1, BodyOf
<1>3. ASSUME NEW i \in TabBraces(r) PROVE ~ Structured(SubSeq(r, i, Len(r)))
  <2>1. PICK n \in Nat : n = Len(r)
    BY LenProperties
  <2>2. i \in 2 .. n
    BY <2>1 DEF TabBraces
  <2>3. PICK s : s = SubSeq(r, i, n)
    OBVIOUS
  <2>4. \A j \in i .. n : r[j] \in S
    BY <2>1, <2>2, ElementOfSeq
  <2>5. /\ s \in Seq(S) /\ Len(s) = n - i + 1
        /\ \A j \in 1 .. n - i + 1 : s[j] = r[i + j - 1]
    BY <2>1, <2>2, <2>3, <2>4, SubSeqProperties
  <2>6. n - i + 1 \in 1 .. n - i + 1 /\ i + (n - i + 1) - 1 = n
    BY <2>2
  <2>7. Last(s) = Last(r)
    BY <2>1, <2>5, <2>6 DEF Last
  <2> QED BY <1>1, <2>1, <2>3, <2>5, <2>7
<1>4. ~ \E i \in FirstTabBrace(r) : Structured(SubSeq(r, i, Len(r)))
  BY <1>3 DEF FirstTabBrace
<1> QED BY <1>2, <1>4 DEF FillFromText

\* What is printed otherwise is kept as text.
LEMMA PrintedRow ==
  ASSUME NEW line, line \in Seq({line[i] : i \in DOMAIN line}), line # <<>>, line[1].is # "stamp",
         ~ Sentinel(Last(line)), NEW form \in Forms \cup {"other"}, NEW label,
         NEW r, r = ParseFunction(Delivered(line, form, label))
  PROVE  DOMAIN r = {"level", "message"} /\ TextOf(r, line, form)
<1>1. PICK S : S = {line[i] : i \in DOMAIN line} /\ line \in Seq(S)
  OBVIOUS
<1>2. PICK n \in Nat : n = Len(line) /\ n >= 1
  BY <1>1, LenProperties, EmptySeq
<1>3. CASE form = "prefixed"
  <2>1. PICK s : s = Cons(Word(label), line)
    OBVIOUS
  <2>2. PICK b : b = Cons(Stamp, s)
    OBVIOUS
  <2>3. /\ s \in Seq(S \cup {Word(label)}) /\ Len(s) = n + 1 /\ s[1] = Word(label)
        /\ Tail(s) = line /\ Last(s) = Last(line)
    <3>1. InFrontOf(Word(label), line, s, S)
      BY <1>1, <2>1, InFront
    <3> QED BY <1>2, <3>1 DEF InFrontOf
  <2>4. s # <<>> /\ 1 \in 1 .. Len(s)
    BY <1>2, <2>3
  <2>5. /\ b \in Seq((S \cup {Word(label)}) \cup {Stamp}) /\ Len(b) = n + 2 /\ b[1] = Stamp
        /\ Tail(b) = s /\ Last(b) = Last(line) /\ b[2] = Word(label)
    <3>1. InFrontOf(Stamp, s, b, S \cup {Word(label)})
      BY <2>2, <2>3, InFront
    <3>2. b[1 + 1] = s[1]
      BY <2>4, <3>1 DEF InFrontOf
    <3> QED BY <1>2, <2>3, <2>4, <3>1, <3>2 DEF InFrontOf
  <2>7. Labelled(b)
    BY <1>2, <2>5 DEF Labelled, Stamped, Stamp, Word
  <2>8. Body(b) = line /\ b # <<>>
    BY <1>2, <2>3, <2>5, <2>7 DEF Body
  <2>9. FillFromText(b) = [level |-> TextLevel(b), message |-> line]
    BY <2>5, <2>8, TextIs
  <2>10. Delivered(line, form, label) = [kind |-> "string", record |-> b]
    BY <1>3, <2>1, <2>2 DEF Delivered
  <2>11. r = [level |-> TextLevel(b), message |-> line]
    BY <2>9, <2>10, Parses
  <2> QED BY <2>11 DEF TextOf
<1>4. CASE form = "unlabelled"
  <2>1. PICK b : b = Cons(Stamp, line)
    OBVIOUS
  <2>2. /\ b \in Seq(S \cup {Stamp}) /\ Len(b) = n + 1 /\ b[1] = Stamp
        /\ Tail(b) = line /\ Last(b) = Last(line) /\ b[2] = line[1]
    <3>1. InFrontOf(Stamp, line, b, S)
      BY <1>1, <2>1, InFront
    <3>2. 1 \in 1 .. Len(line)
      BY <1>2
    <3>3. b[1 + 1] = line[1]
      BY <3>1, <3>2 DEF InFrontOf
    <3> QED BY <1>2, <3>1, <3>3 DEF InFrontOf
  <2>4. b # <<>> /\ Stamped(b)
    BY <1>2, <2>2 DEF Stamped, Stamp
  <2>5. Body(b) = IF Labelled(b) THEN Tail(line) ELSE line
    BY <2>2, <2>4 DEF Body
  <2>6. Labelled(b) => line[1].is = "word"
    BY <2>2 DEF Labelled
  <2>7. FillFromText(b) = [level |-> TextLevel(b), message |-> Body(b)]
    BY <2>2, <2>4, TextIs
  <2>8. Delivered(line, form, label) = [kind |-> "string", record |-> b]
    BY <1>4, <2>1 DEF Delivered
  <2>9. r = [level |-> TextLevel(b), message |-> Body(b)]
    BY <2>7, <2>8, Parses
  <2> QED BY <1>4, <2>5, <2>6, <2>9 DEF TextOf
<1>5. CASE form = "odd"
  <2>1. PICK b : b = Cons(Text(FALSE), line)
    OBVIOUS
  <2>2. /\ b \in Seq(S \cup {Text(FALSE)}) /\ Len(b) = n + 1 /\ b[1] = Text(FALSE)
        /\ Last(b) = Last(line)
    <3>1. InFrontOf(Text(FALSE), line, b, S)
      BY <1>1, <2>1, InFront
    <3> QED BY <1>2, <3>1 DEF InFrontOf
  <2>3. b # <<>> /\ Body(b) = b
    BY <1>2, <2>2 DEF Body, Labelled, Stamped, Text
  <2>4. FillFromText(b) = [level |-> TextLevel(b), message |-> b]
    BY <2>2, <2>3, TextIs
  <2>5. Delivered(line, form, label) = [kind |-> "string", record |-> b]
    BY <1>5, <2>1 DEF Delivered
  <2>6. r = [level |-> TextLevel(b), message |-> b]
    BY <2>4, <2>5, Parses
  <2>7. DOMAIN r = {"level", "message"} /\ r.message = b
    BY <2>6
  <2> QED BY <1>5, <2>1, <2>7 DEF TextOf
<1>6. CASE form = "bare"
  <2>1. Body(line) = line
    BY DEF Body, Labelled, Stamped
  <2>2. FillFromText(line) = [level |-> TextLevel(line), message |-> line]
    BY <1>1, <2>1, TextIs
  <2>3. Delivered(line, form, label) = [kind |-> "string", record |-> line]
    BY <1>6 DEF Delivered
  <2>4. r = [level |-> TextLevel(line), message |-> line]
    BY <2>2, <2>3, Parses
  <2> QED BY <2>4 DEF TextOf
<1>7. CASE form \in {"envelope", "unlevelled"}
  <2>1. PICK level : Delivered(line, form, label) =
                        [kind |-> "object", level |-> level, message |-> line]
    <3>1. CASE form = "envelope"
      BY <3>1 DEF Delivered
    <3>2. CASE form = "unlevelled"
      BY <3>2 DEF Delivered
    <3> QED BY <1>7, <3>1, <3>2
  <2>2. ~ Structured(line)
    BY DEF Structured, Last
  <2>3. PICK given : given = IF level = "" THEN "INFO" ELSE Upper(level)
    OBVIOUS
  <2>4. ParseFunction([kind |-> "object", level |-> level, message |-> line])
           = [level |-> given, message |-> line]
    BY <2>2, <2>3, Parses
  <2>5. r = [level |-> given, message |-> line]
    BY <2>1, <2>4
  <2> QED BY <2>5 DEF TextOf
<1>8. CASE form = "other"
  <2>1. Delivered(line, form, label) = [kind |-> "other", record |-> line]
    BY <1>8 DEF Delivered
  <2>2. r = [level |-> "INFO", message |-> line]
    BY <2>1, Parses
  <2> QED BY <2>2 DEF TextOf
<1> QED BY <1>3, <1>4, <1>5, <1>6, <1>7, <1>8 DEF Forms

\* Where no call was last there is nothing to show.
LEMMA LastForgotten ==
  ASSUME last' = NoCall
  PROVE  LastCall'
BY DEF LastCall, Isolation, LevelGoverns, RoundTrip, Emitted

\* A stutter changes nothing.
LEMMA LastSame ==
  ASSUME LastCall, UNCHANGED vars
  PROVE  LastCall'
BY DEF LastCall, Isolation, LevelGoverns, RoundTrip, Emitted, Stored, vars

\* A printed line becomes no record.
LEMMA LastPrinted ==
  ASSUME Stacks, PrintLine
  PROVE  LastCall'
<1>1. PICK line \in program.lines, form \in program.forms \cup {"other"},
           label \in DOMAIN LEVEL_ORDER \cup {"NOTICE"} :
         last' = [printed |-> line, form |-> form, row |-> Row(Delivered(line, form, label))]
  BY DEF PrintLine
<1>2. PICK row : row = Row(Delivered(line, form, label))
  OBVIOUS
<1>3. "call" \notin DOMAIN last' /\ last'.row = row /\ last'.printed = line /\ last'.form = form
  BY <1>1, <1>2
<1>4. ~ Emitted'
  BY <1>3 DEF Emitted
<1>5. Isolation' /\ LevelGoverns'
  BY <1>4 DEF Isolation, LevelGoverns
<1>6. form \in Forms \cup {"other"} /\ line \in Seq({line[i] : i \in DOMAIN line})
      /\ line # <<>> /\ line[1].is # "stamp"
  BY ProgramsAssumption DEF Stacks
<1>7. ASSUME row # NoCall, ~ Sentinel(Last(line))
      PROVE  DOMAIN row = {"level", "message"} /\ TextOf(row, line, form)
  <2>1. row = ParseFunction(Delivered(line, form, label))
    BY <1>2, <1>7 DEF Row
  <2> QED BY <1>6, <1>7, <2>1, PrintedRow
<1>8. RoundTrip'
  BY <1>3, <1>4, <1>7 DEF RoundTrip, Stored
<1> QED BY <1>5, <1>8 DEF LastCall

\* A call becomes what it was meant to.
LEMMA LastEmitted ==
  ASSUME Stacks, Loggers, NEW t \in Tasks, NEW n \in Names, Emit(t, n)
  PROVE  LastCall'
<1>1. PICK call \in program.calls, form \in program.forms :
         last' = [call |-> call, by |-> n, within |-> Last(within[t]),
                  row |-> IF Suppressed(loggers[n], call) \/ Throws(call) THEN NoCall
                          ELSE Row(Delivered(<<Stringify(Record(loggers[n], t, call))>>, form,
                                             StreamOf(call.level)))]
  BY DEF Emit
<1>2. PICK b : b = Delivered(<<Stringify(Record(loggers[n], t, call))>>, form, StreamOf(call.level))
  OBVIOUS
<1>4. /\ call.level \in DOMAIN LEVEL_ORDER /\ LEVEL_ORDER[call.level] \in Nat
      /\ form \in Forms
  BY ProgramsAssumption, OrderFacts DEF Stacks
<1>5. PICK r : /\ Row(b) = IF LEVEL_ORDER[call.level] >= ConfigLevel(deployed) THEN r ELSE NoCall
               /\ IsRow(r, loggers[n], t, call)
               /\ r # NoCall
  BY <1>2, <1>4, RowOf
<1>3. IsRow(r, loggers[n], t, call)
  BY <1>5
<1>6. PICK row : row = IF Suppressed(loggers[n], call) \/ Throws(call) THEN NoCall
                       ELSE IF LEVEL_ORDER[call.level] >= ConfigLevel(deployed) THEN r
                       ELSE NoCall
  OBVIOUS
<1>7. /\ last'.call = call /\ last'.by = n /\ last'.within = Last(within[t]) /\ last'.row = row
      /\ "call" \in DOMAIN last'
  BY <1>1, <1>2, <1>5, <1>6
<1>8. UNCHANGED <<program, deployed, loggers, origin>> /\ loggers[n] # NoLogger /\ Live(t)
  BY DEF Emit
<1>9. PICK from : from = origin[n]
  OBVIOUS
<1>10. AsAsked(loggers[n], from)
  BY <1>8, <1>9 DEF Loggers
<1>11. /\ origin'[last'.by] = from /\ (row # NoCall => row = r)
       /\ Stored' <=> row # NoCall
       /\ Emitted' => last' # NoCall
  BY <1>6, <1>7, <1>8, <1>9 DEF Stored, Emitted
<1>12. Isolation'
  <2>1. /\ "correlationId" \in DOMAIN from.options =>
               r.correlationId = from.options.correlationId
        /\ "correlationId" \notin DOMAIN from.options => r.correlationId = Ambient(t)
    BY <1>3, <1>10 DEF IsRow, AsAsked, Option
  <2>2. IF Last(within[t]) = 0 THEN Ambient(t) = NoId ELSE Ambient(t)[1] = Last(within[t])
    <3>1. Last(stack[t]) \in 0 .. runs /\ Last(within[t]) = Last(stack[t]) /\ runs \in Nat
      BY <1>8, TopOf DEF Stacks
    <3>2. Last(stack[t]) # 0 => store[Last(stack[t])][1] = Last(stack[t])
      BY <3>1 DEF Stacks
    <3> QED BY <3>1, <3>2 DEF Ambient
  <2>3. row # NoCall =>
           IF "correlationId" \in DOMAIN from.options
           THEN row.correlationId = from.options.correlationId
           ELSE IF last'.within = 0 THEN row.correlationId = NoId
                ELSE row.correlationId[1] = last'.within
    BY <1>7, <1>11, <2>1, <2>2
  <2> QED BY <1>7, <1>11, <2>3 DEF Isolation
<1>13. LevelGoverns'
  <2> SUFFICES ASSUME ~ Throws(call), Plain(deployed), Plain(from.env)
               PROVE  row # NoCall <=>
                        /\ LEVEL_ORDER[call.level] >=
                              LEVEL_ORDER[Option(from.options, "level", Named(from.env))]
                        /\ LEVEL_ORDER[call.level] >= LEVEL_ORDER[Named(deployed)]
    BY <1>7, <1>8, <1>11 DEF LevelGoverns
  <2>1. ConfigLevel(deployed) = LEVEL_ORDER[Named(deployed)]
    BY ConfigIsNamed
  <2>2. /\ loggers[n].level = Option(from.options, "level", Named(from.env))
        /\ LEVEL_ORDER[loggers[n].level] \in Nat
    BY <1>10, DefaultIsNamed, OrderFacts DEF AsAsked
  <2>3. Suppressed(loggers[n], call) <=>
           ~ (LEVEL_ORDER[call.level] >= LEVEL_ORDER[loggers[n].level])
    BY <1>4, <2>2 DEF Suppressed
  <2> QED BY <1>5, <1>6, <2>1, <2>2, <2>3
<1>14. RoundTrip'
  <2>1. row # NoCall =>
           /\ row.level = call.level /\ row.source = from.source /\ row.message = call.message
           /\ "caller" \in DOMAIN row <=>
                 call.site /\ Option(from.options, "captureCaller", TRUE)
           /\ "stackTrace" \in DOMAIN row <=> call.err = "Error"
           /\ "context" \in DOMAIN row <=> Context(call) # {}
           /\ "context" \in DOMAIN row =>
                 row.context = {entry \in Context(call) : entry[2] # "undefined"}
    BY <1>3, <1>10, <1>11 DEF IsRow, AsAsked, Option
  <2>2. Context(call) # {} <=> call.context # {} \/ call.err # "undefined"
    BY DEF Context
  <2>3. PICK kept : kept = {entry \in Context(call) : entry[2] # "undefined"}
    OBVIOUS
  <2>4. \A entry \in kept : \/ entry \in call.context /\ ~ Unwritten(call, entry)
                            \/ entry[1] = "error" /\ call.err # "undefined"
    BY <2>3 DEF Context, Unwritten
  <2>5. \A entry \in call.context : entry \in kept \/ Unwritten(call, entry)
    BY <2>3 DEF Context, Unwritten
  <2> QED BY <1>7, <1>8, <1>11, <2>1, <2>2, <2>3, <2>4, <2>5 DEF RoundTrip, Emitted
<1> QED BY <1>12, <1>13, <1>14 DEF LastCall

\* Each step keeps the properties of the last call.
LEMMA LastNext ==
  ASSUME Stacks, Loggers, LastCall, [Next]_vars
  PROVE  LastCall'
<1>1. ASSUME last = NoCall, NEW t \in Tasks,
             \/ \E u \in Others : Spawn(t, u)
             \/ RunWithCorrelationId(t) \/ Return(t) \/ SetCorrelationId(t)
      PROVE  last' = NoCall
  BY <1>1 DEF Spawn, RunWithCorrelationId, Enter, Return, SetCorrelationId
<1>2. ASSUME last = NoCall, NEW n \in Names, Create(n) \/ \E m \in Names : Derive(n, m)
      PROVE  last' = NoCall
  BY <1>2 DEF Create, Derive, Assign
<1>3. ASSUME last = NoCall, SetEnv
      PROVE  last' = NoCall
  BY <1>3 DEF SetEnv
<1>4. ASSUME Forget
      PROVE  last' = NoCall
  BY <1>4 DEF Forget
<1> QED BY <1>1, <1>2, <1>3, <1>4, LastForgotten, LastSame, LastPrinted, LastEmitted DEF Next

\* IInv is inductive.
LEMMA Inductive == Spec => []IInv
<1>1. Init => IInv
  <2>1. Init => LastCall
    BY DEF Init, LastCall, Isolation, LevelGoverns, RoundTrip, Emitted
  <2> QED BY <2>1, InitStacks, InitLoggers DEF IInv
<1>2. IInv /\ [Next]_vars => IInv'
  BY StacksNext, LoggersNext, LastNext DEF IInv
<1> QED BY <1>1, <1>2, PTL DEF Spec

\* Every variable keeps its type, and a task is in as many stores as runs.
THEOREM TypeCorrect == Spec => []TypeOK
<1>1. IInv => TypeOK
  <2> SUFFICES ASSUME IInv PROVE TypeOK
    OBVIOUS
  <2>1. \A t \in Tasks : stack[t] = within[t] /\ within[t] \in Seq(0 .. runs)
    BY DEF IInv, Stacks
  <2>2. \A n \in Names : loggers[n] # NoLogger => loggers[n].level \in DOMAIN LEVEL_ORDER
    BY DEF IInv, Loggers, AsAsked
  <2>3. Len(store) = runs
    BY DEF IInv, Stacks
  <2> QED BY <2>1, <2>2, <2>3 DEF IInv, Stacks, Loggers, TypeOK
<1> QED BY <1>1, Inductive, PTL

\* However runs nest, spawn, end and set ids, a record carries an id of the run
\* it is logged in, or the one its logger is pinned to, or none.
THEOREM ContextsIsolated == Spec => []Isolation
<1>1. IInv => Isolation
  BY DEF IInv, LastCall
<1> QED BY <1>1, Inductive, PTL

\* All tasks in one run see one id.
THEOREM RunsShareTheirId == Spec => []OneIdPerRun
<1>1. IInv => OneIdPerRun
  BY TopOf DEF IInv, OneIdPerRun, Ambient
<1> QED BY <1>1, Inductive, PTL

\* With variables that hold one of the four names, a record that can be written
\* as JSON becomes a row exactly if it is at the level its first logger was made
\* with and at that of the deployment.
THEOREM OneValueGoverns == Spec => []LevelGoverns
<1>1. IInv => LevelGoverns
  BY DEF IInv, LastCall
<1> QED BY <1>1, Inductive, PTL

\* A record that becomes a row has the columns of what was logged, found behind
\* any prefix or in the object of the JSON format, with the entries of its
\* context that JSON can hold; a line that was printed otherwise, and does not
\* end in an object with the sentinel, is kept whole as text.
THEOREM RecordsReadBack == Spec => []RoundTrip
<1>1. IInv => RoundTrip
  BY DEF IInv, LastCall
<1> QED BY <1>1, Inductive, PTL
=============================================================================
