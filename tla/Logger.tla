------------------------------- MODULE Logger -------------------------------
(***************************************************************************)
(* The logger package in a function, and the row its records become: the   *)
(* correlation id kept in an AsyncLocalStorage, the loggers and those      *)
(* derived from them, the level filter on both sides of stdout, and the    *)
(* extension's parser.                                                     *)
(*                                                                         *)
(* A task is a chain of asynchronous continuations; stack[t] is what       *)
(* AsyncLocalStorage (of Node, not of this repository) gives it: the store *)
(* it started with, and one more for each run it is inside of.             *)
(*                                                                         *)
(* A line of output is the sequence of its parts, which tabs separate: a   *)
(* word in capitals, a text, a text that begins with a brace, an object in *)
(* JSON.  The text of these, and the timestamp and request id of a row,    *)
(* are left out.  A record of the logger is one part, since JSON.stringify *)
(* writes a tab as an escape.                                              *)
(***************************************************************************)
EXTENDS Integers, SequencesExt

CONSTANTS
    Root,       \* the task of the runtime, which calls module and handler
    Others,     \* the tasks started by it and by each other
    Names,      \* variables of the program that hold a logger
    Programs    \* bounds: what a program does, see program

Tasks == {Root} \cup Others

VARIABLES
    program,    \* its tasks, runs, environments, sources, ...
    deployed,   \* the environment the function, and so the extension, got
    env,        \* process.env of the function
    stack,      \* stack[t]: stores by number, 0 for none; <<>> if not started
    store,      \* store[s]: the correlationId in store s
    runs,       \* calls of runWithCorrelationId so far
    within,     \* within[t]: the runs t is in, by number
    loggers,    \* loggers[n]: the logger in variable n, or NoLogger
    origin,     \* origin[n]: what was asked when it was made
    last        \* the last call, and the row it became

async == <<stack, store, runs, within>>
vars == <<program, deployed, env, async, loggers, origin, last>>

NoLogger == [none |-> TRUE]
NoCall == [none |-> TRUE]

Overlay(old, new) ==
    [f \in DOMAIN old \cup DOMAIN new |-> IF f \in DOMAIN new THEN new[f] ELSE old[f]]
Option(options, name, default) ==
    IF name \in DOMAIN options THEN options[name] ELSE default

-----------------------------------------------------------------------------
(* Levels *)

LEVEL_ORDER == [DEBUG |-> 0, INFO |-> 1, WARN |-> 2, ERROR |-> 3]

Upper(raw) ==
    CASE raw = "debug" -> "DEBUG" [] raw = "info"  -> "INFO"
      [] raw = "warn"  -> "WARN"  [] raw = "error" -> "ERROR"
      [] OTHER -> raw

\* defaultLevel: ?? passes over a variable that is not set, not an empty one.
DefaultLevel(e) ==
    LET raw == Option(e, "LOG_TO_S3_LEVEL", Option(e, "LOG_LEVEL", "INFO")) IN
    IF Upper(raw) \in DOMAIN LEVEL_ORDER THEN Upper(raw) ELSE "INFO"

\* ParseLevel of the extension, which has more names; Unknown if none.
Unknown == -1
ParseLevel(raw) ==
    CASE Upper(raw) \in {"DEBUG", "TRACE"}             -> 0
      [] Upper(raw) = "INFO"                           -> 1
      [] Upper(raw) \in {"WARN", "WARNING"}            -> 2
      [] Upper(raw) \in {"ERROR", "FATAL", "CRITICAL"} -> 3
      [] OTHER                                         -> Unknown

\* The level of loadConfig: firstNonEmpty passes over an empty variable.
ConfigLevel(e) ==
    LET FirstNonEmpty == IF Option(e, "LOG_TO_S3_LEVEL", "") # ""
                         THEN e["LOG_TO_S3_LEVEL"] ELSE Option(e, "LOG_LEVEL", "")
        level == ParseLevel(FirstNonEmpty)
    IN IF level = Unknown THEN 1 ELSE level

\* shouldInclude: a level it does not know is kept.
ShouldInclude(row) ==
    LET level == ParseLevel(row.level) IN
    level = Unknown \/ level >= ConfigLevel(deployed)

-----------------------------------------------------------------------------
(* The parser *)

\* An id is a pair, its first component the run it is for.  The empty string:
NoId == <<0, 0>>

\* Parts of a line: the timestamp and request id, a word, any other text.
Stamp == [is |-> "stamp"]
Word(word) == [is |-> "word", word |-> word]
Text(error) == [is |-> "text", error |-> error]
Brace(error) == [is |-> "brace", error |-> error]

\* An object.  Of the keys, logLevel, source, correlationId and caller stand
\* for those with two underscores; null and "" are as no key at all.
\* decodes: what there is under them has the types of StructuredFields.
Object(error, decodes, fields) ==
    [is |-> "object", error |-> error, decodes |-> decodes, fields |-> fields]

BeginsWithBrace(part) == part.is \in {"brace", "object"}

\* containsErrorWord, of one part.
MentionsError(part) ==
    \/ part.is = "word" /\ part.word = "ERROR"
    \/ part.is \in {"text", "brace", "object"} /\ part.error

\* When applyStructuredFields decodes body: one object, with the sentinel.
Sentinel(part) == part.is = "object" /\ part.decodes /\ "logLevel" \in DOMAIN part.fields
Structured(body) == Len(body) = 1 /\ Sentinel(body[1])

\* The columns it then copies.
Columns(fields) ==
    [c \in {"level", "source", "correlationId", "message"}
             \cup (DOMAIN fields \cap {"caller", "context", "stackTrace"}) |->
        CASE c = "level"         -> Upper(fields.logLevel)
          [] c = "source"        -> Option(fields, c, "")
          [] c = "correlationId" -> Option(fields, c, NoId)
          [] c = "message"       -> Option(fields, c, <<>>)
          [] OTHER               -> fields[c]]

\* What cwPrefixRe matches, the level being optional, and what follows it.
Stamped(record) == Len(record) > 1 /\ record[1].is = "stamp"
Labelled(record) == Stamped(record) /\ Len(record) > 2 /\ record[2].is = "word"
Body(record) ==
    CASE Labelled(record)                       -> Tail(Tail(record))
      [] Stamped(record) /\ ~ Labelled(record) -> Tail(record)
      [] OTHER                                  -> record

\* The level of a text: that of the prefix, or else by the word error.
TextLevel(record) ==
    LET level == IF Labelled(record) THEN record[2].word ELSE "INFO" IN
    IF level = "INFO" /\ \E i \in DOMAIN record : MentionsError(record[i])
    THEN "ERROR" ELSE level

\* The first tab and brace.
TabBraces(record) == {i \in 2 .. Len(record) : BeginsWithBrace(record[i])}
FirstTabBrace(record) == {i \in TabBraces(record) : \A j \in TabBraces(record) : i <= j}

\* Mutant: the record is cut at the last tab and brace, whatever is there.
FillFromTextCutting(record) ==
    LET cut == {i \in TabBraces(record) : \A j \in TabBraces(record) : j <= i}
        tail == IF cut = {} THEN Body(record)
                ELSE SubSeq(record, CHOOSE i \in cut : TRUE, Len(record))
    IN IF Structured(tail) THEN Columns(tail[1].fields)
       ELSE [level |-> TextLevel(record), message |-> tail]

\* fillFromText: a structured record after the prefix it knows, or from the
\* first tab and brace to the end; any other record is a text, kept whole.
FillFromText(record) ==
    IF Structured(Body(record)) THEN Columns(Body(record)[1].fields)
    ELSE IF \E i \in FirstTabBrace(record) : Structured(SubSeq(record, i, Len(record)))
         THEN Columns(Last(record).fields)
    ELSE [level |-> TextLevel(record), message |-> Body(record)]

\* parseFunction: a string; the object of the JSON log format, whose message,
\* a string or decoded, is looked at alike; or neither.
ParseFunction(b) ==
    CASE b.kind = "string" -> FillFromText(b.record)
      [] b.kind = "object" ->
            IF Structured(b.message) THEN Columns(b.message[1].fields)
            ELSE [level |-> IF b.level = "" THEN "INFO" ELSE Upper(b.level),
                  message |-> b.message]
      [] b.kind = "other"  -> [level |-> "INFO", message |-> b.record]

Forms == {"prefixed", "unlabelled", "odd", "bare", "envelope", "unlevelled"}

\* How the runtime may send a line: as text, with the prefix parse.go knows,
\* that without a level, another one or none; in the object of the JSON
\* format, with a level or without; or as a value that is neither.
Delivered(line, form, label) ==
    CASE form = "prefixed"   -> [kind |-> "string", record |-> Cons(Stamp, Cons(Word(label), line))]
      [] form = "unlabelled" -> [kind |-> "string", record |-> Cons(Stamp, line)]
      [] form = "odd"        -> [kind |-> "string", record |-> Cons(Text(FALSE), line)]
      [] form = "bare"       -> [kind |-> "string", record |-> line]
      [] form = "envelope"   -> [kind |-> "object", level |-> label, message |-> line]
      [] form = "unlevelled" -> [kind |-> "object", level |-> "", message |-> line]
      [] form = "other"      -> [kind |-> "other", record |-> line]

\* What a program logs with is a LogLevel, the type of these options and
\* arguments; what it prints begins with no timestamp and request id.
ASSUME ProgramsAssumption ==
    \A p \in Programs :
       /\ p.runs \in Nat
       /\ \A options \in p.options : Option(options, "level", "INFO") \in DOMAIN LEVEL_ORDER
       /\ \A call \in p.calls : call.level \in DOMAIN LEVEL_ORDER
       /\ \A line \in p.lines :
             /\ line \in Seq({line[i] : i \in DOMAIN line})
             /\ line # <<>> /\ line[1].is # "stamp"
       /\ p.forms \subseteq Forms

-----------------------------------------------------------------------------
(* Loggers *)

\* createStructuredLogger.
CreateStructuredLogger(source, options) ==
    [source |-> source, options |-> options,
     level |-> Option(options, "level", DefaultLevel(env))]

\* Mutant: child leaves the level to createStructuredLogger.
ChildRereading(logger, source) == CreateStructuredLogger(source, logger.options)

\* child.
Child(logger, source) ==
    CreateStructuredLogger(source, Overlay(logger.options, [level |-> logger.level]))

\* withCorrelationId.
WithCorrelationId(logger, id) ==
    CreateStructuredLogger(logger.source,
        Overlay(logger.options, [level |-> logger.level, correlationId |-> id]))

\* getCorrelationId() ?? ''
Ambient(t) == IF Last(stack[t]) = 0 THEN NoId ELSE store[Last(stack[t])]

\* The context that emit gets, as a set of <<key, value>>: error() adds its
\* own entry, in place of one the caller may have given.
Context(call) ==
    IF call.err = "undefined" THEN call.context
    ELSE {entry \in call.context : entry[1] # "error"} \cup {<<"error", "described">>}

\* The record of emit, with the fields it leaves out left out.
Record(logger, t, call) ==
    LET fields == [logLevel |-> call.level, source |-> logger.source,
                   correlationId |-> Option(logger.options, "correlationId", Ambient(t)),
                   message |-> call.message, caller |-> TRUE, context |-> Context(call),
                   stackTrace |-> TRUE]
        out == (IF call.site /\ Option(logger.options, "captureCaller", TRUE)
                THEN {} ELSE {"caller"})
          \cup (IF Context(call) # {} THEN {} ELSE {"context"})
          \cup (IF call.err = "Error" THEN {} ELSE {"stackTrace"})
    IN [f \in DOMAIN fields \ out |-> fields[f]]

\* JSON.stringify throws for a value that is circular, or a BigInt.
Throws(call) == \E entry \in Context(call) : entry[2] = "circular"

\* JSON.stringify: an entry whose value is undefined, or a function, is not
\* written; the object around it is.
Stringify(record) ==
    Object(record.logLevel = "ERROR", TRUE,
        [f \in DOMAIN record |-> IF f # "context" THEN record[f]
                                 ELSE {entry \in record[f] : entry[2] # "undefined"}])

Suppressed(logger, call) == LEVEL_ORDER[call.level] < LEVEL_ORDER[logger.level]

\* defaultWrite: console.error or console.log.
StreamOf(level) == IF level = "ERROR" THEN "ERROR" ELSE "INFO"

-----------------------------------------------------------------------------
Init ==
    /\ program \in Programs
    /\ deployed \in program.environments
    /\ env = deployed
    /\ stack = [t \in Tasks |-> IF t = Root THEN <<0>> ELSE <<>>]
    /\ store = <<>>
    /\ runs = 0
    /\ within = [t \in Tasks |-> IF t = Root THEN <<0>> ELSE <<>>]
    /\ loggers = [n \in Names |-> NoLogger]
    /\ origin = [n \in Names |-> NoLogger]
    /\ last = NoCall

Live(t) == stack[t] # <<>>

Ids(t) == {<<Last(within[t]), k>> : k \in 1 .. 2}

\* t starts u: the store is inherited.
Spawn(t, u) ==
    /\ Live(t) /\ ~ Live(u) /\ u \in program.tasks
    /\ stack' = [stack EXCEPT ![u] = <<Last(stack[t])>>]
    /\ within' = [within EXCEPT ![u] = <<Last(within[t])>>]
    /\ UNCHANGED <<program, deployed, env, store, runs, loggers, origin, last>>

Enter(t) ==
    /\ Live(t)
    /\ runs < program.runs
    /\ runs' = runs + 1
    /\ within' = [within EXCEPT ![t] = Append(@, runs + 1)]
    /\ UNCHANGED <<program, deployed, env, loggers, origin, last>>

\* Mutant: the store of the surrounding task is left for good.
RunWithCorrelationIdForGood(t) ==
    /\ Enter(t)
    /\ \E k \in 1 .. 2 : store' = Append(store, <<runs + 1, k>>)
    /\ stack' = [stack EXCEPT ![t] = <<Len(store) + 1>>]

\* t calls runWithCorrelationId and goes on inside: a new store.
RunWithCorrelationId(t) ==
    /\ Enter(t)
    /\ \E k \in 1 .. 2 : store' = Append(store, <<runs + 1, k>>)
    /\ stack' = [stack EXCEPT ![t] = Append(@, Len(store) + 1)]

\* The function it called returns or throws, and t goes on outside.
Return(t) ==
    /\ Len(within[t]) > 1
    /\ stack' = [stack EXCEPT ![t] = SubSeq(@, 1, Len(@) - 1)]
    /\ within' = [within EXCEPT ![t] = SubSeq(@, 1, Len(@) - 1)]
    /\ UNCHANGED <<program, deployed, env, store, runs, loggers, origin, last>>

\* Mutant: a context that has no store gets one.
SetCorrelationIdCreating(t) ==
    /\ Live(t)
    /\ \E id \in Ids(t) :
          IF Last(stack[t]) = 0
          THEN /\ Len(store) < 4
               /\ store' = Append(store, id)
               /\ stack' = [stack EXCEPT ![t][Len(stack[t])] = Len(store) + 1]
          ELSE store' = [store EXCEPT ![Last(stack[t])] = id] /\ UNCHANGED stack
    /\ UNCHANGED <<program, deployed, env, runs, within, loggers, origin, last>>

\* Mutant: the context of the caller gets a new store.
SetCorrelationIdReplacing(t) ==
    /\ Live(t)
    /\ \E id \in Ids(t) :
          IF Last(stack[t]) = 0 THEN UNCHANGED <<store, stack>>
          ELSE /\ Len(store) < 4
               /\ store' = Append(store, id)
               /\ stack' = [stack EXCEPT ![t][Len(stack[t])] = Len(store) + 1]
    /\ UNCHANGED <<program, deployed, env, runs, within, loggers, origin, last>>

\* setCorrelationId: the store is changed; without one nothing happens.
SetCorrelationId(t) ==
    /\ Live(t)
    /\ \E id \in Ids(t) :
          IF Last(stack[t]) = 0 THEN UNCHANGED store
          ELSE store' = [store EXCEPT ![Last(stack[t])] = id]
    /\ UNCHANGED <<program, deployed, env, stack, runs, within, loggers, origin, last>>

\* The program assigns to process.env, once.
SetEnv ==
    /\ env = deployed
    /\ env' \in program.environments \ {env}
    /\ UNCHANGED <<program, deployed, async, loggers, origin, last>>

\* A logger is put into variable n.
Assign(n, logger, from) ==
    /\ loggers' = [loggers EXCEPT ![n] = logger]
    /\ origin' = [origin EXCEPT ![n] = from]
    /\ UNCHANGED <<program, deployed, env, async, last>>

Create(n) ==
    /\ loggers[n] = NoLogger
    /\ \E source \in program.sources, options \in program.options :
          Assign(n, CreateStructuredLogger(source, options),
                 [source |-> source, options |-> options, env |-> env])

\* A logger is derived from the one in m.
Derive(n, m) ==
    /\ loggers[n] = NoLogger /\ loggers[m] # NoLogger
    /\ \/ \E source \in program.sources :
             Assign(n, Child(loggers[m], source), [origin[m] EXCEPT !.source = source])
       \/ Assign(n, WithCorrelationId(loggers[m], <<0, 1>>),
                 [origin[m] EXCEPT !.options = Overlay(@, [correlationId |-> <<0, 1>>])])

\* What the extension makes of a line on stdout.
Row(b) == IF ShouldInclude(ParseFunction(b)) THEN ParseFunction(b) ELSE NoCall

\* t calls debug, info, warn or error of the logger in n.  If that throws, it
\* throws at t, and nothing is written.
Emit(t, n) ==
    /\ Live(t) /\ loggers[n] # NoLogger
    /\ \E call \in program.calls, form \in program.forms :
          LET line == <<Stringify(Record(loggers[n], t, call))>> IN
          last' = [call |-> call, by |-> n, within |-> Last(within[t]),
                   row |-> IF Suppressed(loggers[n], call) \/ Throws(call) THEN NoCall
                           ELSE Row(Delivered(line, form, StreamOf(call.level)))]
    /\ UNCHANGED <<program, deployed, env, async, loggers, origin>>

\* Something else prints a line.
PrintLine ==
    /\ \E line \in program.lines, form \in program.forms \cup {"other"},
          label \in DOMAIN LEVEL_ORDER \cup {"NOTICE"} :
          last' = [printed |-> line, form |-> form, row |-> Row(Delivered(line, form, label))]
    /\ UNCHANGED <<program, deployed, env, async, loggers, origin>>

\* last is for the properties only, and does not stay.
Forget ==
    /\ last # NoCall
    /\ last' = NoCall
    /\ UNCHANGED <<program, deployed, env, async, loggers, origin>>

Next ==
    \/ /\ last = NoCall
       /\ \/ \E t \in Tasks :
                \/ \E u \in Others : Spawn(t, u)
                \/ RunWithCorrelationId(t) \/ Return(t) \/ SetCorrelationId(t)
                \/ \E n \in Names : Emit(t, n)
          \/ \E n \in Names : Create(n) \/ \E m \in Names : Derive(n, m)
          \/ SetEnv
          \/ PrintLine
    \/ Forget

Spec == Init /\ [][Next]_vars

-----------------------------------------------------------------------------
(* Properties *)

\* Types; and a task is in as many stores as it is in runs.
TypeOK ==
    /\ program \in Programs
    /\ {deployed, env} \subseteq program.environments
    /\ runs \in 0 .. program.runs
    /\ \A t \in Tasks :
          /\ Len(stack[t]) = Len(within[t])
          /\ stack[t] \in Seq(0 .. Len(store))
          /\ within[t] \in Seq(0 .. runs)
    /\ \A n \in Names : loggers[n] # NoLogger => loggers[n].level \in DOMAIN LEVEL_ORDER

Emitted == last # NoCall /\ "call" \in DOMAIN last
Stored == last.row # NoCall

\* No context sees the correlation id of another: a record logged inside a run
\* carries an id given in that run, also when runs nest, end, or go on in tasks
\* of their own; outside a run it carries none; and a logger pinned to an id,
\* and what is derived from it, carries that one.
Isolation ==
    Emitted /\ Stored =>
       LET options == origin[last.by].options
           id == last.row.correlationId
       IN IF "correlationId" \in DOMAIN options THEN id = options.correlationId
          ELSE IF last.within = 0 THEN id = NoId ELSE id[1] = last.within

\* A new id "of the current context" is that of every task in the same run,
\* whichever of them sets it.
OneIdPerRun ==
    \A t, u \in {s \in Tasks : Live(s)} :
       Last(within[t]) = Last(within[u]) => Ambient(t) = Ambient(u)

Plain(e) == \A v \in DOMAIN e : Upper(e[v]) \in DOMAIN LEVEL_ORDER
Named(e) == Upper(Option(e, "LOG_TO_S3_LEVEL", Option(e, "LOG_LEVEL", "INFO")))

\* "The same value governs both the logger and the extension": with variables
\* that hold one of the four names, a record that can be written as JSON
\* becomes a row if and only if it is
\* at the level its logger, or the one that was derived from, was made with,
\* and at the level of the deployment; process.env is not read again.
LevelGoverns ==
    Emitted /\ ~ Throws(last.call) /\ Plain(deployed) /\ Plain(origin[last.by].env) =>
       LET from == origin[last.by]
           level == LEVEL_ORDER[last.call.level]
       IN Stored <=> /\ level >= LEVEL_ORDER[Option(from.options, "level", Named(from.env))]
                     /\ level >= LEVEL_ORDER[Named(deployed)]

\* Text of a line, unless the parser took a word at its beginning for the level.
TextOf(row, line, form) ==
    \/ row.message = line
    \/ form = "odd" /\ row.message = Cons(Text(FALSE), line)
    \/ form = "unlabelled" /\ line[1].is = "word" /\ row.message = Tail(line)

\* Of a context, what is not a value in JSON, and what error() puts its own in
\* place of.
Unwritten(call, entry) ==
    \/ entry[2] = "undefined"
    \/ entry[1] = "error" /\ call.err # "undefined"

\* The two halves of the wire contract.  In every log format a record of the
\* logger that becomes a row has the columns of what was logged, and of the
\* context what JSON can hold.  A line that something else printed, and that
\* does not end in an object with the sentinel, has no such columns, and is
\* "kept whole", objects and braces and all.
RoundTrip ==
    last # NoCall /\ Stored =>
       IF ~ Emitted
       THEN ~ Sentinel(Last(last.printed)) =>
               /\ DOMAIN last.row = {"level", "message"}
               /\ TextOf(last.row, last.printed, last.form)
       ELSE LET from == origin[last.by]
                call == last.call
                Has(column) == column \in DOMAIN last.row
            IN /\ last.row.level = call.level
               /\ last.row.source = from.source
               /\ last.row.message = call.message
               /\ Has("caller") <=> call.site /\ Option(from.options, "captureCaller", TRUE)
               /\ Has("stackTrace") <=> call.err = "Error"
               /\ Has("context") <=> call.context # {} \/ call.err # "undefined"
               /\ Has("context") =>
                     /\ \A entry \in last.row.context :
                           \/ entry \in call.context /\ ~ Unwritten(call, entry)
                           \/ entry[1] = "error" /\ call.err # "undefined"
                     /\ \A entry \in call.context :
                           entry \in last.row.context \/ Unwritten(call, entry)
=============================================================================
