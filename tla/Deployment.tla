----------------------------- MODULE Deployment -----------------------------
(***************************************************************************)
(* A CDK app that uses the constructs of src/, and what the two Go         *)
(* binaries make of the result.  The app builds extensions, attaches them  *)
(* to functions, lays a table over the logs and schedules the compactor,   *)
(* in any order; the binaries later read the environment variables the     *)
(* constructs have left.  A call that throws may be caught: what it did    *)
(* before stays, and the app goes on.                                      *)
(*                                                                         *)
(* Abstractions.  A string is a sequence of tokens where a property looks  *)
(* into it (key prefixes), a value otherwise.  An environment variable is  *)
(* named by the option it carries, as the names in ENV are.  Optional      *)
(* options are fields a record may lack.  Durations are milliseconds.      *)
(***************************************************************************)
EXTENDS Integers, Sequences, FiniteSets, FiniteSetsExt, SequencesExt

CONSTANTS
    Functions,     \* the lambda.Functions of the app
    Arch,          \* Arch[f]: f's architecture
    OwnEnvs,       \* the environments a function may have from elsewhere
    OwnLayers,     \* the layers it may have from elsewhere
    Extensions,    \* the ILogToS3Extensions of the app
    Props,         \* what LogToS3Extension may be constructed with
    Attributes,    \* what fromAttributes may be called with
    Options,       \* LogToS3AttachOptions
    MaxLayers,     \* how many layers Lambda allows a function
    MaxAttachCalls \* bound: calls of attachTo

ASSUME ArchAssumption == Arch \in [Functions -> {"arm64", "x86_64"}]
ASSUME LimitsAssumption ==
    /\ MaxLayers \in Nat \ {0}
    /\ MaxAttachCalls \in Nat
    /\ IsFiniteSet(Extensions)

VARIABLES
    extension,   \* extension[e]: what it was built from, or None
    attached,    \* attached[e]: its private set of that name
    layers,      \* layers[f], in order
    env,         \* env[f]: the environment variables of f
    grants,      \* grants[f]: <<bucket, prefix>>s f may put objects under
    effective,   \* effective[f]: the attachments that were not cut short
    calls,       \* calls of attachTo so far
    analytics,   \* the LogAnalytics, or None
    readers,     \* the <<bucket, prefix>>s a grantee of grantQuery may read
    compaction   \* the LogCompaction, or None

fns == <<attached, layers, env, grants, effective, calls>>
vars == <<extension, fns, analytics, readers, compaction>>

-----------------------------------------------------------------------------
(* Prefixes *)

None == [none |-> TRUE]

\* s without the run of t's at either end.
Strip(s, t) ==
    SubSeq(s, Min({i \in DOMAIN s : s[i] # t} \cup {Len(s) + 1}),
              Max({i \in DOMAIN s : s[i] # t} \cup {0}))

\* The same function in src/private/env.ts and in internal/layout.
NormalizePrefix(prefix) ==
    LET trimmed == Strip(Strip(prefix, " "), "/") IN
    IF trimmed = <<>> THEN <<>> ELSE Append(trimmed, "/")

DEFAULT_KEY_PREFIX == <<"logs", "/">>

Option(options, name, default) ==
    IF name \in DOMAIN options THEN options[name] ELSE default

\* The type of the options: the bucket is required.
ASSUME PropsAssumption ==
    \A props \in Props \cup Attributes :
       /\ "logsBucket" \in DOMAIN props
       /\ Option(props, "keyPrefix", DEFAULT_KEY_PREFIX) \in Seq(STRING)

\* The key prefix of a construct.
KeyPrefix(props) == NormalizePrefix(Option(props, "keyPrefix", DEFAULT_KEY_PREFIX))

-----------------------------------------------------------------------------
(* LogToS3Extension *)

Always == {"logsBucket", "keyPrefix", "logLevel", "compression"}
Tuning == {"telemetryPort", "flushInterval", "maxBufferSize",
           "includePlatformReport", "runtimeDoneWait", "extensionDebug"}

\* What comes from elsewhere is not the package's: no such variable, no such
\* layer, and no more layers than Lambda allows.
ASSUME OwnAssumption ==
    /\ \A own \in OwnEnvs : DOMAIN own \cap (Always \cup Tuning) = {}
    /\ \A own \in OwnLayers :
          /\ own \in Seq(Range(own)) /\ Len(own) <= MaxLayers
          /\ Range(own) \cap Extensions = {}
          /\ \A attributes \in Props \cup Attributes :
                "layerVersionArn" \in DOMAIN attributes =>
                    attributes.layerVersionArn \notin Range(own)

\* Mutant: a wait of zero is taken for none given.
BuildEnvironmentTruthy(props) ==
    [v \in Always \cup {t \in Tuning \cap DOMAIN props :
                          t = "runtimeDoneWait" => props[t] > 0} |->
        CASE v = "keyPrefix"     -> KeyPrefix(props)
          [] v = "logLevel"      -> Option(props, v, "INFO")
          [] v = "compression"   -> Option(props, v, "snappy")
          [] v = "flushInterval" -> props[v] \div 1000
          [] OTHER               -> props[v]]

\* Four variables always, the others when the option is given.
BuildEnvironment(props) ==
    [v \in Always \cup (Tuning \cap DOMAIN props) |->
        CASE v = "keyPrefix"     -> KeyPrefix(props)
          [] v = "logLevel"      -> Option(props, v, "INFO")
          [] v = "compression"   -> Option(props, v, "snappy")
          [] v = "flushInterval" -> props[v] \div 1000
          [] OTHER               -> props[v]]

\* What makes buildEnvironment throw: less than a second, or, in toSeconds,
\* a fraction of one.
BadFlushInterval(props) ==
    /\ "flushInterval" \in DOMAIN props
    /\ props.flushInterval < 1000 \/ props.flushInterval % 1000 # 0

ArchOf(props) == Option(props, "architecture", "arm64")
Built == {e \in Extensions : extension[e] # None}

\* Its layer: an owned one is a layer version of its own.
LayerOf(e) == IF "layerVersionArn" \in DOMAIN extension[e]
              THEN extension[e].layerVersionArn ELSE e

Place(props) == <<props.logsBucket, KeyPrefix(props)>>

-----------------------------------------------------------------------------
(* What the binaries read *)

\* getEnv: a variable that is empty counts as unset.
ResolvedPrefix(environment) ==
    LET raw == environment.keyPrefix IN
    NormalizePrefix(IF raw = <<>> THEN DEFAULT_KEY_PREFIX ELSE raw)

\* Where a binary with this environment reads and writes objects.
Target(environment) == <<environment.logsBucket, ResolvedPrefix(environment)>>

Settings == {"logLevel", "compression"} \cup Tuning

DefaultSetting(v) ==
    CASE v = "logLevel"              -> "INFO"
      [] v = "compression"           -> "snappy"
      [] v = "telemetryPort"         -> 2020
      [] v = "flushInterval"         -> 15
      [] v = "maxBufferSize"         -> 10 * 1024 * 1024
      [] v = "includePlatformReport" -> TRUE
      [] v = "runtimeDoneWait"       -> 1000
      [] v = "extensionDebug"        -> FALSE

\* Which numbers loadConfig accepts.
Accepts(v, value) ==
    CASE v \in {"flushInterval", "maxBufferSize"} -> value > 0
      [] v = "runtimeDoneWait"                    -> value >= 0
      [] OTHER                                    -> TRUE

\* A setting of loadConfig.  LOG_LEVEL stands in for a missing level.
LoadConfig(environment, v) ==
    IF v \in DOMAIN environment /\ Accepts(v, environment[v])
    THEN environment[v]
    ELSE IF v = "logLevel" /\ "LOG_LEVEL" \in DOMAIN environment
         THEN environment["LOG_LEVEL"] ELSE DefaultSetting(v)

-----------------------------------------------------------------------------
Init ==
    /\ extension = [e \in Extensions |-> None]
    /\ attached = [e \in Extensions |-> {}]
    /\ layers \in [Functions -> OwnLayers]
    /\ env \in [Functions -> OwnEnvs]
    /\ grants = [f \in Functions |-> {}]
    /\ effective = [f \in Functions |-> <<>>]
    /\ calls = 0
    /\ analytics = None
    /\ readers = {}
    /\ compaction = None

\* new LogToS3Extension, or fromAttributes for a layer made elsewhere.
BuildExtension(e) ==
    /\ extension[e] = None
    /\ \E props \in Props \cup Attributes :
          /\ ~ BadFlushInterval(props)
          /\ extension' = [extension EXCEPT ![e] = props]
    /\ UNCHANGED <<fns, analytics, readers, compaction>>

Overlay(old, new) ==
    [v \in DOMAIN old \cup DOMAIN new |-> IF v \in DOMAIN new THEN new[v] ELSE old[v]]

\* The variables attach sets: the extension's, and the override of the level.
AttachedEnv(props, options) ==
    Overlay(BuildEnvironment(props),
            [v \in DOMAIN options \cap {"logLevel"} |-> options[v]])

Call(e) ==
    /\ calls < MaxAttachCalls
    /\ e \in Built
    /\ calls' = calls + 1
    /\ UNCHANGED <<extension, analytics, readers, compaction>>

\* What attach compares first.
Fits(e, f) == ArchOf(extension[e]) = Arch[f]
New(e, f) == Fits(e, f) /\ f \notin attached[e]
HasRoom(f) == Len(layers[f]) < MaxLayers

\* The effects of an attach that goes through.
Wire(e, f, newLayers, place) ==
    \E o \in Options :
       /\ attached' = [attached EXCEPT ![e] = @ \cup {f}]
       /\ layers' = [layers EXCEPT ![f] = newLayers]
       /\ env' = [env EXCEPT ![f] = Overlay(@, AttachedEnv(extension[e], o))]
       /\ grants' = [grants EXCEPT ![f] =
             @ \cup IF Option(o, "grantWrite", TRUE) THEN {place} ELSE {}]
       /\ effective' = [effective EXCEPT ![f] = Append(@, <<e, o>>)]

Added(e, f) == Append(layers[f], LayerOf(e))

\* Mutant: attach does not compare the architectures.
AttachForeign(e, f) ==
    /\ Call(e)
    /\ f \notin attached[e] /\ HasRoom(f)
    /\ Wire(e, f, Added(e, f), Place(extension[e]))

\* Mutant: attach does not look whether it was called before.
AttachAgain(e, f) ==
    /\ Call(e)
    /\ Fits(e, f) /\ HasRoom(f)
    /\ Wire(e, f, Added(e, f), Place(extension[e]))

\* Mutant: the layers are assigned, not added to.
AttachReplacing(e, f) ==
    /\ Call(e)
    /\ New(e, f)
    /\ Wire(e, f, <<LayerOf(e)>>, Place(extension[e]))

\* Mutant: the grant is on the prefix as it was given.
AttachGrantingRaw(e, f) ==
    /\ Call(e)
    /\ New(e, f) /\ HasRoom(f)
    /\ Wire(e, f, Added(e, f), <<extension[e].logsBucket,
             Option(extension[e], "keyPrefix", DEFAULT_KEY_PREFIX)>>)

\* attach goes through: the layer, every variable, the grant.
Attach(e, f) ==
    /\ Call(e)
    /\ New(e, f) /\ HasRoom(f)
    /\ Wire(e, f, Added(e, f), Place(extension[e]))

\* Mutant: the architectures are compared when the layer is already added.
AttachRefusedLate(e, f) ==
    /\ Call(e)
    /\ ~ Fits(e, f) /\ HasRoom(f)
    /\ layers' = [layers EXCEPT ![f] = Added(e, f)]
    /\ UNCHANGED <<attached, env, grants, effective>>

\* attach throws, since the architectures differ, or returns at once, since
\* this instance has seen the function.
AttachRefused(e, f) ==
    /\ Call(e)
    /\ ~ New(e, f)
    /\ UNCHANGED <<attached, layers, env, grants, effective>>

\* addLayers throws; the function is already in the set, so that another call
\* of attachTo does nothing.
AttachThrows(e, f) ==
    /\ Call(e)
    /\ New(e, f) /\ ~ HasRoom(f)
    /\ attached' = [attached EXCEPT ![e] = @ \cup {f}]
    /\ UNCHANGED <<layers, env, grants, effective>>

\* The two ways to the props of the table and the compactor: fromExtension,
\* or the same options given to both constructs.
SharedProps(e) ==
    {[logsBucket |-> extension[e].logsBucket, keyPrefix |-> KeyPrefix(extension[e])],
     [v \in {"logsBucket", "keyPrefix"} \cap DOMAIN extension[e] |-> extension[e][v]]}

\* Mutant: the table is over the prefix as it was given.
BuildAnalyticsRaw(e) ==
    /\ analytics = None
    /\ e \in Built
    /\ \E props \in SharedProps(e) :
          analytics' = [of |-> e, location |->
             <<props.logsBucket, Option(props, "keyPrefix", DEFAULT_KEY_PREFIX)>>]
    /\ UNCHANGED <<extension, fns, readers, compaction>>

\* new LogAnalytics: the location of the table.
BuildAnalytics(e) ==
    /\ analytics = None
    /\ e \in Built
    /\ \E props \in SharedProps(e) :
          analytics' = [of |-> e, location |-> Place(props)]
    /\ UNCHANGED <<extension, fns, readers, compaction>>

\* grantQuery: read access under the prefix of the table.
GrantQuery ==
    /\ analytics # None
    /\ readers' = readers \cup {analytics.location}
    /\ UNCHANGED <<extension, fns, analytics, compaction>>

\* new LogCompaction: the variables and the grants of its function.
BuildCompaction(e) ==
    /\ compaction = None
    /\ e \in Built
    /\ \E props \in SharedProps(e) :
          compaction' = [of |-> e,
             env |-> [logsBucket |-> props.logsBucket, keyPrefix |-> KeyPrefix(props)],
             grant |-> Place(props)]
    /\ UNCHANGED <<extension, fns, analytics, readers>>

Next ==
    \/ \E e \in Extensions :
          \/ BuildExtension(e) \/ BuildAnalytics(e) \/ BuildCompaction(e)
          \/ \E f \in Functions : Attach(e, f) \/ AttachRefused(e, f) \/ AttachThrows(e, f)
    \/ GrantQuery

Spec == Init /\ [][Next]_vars

-----------------------------------------------------------------------------
(* Properties *)

\* Types; and an instance has attached functions of its architecture only.
TypeOK ==
    /\ \A e \in Built : extension[e] \in Props \cup Attributes
    /\ attached \in [Extensions -> SUBSET Functions]
    /\ \A e \in Extensions : \A f \in attached[e] : Fits(e, f)
    /\ \A f \in Functions : Len(layers[f]) <= MaxLayers
    /\ \A f \in Functions : \A i \in DOMAIN effective[f] :
          effective[f][i] \in Built \X Options
    /\ calls \in 0 .. MaxAttachCalls

Latest(f) == effective[f][Len(effective[f])]

\* A prefix that the second normalisation, in the binary, leaves alone.
Stable(props) == NormalizePrefix(KeyPrefix(props)) = KeyPrefix(props)

\* A grant on a prefix covers what begins with it.
Covers(place, target) == place[1] = target[1] /\ IsPrefix(place[2], target[2])

\* The package's variables an attachment of an extension sets.
Sets(props, v) == v \in Always \cup (Tuning \cap DOMAIN props)

\* However calls repeat, throw and are repeated after a throw, these are the
\* same extensions: those whose layer a function carries, those whose
\* variables it has, and those whose place it may write to, unless declined.
\* No layer without its environment, no environment without the binary that
\* reads it, no grant for a binary that is not there.
NoHalfAttachment ==
    \A f \in Functions :
       LET attachments == Range(effective[f]) IN
       /\ Range(layers[f]) \cap {LayerOf(e) : e \in Built} =
             {LayerOf(a[1]) : a \in attachments}
       /\ DOMAIN env[f] \cap (Always \cup Tuning) =
             {v \in Always \cup Tuning : \E a \in attachments : Sets(extension[a[1]], v)}
       /\ grants[f] = {Place(extension[a[1]]) :
                         a \in {b \in attachments : Option(b[2], "grantWrite", TRUE)}}

\* "Attaching twice would add the layer twice and produce an invalid
\* template": one instance adds its layer once.  Two instances for one layer
\* ARN count as two.
LayerOncePerInstance ==
    \A f \in Functions : \A e \in Built :
       Cardinality({i \in DOMAIN layers[f] : layers[f][i] = LayerOf(e)})
          <= Cardinality({d \in Built : f \in attached[d] /\ LayerOf(d) = LayerOf(e)})

\* A function may write where its binary, by its environment, does write,
\* whatever else was attached before; unless the app declined the grant, or
\* gave a prefix that begins with slashes and a blank.
TargetWritable ==
    \A f \in Functions :
       /\ effective[f] # <<>>
       /\ Option(Latest(f)[2], "grantWrite", TRUE)
       /\ Stable(extension[Latest(f)[1]])
       => \E p \in grants[f] : Covers(p, Target(env[f]))

\* The table, its readers and the compactor are where the functions write.
\* An empty prefix is not: the binaries read it as the default.
OnePlace ==
    \A f \in Functions :
       LET e == Latest(f)[1] IN
       effective[f] # <<>> /\ Stable(extension[e]) =>
          /\ compaction # None /\ compaction.of = e =>
                /\ Target(compaction.env) = Target(env[f])
                /\ Covers(compaction.grant, Target(env[f]))
          /\ analytics # None /\ analytics.of = e /\ KeyPrefix(extension[e]) # <<>> =>
                /\ analytics.location = Target(env[f])
                /\ \A r \in readers : Covers(r, Target(env[f]))

\* What the documentation of the options promises for a.
Asked(a, v) ==
    CASE v = "logLevel" -> Option(a[2], v, Option(extension[a[1]], v, "INFO"))
      [] v = "flushInterval" -> extension[a[1]][v] \div 1000
      [] OTHER -> Option(extension[a[1]], v, DefaultSetting(v))

\* Each setting the extension runs with is the one asked for by the last
\* attachment that sets it, or the documented default: none "silently does
\* nothing", zero and false included.  A buffer of no bytes is not accepted.
SettingsArrive ==
    \A f \in Functions : \A v \in Settings :
       LET setting == {i \in DOMAIN effective[f] : Sets(extension[effective[f][i][1]], v)}
           asked == IF setting = {} THEN DefaultSetting(v)
                    ELSE Asked(effective[f][Max(setting)], v)
       IN effective[f] # <<>> /\ Accepts(v, asked) => LoadConfig(env[f], v) = asked

\* "addLayers is additive": attaching takes nothing from a function.
Additive ==
    [][\A f \in Functions :
          /\ IsPrefix(layers[f], layers'[f])
          /\ grants[f] \subseteq grants'[f]
          /\ DOMAIN env[f] \subseteq DOMAIN env'[f]]_vars
=============================================================================
