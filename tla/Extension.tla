----------------------------- MODULE Extension -----------------------------
(***************************************************************************)
(* The Lambda extension of extension-go in one execution environment,      *)
(* from its start to its exit: registration, subscription and event loop   *)
(* of main, the HTTP handler the Telemetry API posts to, the goroutine of  *)
(* the two flush tickers, and the buffer they share.                       *)
(*                                                                         *)
(* Around them stand Lambda, which freezes the environment once the        *)
(* runtime has responded and the extension has asked for the next event,   *)
(* its Telemetry API, which delivers in order while the environment is     *)
(* thawed, and S3, which accepts or refuses an upload.                     *)
(*                                                                         *)
(* Abstractions.  A record is a pair <<n, k>>, the k-th of invocation n,   *)
(* and counts for one byte of the buffer; the last of them is the entry    *)
(* made of the event platform.report, and <<n, 0>> is the event            *)
(* platform.runtimeDone.  Parsing, Parquet and object keys are left out.   *)
(***************************************************************************)
EXTENDS Integers, Sequences, FiniteSets, Functions

CONSTANTS
    MaxInvocations,      \* bound: invocations of the environment
    LogsPerInvocation,   \* bound: records one invocation logs
    Excluded             \* the records below cfg.Level, or not configured

ASSUME BoundsAssumption ==
    /\ MaxInvocations \in Nat
    /\ LogsPerInvocation \in Nat

Report(n) == <<n, LogsPerInvocation + 1>>
Records == (1 .. MaxInvocations) \X (1 .. LogsPerInvocation + 1)
RuntimeDone(n) == <<n, 0>>
Events == Records \cup {RuntimeDone(n) : n \in 1 .. MaxInvocations}
IsRuntimeDone(e) == e[2] = 0

ASSUME ExcludedAssumption == Excluded \subseteq Records

VARIABLES
    waitOn,        \* cfg.RuntimeDoneWait > 0; fixed for the environment
    up,            \* whether there is an Uploader; fixed
    bound,         \* whether the server could bind its port; fixed
    attempts,      \* failed attempts to register; 0 once it has succeeded
    subscribed,    \* whether the Telemetry API has accepted the subscription
    phase,         \* what Lambda has the environment do
    inv,           \* the current, or last, invocation
    emitted,       \* the records logged so far
    queue,         \* telemetry the platform has yet to deliver
    timedOut,      \* whether a wait for runtimeDone has ever timed out
    post,          \* the events of the request being handled, not yet parsed
    handler,       \* where handleTelemetry is
    flushRequested,\* its local of that name
    buffer, bytes, \* LogBuffer
    runtimeDone,   \* whether the channel holds its one signal
    pc,            \* where "main" and "ticker" are
    taken,         \* the entries each of them has taken out of the buffer
    cancelled,     \* whether Stop has cancelled the tickers' context
    stored,        \* records in an object in S3
    dropped        \* records whose upload failed

startup == <<waitOn, up, bound, attempts, subscribed>>
platform == <<startup, phase, inv, emitted, queue>>
delivery == <<post, handler, flushRequested>>
logBuffer == <<buffer, bytes>>
s3 == <<stored, dropped>>
vars == <<platform, timedOut, delivery, logBuffer, runtimeDone, pc, taken,
          cancelled, s3>>

MainLabels == {"register", "subscribe", "next", "await", "check", "flush", "upload", "cancel", "join",
               "closeServer", "exited"}
TickerLabels == {"select", "flush", "upload", "ended"}

Init ==
    /\ waitOn \in BOOLEAN
    /\ up \in BOOLEAN
    /\ bound \in BOOLEAN
    /\ attempts = 0
    /\ subscribed = FALSE
    /\ phase = "init"
    /\ inv = 0
    /\ emitted = {}
    /\ queue = <<>>
    /\ timedOut = FALSE
    /\ post = <<>>
    /\ handler = "idle"
    /\ flushRequested = FALSE
    /\ buffer = {}
    /\ bytes = 0
    /\ runtimeDone = FALSE
    /\ pc = [main |-> "register", ticker |-> "select"]
    /\ taken = [main |-> {}, ticker |-> {}]
    /\ cancelled = FALSE
    /\ stored = {}
    /\ dropped = {}

\* The processes of the environment run.
Thawed == phase \in {"init", "running", "responded", "shutdown"} /\ pc.main # "exited"

Goto(g, label) == pc' = [pc EXCEPT ![g] = label]

-----------------------------------------------------------------------------
(* The start of main.  Listener.Start reports success before the server has *)
(* its port, so that main goes on as if it had.                             *)

Backoffs == 3   \* len(registerBackoff)

\* register: after the last attempt main exits.
Register ==
    /\ Thawed
    /\ pc.main = "register"
    /\ \/ attempts' = 0 /\ Goto("main", IF up THEN "subscribe" ELSE "next")
       \/ /\ attempts' = attempts + 1
          /\ IF attempts < Backoffs THEN UNCHANGED pc ELSE Goto("main", "exited")
    /\ UNCHANGED <<waitOn, up, bound, subscribed, phase, inv, emitted, queue, timedOut,
                   delivery, logBuffer, runtimeDone, taken, cancelled, s3>>

\* subscribeTelemetry: main goes on whether it succeeds or not.
Subscribe ==
    /\ Thawed
    /\ pc.main = "subscribe"
    /\ subscribed' \in BOOLEAN
    /\ Goto("main", "next")
    /\ UNCHANGED <<waitOn, up, bound, attempts, phase, inv, emitted, queue, timedOut,
                   delivery, logBuffer, runtimeDone, taken, cancelled, s3>>

-----------------------------------------------------------------------------
(* Lambda *)

\* INIT is over when every extension has asked for the next event.
Initialised ==
    /\ phase = "init"
    /\ pc.main = "next"
    /\ phase' = "frozen"
    /\ UNCHANGED <<startup, inv, emitted, queue, timedOut, delivery, logBuffer,
                   runtimeDone, pc, taken, cancelled, s3>>

\* What the platform delivers, if anyone has subscribed to it.
Publish(e) == queue' = IF subscribed THEN Append(queue, e) ELSE queue

\* An invocation: the environment thaws and /event/next returns INVOKE.  An
\* extension that is not subscribed asks for the next event at once.
Invoke ==
    /\ phase = "frozen"
    /\ inv < MaxInvocations
    /\ inv' = inv + 1
    /\ phase' = "running"
    /\ Goto("main", IF subscribed THEN "await" ELSE "next")
    /\ UNCHANGED <<startup, emitted, queue, timedOut, delivery, logBuffer,
                   runtimeDone, taken, cancelled, s3>>

\* The function logs a record.
Log ==
    /\ phase = "running"
    /\ \E k \in 1 .. LogsPerInvocation :
          /\ <<inv, k>> \notin emitted
          /\ k > 1 => <<inv, k - 1>> \in emitted
          /\ emitted' = emitted \cup {<<inv, k>>}
          /\ Publish(<<inv, k>>)
    /\ UNCHANGED <<startup, phase, inv, timedOut, delivery, logBuffer,
                   runtimeDone, pc, taken, cancelled, s3>>

\* The runtime responds; runtimeDone follows the invocation's records.
Respond ==
    /\ phase = "running"
    /\ phase' = "responded"
    /\ Publish(RuntimeDone(inv))
    /\ UNCHANGED <<startup, inv, emitted, timedOut, delivery, logBuffer,
                   runtimeDone, pc, taken, cancelled, s3>>

\* Everyone has asked for the next event: no process moves any more.  The
\* report of the invocation comes too late for this thaw.
Freeze ==
    /\ phase = "responded"
    /\ pc.main = "next"
    /\ phase' = "frozen"
    /\ emitted' = emitted \cup {Report(inv)}
    /\ Publish(Report(inv))
    /\ UNCHANGED <<startup, inv, timedOut, delivery, logBuffer, runtimeDone, pc,
                   taken, cancelled, s3>>

\* The environment thaws for the last time: /event/next returns SHUTDOWN.
Shutdown ==
    /\ phase = "frozen"
    /\ phase' = "shutdown"
    /\ Goto("main", "cancel")
    /\ UNCHANGED <<startup, inv, emitted, queue, timedOut, delivery, logBuffer,
                   runtimeDone, taken, cancelled, s3>>

\* /event/next fails, which ends the loop as SHUTDOWN does.
NextFails ==
    /\ phase \in {"running", "responded"}
    /\ pc.main = "next"
    /\ Goto("main", "cancel")
    /\ UNCHANGED <<platform, timedOut, delivery, logBuffer, runtimeDone,
                   taken, cancelled, s3>>

\* The environment is gone once the extension has exited.
Die ==
    /\ pc.main = "exited"
    /\ phase # "dead"
    /\ phase' = "dead"
    /\ UNCHANGED <<startup, inv, emitted, queue, timedOut, delivery, logBuffer,
                   runtimeDone, pc, taken, cancelled, s3>>

-----------------------------------------------------------------------------
(* The Telemetry API and handleTelemetry *)

\* Mutant: the signal is given when the request comes in.
DeliverSignalling ==
    /\ Thawed /\ bound
    /\ handler = "idle"
    /\ \E n \in 1 .. Len(queue) :
          /\ post' = SubSeq(queue, 1, n)
          /\ queue' = SubSeq(queue, n + 1, Len(queue))
          /\ runtimeDone' = (runtimeDone \/ \E i \in 1 .. n : IsRuntimeDone(queue[i]))
    /\ handler' = "parse"
    /\ UNCHANGED <<startup, phase, inv, emitted, timedOut, flushRequested,
                   logBuffer, pc, taken, cancelled, s3>>

\* A request brings some of what is due, oldest first, one at a time.
Deliver ==
    /\ Thawed /\ bound
    /\ handler = "idle"
    /\ \E n \in 1 .. Len(queue) :
          /\ post' = SubSeq(queue, 1, n)
          /\ queue' = SubSeq(queue, n + 1, Len(queue))
    /\ handler' = "parse"
    /\ UNCHANGED <<startup, phase, inv, emitted, timedOut, flushRequested,
                   logBuffer, runtimeDone, pc, taken, cancelled, s3>>

ShouldInclude(r) == r \notin Excluded

\* LogBuffer.Append
AppendEntry(r) ==
    /\ buffer' = buffer \cup {r}
    /\ bytes' = bytes + 1

\* One turn of the loop over the batches: runtimeDone asks for a flush, a
\* record of sufficient level is appended.
Parse ==
    /\ Thawed
    /\ handler = "parse"
    /\ post' = Tail(post)
    /\ \/ /\ IsRuntimeDone(Head(post))
          /\ flushRequested' = TRUE
          /\ UNCHANGED logBuffer
       \/ /\ ~ IsRuntimeDone(Head(post))
          /\ ~ ShouldInclude(Head(post))
          /\ UNCHANGED <<flushRequested, logBuffer>>
       \/ /\ ~ IsRuntimeDone(Head(post))
          /\ ShouldInclude(Head(post))
          /\ AppendEntry(Head(post))
          /\ UNCHANGED flushRequested
    /\ handler' = IF Len(post) = 1 THEN "signal" ELSE "parse"
    /\ UNCHANGED <<platform, timedOut, runtimeDone, pc, taken, cancelled, s3>>

\* Mutant: the send blocks while the channel is full.
SignalBlocking ==
    /\ Thawed
    /\ handler = "signal"
    /\ flushRequested => ~ runtimeDone
    /\ runtimeDone' = (runtimeDone \/ flushRequested)
    /\ flushRequested' = FALSE
    /\ handler' = "idle"
    /\ UNCHANGED <<platform, timedOut, post, logBuffer, pc, taken, cancelled, s3>>

\* Answered; a requested flush is signalled unless a signal is there already.
Signal ==
    /\ Thawed
    /\ handler = "signal"
    /\ runtimeDone' = (runtimeDone \/ flushRequested)
    /\ flushRequested' = FALSE
    /\ handler' = "idle"
    /\ UNCHANGED <<platform, timedOut, post, logBuffer, pc, taken, cancelled, s3>>

-----------------------------------------------------------------------------
(* The event loop, the tickers and Stop *)

\* Mutant: the wait has no timer.
AwaitUntimed ==
    /\ Thawed
    /\ pc.main = "await"
    /\ waitOn => runtimeDone
    /\ runtimeDone' = (runtimeDone /\ ~ waitOn)
    /\ Goto("main", "check")
    /\ UNCHANGED <<platform, timedOut, delivery, logBuffer, taken, cancelled, s3>>

\* AwaitRuntimeDone takes the signal, or gives up: at once when no wait is
\* configured, when its timer fires otherwise.
Await ==
    /\ Thawed
    /\ pc.main = "await"
    /\ \/ waitOn /\ runtimeDone /\ runtimeDone' = FALSE /\ UNCHANGED timedOut
       \/ waitOn /\ timedOut' = TRUE /\ UNCHANGED runtimeDone
       \/ ~ waitOn /\ UNCHANGED <<timedOut, runtimeDone>>
    /\ Goto("main", "check")
    /\ UNCHANGED <<platform, delivery, logBuffer, taken, cancelled, s3>>

\* Where a goroutine goes when it has no flush to do, or has done it.
Resume(g) ==
    IF g = "ticker" THEN "select"
    ELSE IF cancelled THEN "closeServer" ELSE "next"

\* After a wait, and in Stop: is there anything to flush?
Check ==
    /\ Thawed
    /\ pc.main = "check"
    /\ Goto("main", IF bytes > 0 THEN "flush" ELSE Resume("main"))
    /\ UNCHANGED <<platform, timedOut, delivery, logBuffer, runtimeDone, taken,
                   cancelled, s3>>

\* A tick of the interval finds something buffered.  The other ticker asks for
\* more, a buffer that is full, and does the same.
Tick ==
    /\ Thawed
    /\ pc.ticker = "select"
    /\ bytes > 0
    /\ Goto("ticker", "flush")
    /\ UNCHANGED <<platform, timedOut, delivery, logBuffer, runtimeDone, taken,
                   cancelled, s3>>

\* Mutant: the byte count is not reset.
SwapKeepingBytes(g) ==
    /\ Thawed
    /\ pc[g] = "flush"
    /\ taken' = [taken EXCEPT ![g] = buffer]
    /\ buffer' = {}
    /\ Goto(g, IF buffer = {} THEN Resume(g) ELSE "upload")
    /\ UNCHANGED <<platform, timedOut, delivery, bytes, runtimeDone, cancelled, s3>>

\* Mutant: the buffer is reset when the upload is over.
SwapCopying(g) ==
    /\ Thawed
    /\ pc[g] = "flush"
    /\ taken' = [taken EXCEPT ![g] = buffer]
    /\ Goto(g, IF buffer = {} THEN Resume(g) ELSE "upload")
    /\ UNCHANGED <<platform, timedOut, delivery, logBuffer, runtimeDone, cancelled, s3>>

\* LogBuffer.Flush, under the lock: take the entries, leave an empty buffer.
Swap(g) ==
    /\ Thawed
    /\ pc[g] = "flush"
    /\ taken' = [taken EXCEPT ![g] = buffer]
    /\ buffer' = {}
    /\ bytes' = 0
    /\ Goto(g, IF buffer = {} THEN Resume(g) ELSE "upload")
    /\ UNCHANGED <<platform, timedOut, delivery, runtimeDone, cancelled, s3>>

\* Mutant: the entries of a failed upload go back into the buffer.
UploadRequeueing(g) ==
    /\ Thawed
    /\ pc[g] = "upload"
    /\ \/ stored' = stored \cup taken[g] /\ UNCHANGED logBuffer
       \/ /\ buffer' = buffer \cup taken[g]
          /\ bytes' = bytes + Cardinality(taken[g])
          /\ UNCHANGED stored
    /\ taken' = [taken EXCEPT ![g] = {}]
    /\ Goto(g, Resume(g))
    /\ UNCHANGED <<platform, timedOut, delivery, dropped, runtimeDone, cancelled>>

\* LogBuffer.Flush, without the lock: the upload succeeds, or fails and its
\* entries are given up.  One that S3 accepts and the extension takes for
\* failed leaves the same state as one that succeeds.
Upload(g) ==
    /\ Thawed
    /\ pc[g] = "upload"
    /\ \/ stored' = stored \cup taken[g] /\ UNCHANGED dropped
       \/ dropped' = dropped \cup taken[g] /\ UNCHANGED stored
    /\ taken' = [taken EXCEPT ![g] = {}]
    /\ Goto(g, Resume(g))
    /\ UNCHANGED <<platform, timedOut, delivery, logBuffer, runtimeDone, cancelled>>

\* Stop cancels the context of the tickers ...
Cancel ==
    /\ Thawed
    /\ pc.main = "cancel"
    /\ cancelled' = TRUE
    /\ Goto("main", "join")
    /\ UNCHANGED <<platform, timedOut, delivery, logBuffer, runtimeDone, taken, s3>>

\* ... whose goroutine returns once it is back at its select ...
TickerEnds ==
    /\ Thawed
    /\ pc.ticker = "select"
    /\ cancelled
    /\ Goto("ticker", "ended")
    /\ UNCHANGED <<platform, timedOut, delivery, logBuffer, runtimeDone, taken,
                   cancelled, s3>>

\* Mutant: Stop does not wait for that.
JoinNothing ==
    /\ Thawed
    /\ pc.main = "join"
    /\ Goto("main", "check")
    /\ UNCHANGED <<platform, timedOut, delivery, logBuffer, runtimeDone, taken,
                   cancelled, s3>>

\* ... and waits for it.
Join ==
    /\ Thawed
    /\ pc.main = "join"
    /\ pc.ticker = "ended"
    /\ Goto("main", "check")
    /\ UNCHANGED <<platform, timedOut, delivery, logBuffer, runtimeDone, taken,
                   cancelled, s3>>

\* server.Shutdown waits for the request being handled; then main returns.
\* That it would give up after five seconds is left out, since it need not.
CloseServer ==
    /\ Thawed
    /\ pc.main = "closeServer"
    /\ handler = "idle"
    /\ Goto("main", "exited")
    /\ UNCHANGED <<platform, timedOut, delivery, logBuffer, runtimeDone, taken,
                   cancelled, s3>>

-----------------------------------------------------------------------------
Lambda == Initialised \/ Invoke \/ Log \/ Respond \/ Freeze \/ Shutdown \/ NextFails \/ Die
Handler == Parse \/ Signal
Flush(g) == Swap(g) \/ Upload(g)
Main == Register \/ Subscribe \/ Await \/ Check \/ Flush("main") \/ Cancel \/ Join \/ CloseServer
Ticker == Tick \/ Flush("ticker") \/ TickerEnds

Next == Lambda \/ Deliver \/ Handler \/ Main \/ Ticker

Spec == Init /\ [][Next]_vars

\* Lambda notices what the extension does, invokes the function again or shuts
\* the environment down, the function responds, the platform delivers what is
\* due while it can, and the extension's goroutines run while they are thawed.  No tick is assumed: the
\* environment may never be thawed for as long as an interval.
Fairness ==
    /\ WF_vars(Invoke \/ Shutdown)
    /\ WF_vars(Respond)
    /\ WF_vars(Initialised \/ Freeze \/ Die)
    /\ WF_vars(Deliver)
    /\ WF_vars(Handler)
    /\ WF_vars(Main)
    /\ WF_vars(Flush("ticker") \/ TickerEnds)

FairSpec == Spec /\ Fairness

-----------------------------------------------------------------------------
(* Properties *)

\* Types; and SizeBytes, which every flush goes by, is the size of the entries.
TypeOK ==
    /\ {waitOn, up, bound, subscribed} \subseteq BOOLEAN
    /\ attempts \in 0 .. Backoffs + 1
    /\ subscribed => up
    /\ phase \in {"init", "frozen", "running", "responded", "shutdown", "dead"}
    /\ inv \in 0 .. MaxInvocations
    /\ emitted \subseteq Records
    /\ queue \in Seq(Events)
    /\ timedOut \in BOOLEAN
    /\ post \in Seq(Events)
    /\ handler \in {"idle", "parse", "signal"}
    /\ flushRequested \in BOOLEAN
    /\ buffer \subseteq Records
    /\ bytes = Cardinality(buffer)
    /\ runtimeDone \in BOOLEAN
    /\ pc \in [{"main", "ticker"} -> MainLabels \cup TickerLabels]
    /\ taken \in [{"main", "ticker"} -> SUBSET Records]
    /\ cancelled \in BOOLEAN
    /\ stored \subseteq Records
    /\ dropped \subseteq Records

\* The places a record that is to be kept can be in.
Places(r) ==
    {p \in {"queue", "post", "buffer", "main", "ticker", "stored", "dropped"} :
        CASE p = "queue"  -> r \in Range(queue)
          [] p = "post"   -> r \in Range(post)
          [] p = "buffer" -> r \in buffer
          [] p = "main"   -> r \in taken["main"]
          [] p = "ticker" -> r \in taken["ticker"]
          [] p = "stored" -> r \in stored
          [] p = "dropped" -> r \in dropped}

\* However appends and the flushes of the loop, the tickers and Stop
\* interleave, each record logged is in exactly one place: none is lost
\* between two of them and none is uploaded twice.
Accounted ==
    subscribed =>
       \A r \in emitted \ Excluded : \E p \in Places(r) : Places(r) = {p}

\* To the function, all of it is a shipment: from the platform's queue to the
\* buffer its records keep their order, each flush takes all that is oldest, and
\* whichever goroutine has taken a record, it is stored or given up with its
\* batch, once and for good; nothing is that is below the level.
Shipping == INSTANCE LogShipping WITH
    Kept    <- Records \ Excluded,
    waiting <- (Range(queue) \cup Range(post) \cup buffer) \cap (Records \ Excluded),
    flights <- {taken["main"], taken["ticker"]} \ {{}}
ShipsTheLog == Shipping!Spec

\* What holding the invocation open is for: as long as no wait has timed out,
\* the environment freezes with every record so far, the last report aside,
\* given to S3, or at least in the upload a ticker has begun.
CollectedAtFreeze ==
    phase = "frozen" /\ subscribed /\ waitOn /\ ~ timedOut =>
       emitted \ (Excluded \cup {Report(inv)})
          \subseteq stored \cup dropped \cup taken["ticker"]

\* "Returning early costs nothing": a wait that ends with the signal ends with
\* the records of the current invocation delivered.
SignalIsCurrent ==
    [][ pc.main = "await" /\ runtimeDone /\ ~ runtimeDone' =>
          phase # "running" /\ RuntimeDone(inv) \notin Range(queue) \cup Range(post) ]_vars

\* "Lambda keeps the environment thawed ... exactly as long as the upload
\* needs": it does not freeze with an upload in flight.
NoUploadFrozen ==
    phase = "frozen" => \A g \in {"main", "ticker"} : pc[g] # "upload"

\* "Stop drains the buffer": the extension exits with an empty one.
StopDrains == pc.main = "exited" => buffer = {}

\* Once Lambda shuts the environment down the extension exits, whatever the
\* tickers and the handler are doing.
ShutdownEnds == phase = "shutdown" ~> pc.main = "exited"

\* The extension keeps nobody waiting: INIT ends, and each invocation is
\* released, whether or not it could register, subscribe, bind its port or
\* reach S3, and whatever is delivered.
Released == phase \in {"init", "running"} ~> phase \in {"frozen", "dead"}

\* A record that is in the buffer before the last flush has taken it leaves
\* for S3 in time, however rarely the environment thaws.
BufferedIsSettled ==
    \A r \in Records :
       (r \in buffer /\ (cancelled => pc.main \in {"join", "check", "flush"}))
          ~> r \in stored \cup dropped
=============================================================================
