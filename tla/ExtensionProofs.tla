-------------------------- MODULE ExtensionProofs --------------------------
(***************************************************************************)
(* Proofs about the extension, for any number of invocations and records,  *)
(* any level, and every interleaving of Lambda, the platform, the handler, *)
(* the loop and the tickers.                                               *)
(*                                                                         *)
(* Accounted is not inductive: that appending or swapping moves a record   *)
(* needs that the place it leaves held it once and alone (Placed), and     *)
(* which steps are possible when depends on what main, the handler and     *)
(* Lambda know of each other (Control).  CollectedAtFreeze needs besides   *)
(* where, as long as no wait has timed out, the runtimeDone of the         *)
(* invocation is on its way, and that it is the last of what is due        *)
(* (Ordered); ShipsTheLog, that the records are in order from the buffer   *)
(* back to the queue (InOrder).                                            *)
(***************************************************************************)
EXTENDS Extension, FiniteSetTheorems, SequenceTheorems, TLAPS

Types == TypeOK /\ IsFiniteSet(buffer)

\* What main, the handler and Lambda know of each other.
Control ==
    /\ pc.main \in MainLabels /\ pc.ticker \in TickerLabels
    /\ pc.main \in {"register", "subscribe"} => phase = "init"
    /\ pc.main = "register" => attempts <= Backoffs
    /\ pc.main = "subscribe" => up
    /\ phase = "init" =>
          /\ pc.main \in {"register", "subscribe", "next", "exited"}
          /\ emitted = {} /\ queue = <<>> /\ post = <<>> /\ buffer = {}
          /\ ~ flushRequested /\ ~ runtimeDone
    /\ phase \in {"running", "responded"} => inv >= 1 /\ Report(inv) \notin emitted
    /\ phase = "frozen" => pc.main = "next"
    /\ \A r \in emitted : r[1] <= inv
    /\ handler = "parse" <=> post # <<>>
    /\ cancelled => pc.main \notin {"register", "subscribe", "await", "next"}

Distinct(s) == \A i, j \in DOMAIN s : s[i] = s[j] /\ s[i] \in Records => i = j

\* A record is in one place at most, and there once, and only when it has been
\* logged; what a goroutine has taken it is uploading.
Placed ==
    /\ Distinct(queue) /\ Distinct(post)
    /\ \A g \in {"main", "ticker"} : taken[g] # {} => pc[g] = "upload"
    /\ \A r \in Records :
          /\ \A p, q \in Places(r) : p = q
          /\ Places(r) # {} => r \in emitted
    /\ subscribed => \A r \in emitted \ Excluded : Places(r) # {}

Waiting == subscribed /\ waitOn /\ ~ timedOut
Quiet == ~ flushRequested /\ ~ runtimeDone
NoneDone(s) == \A i \in DOMAIN s : ~ IsRuntimeDone(s[i])
EndsDone(s) == s # <<>> /\ \A i \in DOMAIN s : IsRuntimeDone(s[i]) <=> i = Len(s)

\* The signal main waits for is still to be delivered, or to be parsed, or the
\* handler is about to give it, or has.
Coming ==
    \/ EndsDone(queue) /\ NoneDone(post) /\ Quiet
    \/ queue = <<>> /\ EndsDone(post) /\ Quiet
    \/ /\ queue = <<>> /\ post = <<>>
       /\ (flushRequested /\ ~ runtimeDone) \/ (runtimeDone /\ ~ flushRequested)

\* Main has had it, and flushes.
Settled == queue = <<>> /\ post = <<>> /\ Quiet /\ (pc.main \in {"upload", "next"} => buffer = {})

AtRest == post = <<>> /\ buffer = {} /\ Range(queue) \subseteq {Report(inv)} /\ Quiet

\* As long as no wait has timed out, an invocation goes through these.
Ordered ==
    Waiting =>
       /\ phase = "running" => pc.main = "await" /\ NoneDone(queue) /\ NoneDone(post) /\ Quiet
       /\ phase = "responded" /\ pc.main = "await" => Coming
       /\ phase = "responded" /\ pc.main # "await" => Settled
       /\ phase = "frozen" => AtRest

IInv == Types /\ Control /\ Placed /\ Ordered

Split(s, n, a, b) == a = SubSeq(s, 1, n) /\ b = SubSeq(s, n + 1, Len(s))

-----------------------------------------------------------------------------
(* Events, sequences and the start. *)

\* Of events and records; a record is no runtimeDone.
LEMMA EventFacts ==
  /\ \A n \in 1 .. MaxInvocations : /\ Report(n) \in Records /\ Report(n)[1] = n
                                    /\ RuntimeDone(n) \in Events /\ IsRuntimeDone(RuntimeDone(n))
  /\ \A n \in 1 .. MaxInvocations, k \in 1 .. LogsPerInvocation :
        <<n, k>> \in Records /\ <<n, k>> # Report(n)
  /\ \A r \in Records : r[1] \in 1 .. MaxInvocations /\ ~ IsRuntimeDone(r)
  /\ \A e \in Events : ~ IsRuntimeDone(e) => e \in Records
  /\ Records \subseteq Events
BY BoundsAssumption DEF Report, Records, RuntimeDone, Events, IsRuntimeDone

\* At the start nothing is under way.
LEMMA InitTypes == Init => Types /\ Control
<1> SUFFICES ASSUME Init PROVE Types /\ Control
  OBVIOUS
<1>1. TypeOK
  <2>1. pc \in [{"main", "ticker"} -> MainLabels \cup TickerLabels]
    BY DEF Init, MainLabels, TickerLabels
  <2>2. taken \in [{"main", "ticker"} -> SUBSET Records]
    BY DEF Init
  <2>3. bytes = Cardinality(buffer) /\ queue \in Seq(Events) /\ post \in Seq(Events)
    BY FS_EmptySet DEF Init
  <2>4. inv \in 0 .. MaxInvocations /\ attempts \in 0 .. Backoffs + 1
    BY BoundsAssumption DEF Init, Backoffs
  <2> QED BY <2>1, <2>2, <2>3, <2>4 DEF Init, TypeOK
<1>2. Control
  BY DEF Init, Control, Backoffs, MainLabels, TickerLabels
<1> QED BY <1>1, <1>2, FS_EmptySet DEF Init, Types

\* Appending a record that is not in the buffer.
LEMMA Appended ==
  ASSUME Types, NEW r \in Records, r \notin buffer, AppendEntry(r)
  PROVE  /\ buffer' \subseteq Records /\ IsFiniteSet(buffer')
         /\ bytes' = Cardinality(buffer')
BY FS_AddElement DEF Types, TypeOK, AppendEntry

\* A sequence split in two.
LEMMA SeqSplit ==
  ASSUME NEW S, NEW s \in Seq(S), NEW n \in 1 .. Len(s)
  PROVE  /\ SubSeq(s, 1, n) \in Seq(S) /\ SubSeq(s, n + 1, Len(s)) \in Seq(S)
         /\ Len(SubSeq(s, 1, n)) = n /\ Len(SubSeq(s, n + 1, Len(s))) = Len(s) - n
         /\ \A i \in 1 .. n : SubSeq(s, 1, n)[i] = s[i]
         /\ \A i \in 1 .. Len(s) - n : SubSeq(s, n + 1, Len(s))[i] = s[n + i]
<1>1. Len(s) \in Nat
  BY LenProperties
<1>2. /\ SubSeq(s, 1, n) \in Seq(S) /\ Len(SubSeq(s, 1, n)) = n
      /\ \A i \in 1 .. n : SubSeq(s, 1, n)[i] = s[i]
  <2>1. \A i \in 1 .. n : s[i] \in S
    BY <1>1, ElementOfSeq
  <2> QED BY <1>1, <2>1, SubSeqProperties
<1>3. /\ SubSeq(s, n + 1, Len(s)) \in Seq(S) /\ Len(SubSeq(s, n + 1, Len(s))) = Len(s) - n
      /\ \A i \in 1 .. Len(s) - n : SubSeq(s, n + 1, Len(s))[i] = s[n + i]
  <2>1. \A i \in n + 1 .. Len(s) : s[i] \in S
    BY <1>1, ElementOfSeq
  <2> QED BY <1>1, <2>1, SubSeqProperties
<1> QED BY <1>2, <1>3

-----------------------------------------------------------------------------
(* Types and control. *)

\* What it means to be in a place, now ...
LEMMA PlaceOf ==
  ASSUME NEW r
  PROVE  /\ Places(r) \subseteq {"queue", "post", "buffer", "main", "ticker", "stored", "dropped"}
         /\ "queue" \in Places(r) <=> r \in Range(queue)
         /\ "post" \in Places(r) <=> r \in Range(post)
         /\ "buffer" \in Places(r) <=> r \in buffer
         /\ "main" \in Places(r) <=> r \in taken["main"]
         /\ "ticker" \in Places(r) <=> r \in taken["ticker"]
         /\ "stored" \in Places(r) <=> r \in stored
         /\ "dropped" \in Places(r) <=> r \in dropped
BY DEF Places

\* The head of a post, and what is left.
LEMMA PostHead ==
  ASSUME Types, post # <<>>
  PROVE  /\ Head(post) = post[1] /\ Head(post) \in Events /\ Head(post) \in Range(post)
         /\ Tail(post) \in Seq(Events) /\ Len(Tail(post)) = Len(post) - 1
         /\ Len(post) \in Nat /\ Len(post) >= 1
         /\ DOMAIN post = 1 .. Len(post) /\ DOMAIN Tail(post) = 1 .. Len(post) - 1
         /\ \A i \in 1 .. Len(post) - 1 : Tail(post)[i] = post[i + 1]
<1>1. post \in Seq(Events)
  BY DEF Types, TypeOK
<1>2. /\ Head(post) = post[1] /\ Tail(post) \in Seq(Events) /\ Len(Tail(post)) = Len(post) - 1
      /\ \A i \in 1 .. Len(post) - 1 : Tail(post)[i] = post[i + 1]
  BY <1>1, HeadTailProperties
<1>3. Len(post) \in Nat /\ DOMAIN post = 1 .. Len(post) /\ Len(post) >= 1
  <2>1. Len(post) \in Nat /\ DOMAIN post = 1 .. Len(post) /\ Len(post) # 0
    BY <1>1, LenProperties, EmptySeq
  <2> QED BY <2>1
<1>4. DOMAIN Tail(post) = 1 .. Len(post) - 1
  BY <1>2, LenProperties
<1>5. post[1] \in Events /\ post[1] \in Range(post)
  BY <1>1, <1>3, ElementOfSeq DEF Range
<1> QED BY <1>2, <1>3, <1>4, <1>5

\* Each step keeps the types: the count of bytes grows only by a record that is
\* not in the buffer yet, which is what Placed is for.
LEMMA TypesNext ==
  ASSUME Types, Control, Placed, [Next]_vars
  PROVE  Types'
<1> USE DEF startup, platform, delivery, logBuffer, s3, Goto
<1>0. /\ TypeOK /\ inv \in 0 .. MaxInvocations /\ pc \in [{"main", "ticker"} -> MainLabels \cup TickerLabels]
      /\ emitted \subseteq Records /\ IsFiniteSet(buffer)
      /\ queue \in Seq(Events) /\ post \in Seq(Events) /\ bytes = Cardinality(buffer)
      /\ taken \in [{"main", "ticker"} -> SUBSET Records]
  BY DEF Types, TypeOK
<1>p. \A g \in {"main", "ticker"}, label \in MainLabels \cup TickerLabels :
         [pc EXCEPT ![g] = label] \in [{"main", "ticker"} -> MainLabels \cup TickerLabels]
  BY <1>0
<1>q. ASSUME NEW e \in Events, Publish(e) PROVE queue' \in Seq(Events)
  BY <1>0, <1>q, AppendProperties DEF Publish
<1>r. Resume("main") \in MainLabels /\ Resume("ticker") \in TickerLabels
  BY DEF Resume, MainLabels, TickerLabels
<1>l. {"register", "subscribe", "next", "await", "check", "flush", "upload", "cancel",
       "join", "closeServer", "exited", "select", "ended"} \subseteq MainLabels \cup TickerLabels
  BY DEF MainLabels, TickerLabels
<1>1. CASE Register
  <2>1. attempts' \in 0 .. Backoffs + 1
    BY <1>1, <1>0 DEF Register, Control, TypeOK, Backoffs
  <2>2. pc' \in [{"main", "ticker"} -> MainLabels \cup TickerLabels]
    BY <1>1, <1>0, <1>p, <1>l DEF Register
  <2> QED BY <1>1, <1>0, <2>1, <2>2 DEF Register, Types, TypeOK
<1>2. CASE Subscribe
  <2>1. pc' \in [{"main", "ticker"} -> MainLabels \cup TickerLabels]
    BY <1>2, <1>p, <1>l DEF Subscribe
  <2> QED BY <1>2, <1>0, <2>1 DEF Subscribe, Types, TypeOK, Control
<1>3. CASE Initialised \/ Die
  BY <1>3, <1>0 DEF Initialised, Die, Types, TypeOK
<1>4. CASE Invoke
  <2>1. inv' \in 0 .. MaxInvocations
    BY <1>4, <1>0, BoundsAssumption DEF Invoke
  <2>2. pc' \in [{"main", "ticker"} -> MainLabels \cup TickerLabels]
    BY <1>4, <1>p, <1>l DEF Invoke
  <2> QED BY <1>4, <1>0, <2>1, <2>2 DEF Invoke, Types, TypeOK
<1>5. CASE Log
  <2> PICK k \in 1 .. LogsPerInvocation :
         emitted' = emitted \cup {<<inv, k>>} /\ Publish(<<inv, k>>)
    BY <1>5 DEF Log
  <2>1. inv \in 1 .. MaxInvocations
    BY <1>5, <1>0 DEF Log, Control
  <2>2. <<inv, k>> \in Records /\ <<inv, k>> \in Events
    BY <2>1, EventFacts
  <2>3. emitted' \subseteq Records /\ queue' \in Seq(Events)
    BY <1>0, <1>q, <2>2
  <2> QED BY <1>5, <1>0, <2>3 DEF Log, Types, TypeOK
<1>6. CASE Respond
  <2>1. inv \in 1 .. MaxInvocations
    BY <1>6, <1>0 DEF Respond, Control
  <2>2. queue' \in Seq(Events)
    BY <1>6, <1>q, <2>1, EventFacts DEF Respond
  <2> QED BY <1>6, <1>0, <2>2 DEF Respond, Types, TypeOK
<1>7. CASE Freeze
  <2>1. inv \in 1 .. MaxInvocations
    BY <1>7, <1>0 DEF Freeze, Control
  <2>2. Report(inv) \in Records /\ Report(inv) \in Events
    BY <2>1, EventFacts
  <2>3. emitted' \subseteq Records /\ queue' \in Seq(Events)
    BY <1>7, <1>0, <1>q, <2>2 DEF Freeze
  <2> QED BY <1>7, <1>0, <2>3 DEF Freeze, Types, TypeOK
<1>8. CASE Shutdown
  <2>1. pc' \in [{"main", "ticker"} -> MainLabels \cup TickerLabels]
    BY <1>8, <1>p, <1>l DEF Shutdown
  <2> QED BY <1>8, <1>0, <2>1 DEF Shutdown, Types, TypeOK
<1>9. CASE NextFails
  <2>1. pc' \in [{"main", "ticker"} -> MainLabels \cup TickerLabels]
    BY <1>9, <1>p, <1>l DEF NextFails
  <2> QED BY <1>9, <1>0, <2>1 DEF NextFails, Types, TypeOK
<1>10. CASE Deliver
  <2> PICK n \in 1 .. Len(queue) :
         post' = SubSeq(queue, 1, n) /\ queue' = SubSeq(queue, n + 1, Len(queue))
    BY <1>10 DEF Deliver
  <2>1. post' \in Seq(Events) /\ queue' \in Seq(Events)
    BY <1>0, SeqSplit
  <2> QED BY <1>10, <1>0, <2>1 DEF Deliver, Types, TypeOK
<1>11. CASE Parse
  <2>1. post # <<>> /\ post' = Tail(post)
    BY <1>11 DEF Parse, Control
  <2>2. Tail(post) \in Seq(Events) /\ Head(post) \in Events /\ Head(post) \in Range(post)
    BY <2>1, PostHead
  <2>3. CASE UNCHANGED logBuffer
    BY <2>3, <1>11, <1>0, <2>1, <2>2 DEF Parse, Types, TypeOK
  <2>4. CASE ~ IsRuntimeDone(Head(post)) /\ AppendEntry(Head(post)) /\ UNCHANGED flushRequested
    <3>1. Head(post) \in Records
      BY <2>2, <2>4, EventFacts
    <3>2. Head(post) \notin buffer
      BY <2>2, <3>1, PlaceOf DEF Placed
    <3>3. buffer' \subseteq Records /\ IsFiniteSet(buffer') /\ bytes' = Cardinality(buffer')
      BY <2>4, <3>1, <3>2, Appended
    <3> QED BY <2>4, <3>3, <1>11, <1>0, <2>1, <2>2 DEF Parse, Types, TypeOK
  <2> QED BY <2>3, <2>4, <1>11 DEF Parse
<1>12. CASE Signal
  BY <1>12, <1>0 DEF Signal, Types, TypeOK
<1>13. CASE Await
  <2>1. pc' \in [{"main", "ticker"} -> MainLabels \cup TickerLabels]
    BY <1>13, <1>p, <1>l DEF Await
  <2>2. timedOut' \in BOOLEAN /\ runtimeDone' \in BOOLEAN
    BY <1>13, <1>0 DEF Await, TypeOK
  <2> QED BY <1>13, <1>0, <2>1, <2>2 DEF Await, Types, TypeOK
<1>14. CASE Check \/ Cancel \/ Join \/ CloseServer \/ Tick \/ TickerEnds
  <2>1. pc' \in [{"main", "ticker"} -> MainLabels \cup TickerLabels]
    BY <1>14, <1>p, <1>l, <1>r DEF Check, Cancel, Join, CloseServer, Tick, TickerEnds
  <2>2. cancelled' \in BOOLEAN
    BY <1>14 DEF Check, Cancel, Join, CloseServer, Tick, TickerEnds, Types, TypeOK
  <2>3. UNCHANGED <<platform, timedOut, delivery, logBuffer, runtimeDone, taken, s3>>
    BY <1>14 DEF Check, Cancel, Join, CloseServer, Tick, TickerEnds
  <2> QED BY <1>0, <2>1, <2>2, <2>3 DEF Types, TypeOK
<1>15. ASSUME NEW g \in {"main", "ticker"}, Swap(g) PROVE Types'
  <2>1. pc' \in [{"main", "ticker"} -> MainLabels \cup TickerLabels]
    BY <1>15, <1>p, <1>l, <1>r DEF Swap
  <2>2. taken' \in [{"main", "ticker"} -> SUBSET Records]
    BY <1>15, <1>0 DEF Swap, TypeOK
  <2>3. bytes' = Cardinality(buffer') /\ IsFiniteSet(buffer') /\ buffer' \subseteq Records
    BY <1>15, FS_EmptySet DEF Swap
  <2> QED BY <1>15, <1>0, <2>1, <2>2, <2>3 DEF Swap, Types, TypeOK
<1>16. ASSUME NEW g \in {"main", "ticker"}, Upload(g) PROVE Types'
  <2>1. pc' \in [{"main", "ticker"} -> MainLabels \cup TickerLabels]
    BY <1>16, <1>p, <1>r DEF Upload
  <2>2. taken' \in [{"main", "ticker"} -> SUBSET Records]
    BY <1>16, <1>0 DEF Upload
  <2>3. stored' \subseteq Records /\ dropped' \subseteq Records
    BY <1>16, <1>0 DEF Upload, TypeOK
  <2> QED BY <1>16, <1>0, <2>1, <2>2, <2>3 DEF Upload, Types, TypeOK
<1>17. CASE UNCHANGED vars
  BY <1>17, <1>0 DEF vars, Types, TypeOK
<1> QED
  BY <1>1, <1>2, <1>3, <1>4, <1>5, <1>6, <1>7, <1>8, <1>9, <1>10, <1>11, <1>12, <1>13,
     <1>14, <1>15, <1>16, <1>17 DEF Next, Lambda, Handler, Main, Ticker, Flush

\* Each step keeps what main, handler and Lambda know of each other.
LEMMA ControlNext ==
  ASSUME Types, Control, Placed, [Next]_vars
  PROVE  Control'
<1> USE DEF startup, platform, delivery, logBuffer, s3, Goto
<1>0. /\ TypeOK /\ inv \in 0 .. MaxInvocations /\ pc \in [{"main", "ticker"} -> MainLabels \cup TickerLabels]
      /\ emitted \subseteq Records /\ IsFiniteSet(buffer) /\ attempts \in 0 .. Backoffs + 1
      /\ queue \in Seq(Events) /\ post \in Seq(Events) /\ bytes = Cardinality(buffer)
  BY DEF Types, TypeOK
<1>a. pc.main \in MainLabels /\ pc.ticker \in TickerLabels
  BY DEF Control
<1>b. /\ \A label : [pc EXCEPT !["main"] = label].main = label
      /\ \A label : [pc EXCEPT !["main"] = label].ticker = pc.ticker
      /\ \A label : [pc EXCEPT !["ticker"] = label].ticker = label
      /\ \A label : [pc EXCEPT !["ticker"] = label].main = pc.main
  BY <1>0
<1>c. phase = "init" => bytes = 0
  BY <1>0, FS_EmptySet DEF Control
<1>r. /\ Resume("main") = IF cancelled THEN "closeServer" ELSE "next"
      /\ Resume("ticker") = "select"
  BY DEF Resume
<1>1. CASE Register
  <2>1. /\ phase' = phase /\ phase = "init"
        /\ pc'.main \in {"subscribe", "next", "exited", "register"} /\ pc'.ticker = pc.ticker
        /\ pc'.main = "register" => attempts' <= Backoffs
        /\ pc'.main = "subscribe" => up
        /\ ~ cancelled
    BY <1>1, <1>0, <1>b DEF Register, Control, Backoffs
  <2> QED BY <1>1, <1>a, <2>1 DEF Register, Control, MainLabels
<1>2. CASE Subscribe
  <2>1. pc'.main = "next" /\ pc'.ticker = pc.ticker
    BY <1>2, <1>b DEF Subscribe
  <2> QED BY <1>2, <1>a, <2>1 DEF Subscribe, Control, MainLabels
<1>3. CASE Initialised \/ Die
  BY <1>3, <1>a DEF Initialised, Die, Control
<1>4. CASE Invoke
  <2>1. pc'.main \in {"await", "next"} /\ pc'.ticker = pc.ticker /\ phase' = "running" /\ inv' = inv + 1
    BY <1>4, <1>b DEF Invoke
  <2>2. inv' >= 1 /\ Report(inv') \notin emitted /\ \A r \in emitted : r[1] <= inv'
    <3>1. \A r \in emitted : r[1] \in 1 .. MaxInvocations /\ r[1] <= inv
      BY <1>0, EventFacts DEF Control
    <3>2. \A r \in emitted : r[1] <= inv' /\ r[1] # inv'
      BY <1>0, <2>1, <3>1
    <3>3. Report(inv')[1] = inv'
      BY DEF Report
    <3> QED BY <1>0, <2>1, <3>2, <3>3
  <2>3. ~ cancelled
    BY <1>4 DEF Invoke, Control
  <2> QED BY <1>4, <1>a, <2>1, <2>2, <2>3 DEF Invoke, Control, MainLabels
<1>5. CASE Log
  <2> PICK k \in 1 .. LogsPerInvocation :
         emitted' = emitted \cup {<<inv, k>>} /\ Publish(<<inv, k>>)
    BY <1>5 DEF Log
  <2>1. inv \in 1 .. MaxInvocations
    BY <1>5, <1>0 DEF Log, Control
  <2>2. <<inv, k>> # Report(inv) /\ <<inv, k>>[1] <= inv
    BY <2>1, EventFacts
  <2> QED BY <1>5, <1>a, <2>2 DEF Log, Control
<1>6. CASE Respond
  BY <1>6, <1>a DEF Respond, Control
<1>7. CASE Freeze
  <2>1. inv \in 1 .. MaxInvocations
    BY <1>7, <1>0 DEF Freeze, Control
  <2>2. Report(inv)[1] <= inv
    BY <2>1, EventFacts
  <2> QED BY <1>7, <1>a, <2>2 DEF Freeze, Control
<1>8. CASE Shutdown \/ NextFails
  <2>1. pc'.main = "cancel" /\ pc'.ticker = pc.ticker
    BY <1>8, <1>b DEF Shutdown, NextFails
  <2>2. phase # "init" /\ phase' # "init" /\ phase' # "frozen" /\ phase' \in {phase, "shutdown"}
    BY <1>8 DEF Shutdown, NextFails
  <2> QED BY <1>8, <1>a, <2>1, <2>2 DEF Shutdown, NextFails, Control, MainLabels
<1>9. CASE Deliver
  <2> PICK n \in 1 .. Len(queue) :
         post' = SubSeq(queue, 1, n) /\ queue' = SubSeq(queue, n + 1, Len(queue))
    BY <1>9 DEF Deliver
  <2>1. post' # <<>>
    <3>1. Len(post') = n /\ n # 0
      BY <1>0, SeqSplit
    <3> QED BY <3>1, EmptySeq
  <2>2. phase # "init"
    BY <1>9 DEF Deliver, Control
  <2> QED BY <1>9, <1>a, <2>1, <2>2 DEF Deliver, Control
<1>10. CASE Parse
  <2>1. post # <<>> /\ post' = Tail(post)
    BY <1>10 DEF Parse, Control
  <2>2. handler' = "parse" <=> post' # <<>>
    <3>1. post' \in Seq(Events) /\ Len(post') = Len(post) - 1 /\ Len(post) \in Nat
      BY <2>1, PostHead
    <3>2. post' # <<>> <=> Len(post') # 0
      BY <3>1, EmptySeq
    <3>3. Len(post') # 0 <=> Len(post) # 1
      BY <3>1
    <3> QED BY <1>10, <3>2, <3>3 DEF Parse
  <2>3. phase # "init"
    BY <2>1 DEF Control
  <2> QED BY <1>10, <1>a, <2>2, <2>3 DEF Parse, Control
<1>11. CASE Signal
  BY <1>11, <1>a DEF Signal, Control
<1>12. CASE Await
  <2>1. pc.main = "await" /\ pc'.main = "check" /\ pc'.ticker = pc.ticker
    BY <1>12, <1>b DEF Await
  <2> QED BY <1>12, <1>a, <2>1 DEF Await, Control, MainLabels
<1>13. CASE Check
  <2>1. pc.main = "check" /\ pc'.main \in {"flush", Resume("main")} /\ pc'.ticker = pc.ticker
    BY <1>13, <1>b DEF Check
  <2> QED BY <1>13, <1>a, <1>r, <2>1 DEF Check, Control, MainLabels
<1>14. CASE Cancel \/ Join \/ CloseServer
  <2>1. /\ pc.main \in {"cancel", "join", "closeServer"}
        /\ pc'.main \in {"join", "check", "exited"} /\ pc'.ticker = pc.ticker
    BY <1>14, <1>b DEF Cancel, Join, CloseServer
  <2> QED BY <1>14, <1>a, <2>1 DEF Cancel, Join, CloseServer, Control, MainLabels
<1>15. CASE Tick \/ TickerEnds
  <2>1. pc'.main = pc.main /\ pc'.ticker \in TickerLabels
    BY <1>15, <1>b DEF Tick, TickerEnds, TickerLabels
  <2> QED BY <1>15, <1>a, <2>1 DEF Tick, TickerEnds, Control
<1>16. ASSUME Swap("main") \/ Upload("main") PROVE Control'
  <2>1. pc.main \in {"flush", "upload"} /\ pc'.main \in {"upload", Resume("main")} /\ pc'.ticker = pc.ticker
    BY <1>16, <1>b DEF Swap, Upload
  <2>2. /\ UNCHANGED <<startup, phase, inv, emitted, queue, post, handler, flushRequested, runtimeDone, cancelled>>
        /\ buffer' \in {buffer, {}}
    BY <1>16 DEF Swap, Upload
  <2> QED BY <1>a, <1>r, <2>1, <2>2 DEF Control, MainLabels
<1>17. ASSUME Swap("ticker") \/ Upload("ticker") PROVE Control'
  <2>1. pc'.main = pc.main /\ pc'.ticker \in {"upload", "select"}
    BY <1>17, <1>b, <1>r DEF Swap, Upload
  <2>2. /\ UNCHANGED <<startup, phase, inv, emitted, queue, post, handler, flushRequested, runtimeDone, cancelled>>
        /\ buffer' \in {buffer, {}}
    BY <1>17 DEF Swap, Upload
  <2> QED BY <1>a, <2>1, <2>2 DEF Control, TickerLabels
<1>18. CASE UNCHANGED vars
  BY <1>18, <1>a DEF vars, Control
<1> QED
  BY <1>1, <1>2, <1>3, <1>4, <1>5, <1>6, <1>7, <1>8, <1>9, <1>10, <1>11, <1>12, <1>13,
     <1>14, <1>15, <1>16, <1>17, <1>18 DEF Next, Lambda, Handler, Main, Ticker, Flush

-----------------------------------------------------------------------------
(* The places of a record. *)

\* A sequence split in two, as sets of records.
LEMMA SplitRange ==
  ASSUME NEW s \in Seq(Events), Distinct(s), NEW n \in 1 .. Len(s), NEW a, NEW b,
         Split(s, n, a, b)
  PROVE  /\ Distinct(a) /\ Distinct(b)
         /\ \A r \in Records :
               /\ r \in Range(s) <=> (r \in Range(a) \/ r \in Range(b))
               /\ ~ (r \in Range(a) /\ r \in Range(b))
<1>1. Len(s) \in Nat /\ DOMAIN s = 1 .. Len(s)
  BY LenProperties
<1>2. /\ DOMAIN a = 1 .. n /\ DOMAIN b = 1 .. Len(s) - n
      /\ \A i \in 1 .. n : a[i] = s[i]
      /\ \A i \in 1 .. Len(s) - n : b[i] = s[n + i]
  BY SeqSplit, LenProperties DEF Split
<1>3. \A i \in 1 .. Len(s) : i \in 1 .. n \/ (i - n \in 1 .. Len(s) - n /\ i = n + (i - n))
  BY <1>1
<1>4. \A i \in 1 .. n : i \in DOMAIN s
  BY <1>1
<1>5. \A i \in 1 .. Len(s) - n : n + i \in DOMAIN s /\ n + i \notin 1 .. n
  BY <1>1
<1>6. Distinct(a)
  BY <1>2, <1>4 DEF Distinct
<1>7. Distinct(b)
  <2> SUFFICES ASSUME NEW i \in DOMAIN b, NEW j \in DOMAIN b, b[i] = b[j], b[i] \in Records
               PROVE  i = j
    BY DEF Distinct
  <2>1. n + i = n + j
    BY <1>2, <1>5 DEF Distinct
  <2> QED BY <1>1, <1>2, <2>1
<1>8. ASSUME NEW r \in Records
      PROVE  r \in Range(s) <=> (r \in Range(a) \/ r \in Range(b))
  <2>1. ASSUME r \in Range(s) PROVE r \in Range(a) \/ r \in Range(b)
    <3> PICK i \in 1 .. Len(s) : r = s[i]
      BY <1>1, <2>1 DEF Range
    <3>1. CASE i \in 1 .. n
      BY <1>2, <3>1 DEF Range
    <3>2. CASE i - n \in 1 .. Len(s) - n /\ i = n + (i - n)
      <4>1. b[i - n] = s[i]
        BY <1>2, <3>2
      <4> QED BY <1>2, <3>2, <4>1 DEF Range
    <3> QED BY <1>3, <3>1, <3>2
  <2>2. r \in Range(a) => r \in Range(s)
    BY <1>2, <1>4 DEF Range
  <2>3. r \in Range(b) => r \in Range(s)
    BY <1>2, <1>5 DEF Range
  <2> QED BY <2>1, <2>2, <2>3
<1>9. ASSUME NEW r \in Records, r \in Range(a), r \in Range(b)
      PROVE  FALSE
  <2>1. PICK i \in 1 .. n : r = s[i]
    BY <1>2, <1>9 DEF Range
  <2>2. PICK j \in 1 .. Len(s) - n : r = s[n + j]
    BY <1>2, <1>9 DEF Range
  <2>3. i = n + j
    BY <1>4, <1>5, <2>1, <2>2 DEF Distinct
  <2> QED BY <1>5, <2>3
<1> QED BY <1>6, <1>7, <1>8, <1>9

\* Appending an event that is not there, if it is a record.
LEMMA AppendRange ==
  ASSUME NEW s \in Seq(Events), Distinct(s), NEW e \in Events,
         e \in Records => e \notin Range(s), NEW t, t = Append(s, e)
  PROVE  Distinct(t) /\ Range(t) = Range(s) \cup {e}
<1>1. /\ Len(s) \in Nat /\ DOMAIN s = 1 .. Len(s)
      /\ DOMAIN t = 1 .. Len(s) + 1 /\ t[Len(s) + 1] = e
      /\ \A i \in 1 .. Len(s) : t[i] = s[i]
  BY AppendProperties, LenProperties
<1>2. \A i \in 1 .. Len(s) + 1 : i \in 1 .. Len(s) \/ i = Len(s) + 1
  BY <1>1
<1>3. 1 .. Len(s) \subseteq 1 .. Len(s) + 1 /\ Len(s) + 1 \in 1 .. Len(s) + 1
  BY <1>1
<1>4. Range(t) = Range(s) \cup {e}
  BY <1>1, <1>2, <1>3 DEF Range
<1>5. Distinct(t)
  BY <1>1, <1>2 DEF Distinct, Range
<1> QED BY <1>4, <1>5

\* The places of a record change only from one to another, or to none when it
\* is discarded; and a record that has none is not logged.
LEMMA PlacedKept ==
  ASSUME Placed, emitted \subseteq Records, Distinct(queue)', Distinct(post)',
         \A g \in {"main", "ticker"} : taken'[g] # {} => pc'[g] = "upload",
         UNCHANGED <<subscribed, emitted>>,
         ASSUME NEW r \in Records
         PROVE  \/ Places(r)' = Places(r)
                \/ Places(r) # {} /\ (\E p : Places(r)' = {p})
                \/ r \in Excluded /\ Places(r)' = {}
  PROVE  Placed'
<1>1. ASSUME NEW r \in Records
      PROVE  /\ \A p, q \in Places(r)' : p = q
             /\ Places(r)' # {} => r \in emitted'
             /\ Places(r) # {} => Places(r)' # {} \/ r \in Excluded
  <2>1. \/ Places(r)' = Places(r)
        \/ Places(r) # {} /\ (\E p : Places(r)' = {p})
        \/ r \in Excluded /\ Places(r)' = {}
    OBVIOUS
  <2>2. (\A p, q \in Places(r) : p = q) /\ (Places(r) # {} => r \in emitted)
    BY DEF Placed
  <2> QED BY <2>1, <2>2
<1>2. ASSUME subscribed, NEW r \in emitted \ Excluded
      PROVE  Places(r)' # {}
  <2>1. Places(r) # {} /\ r \in Records
    BY <1>2 DEF Placed
  <2> QED BY <1>1, <2>1
<1>3. subscribed' = subscribed /\ emitted' = emitted
  OBVIOUS
<1>4. (\A r \in Records : (\A p, q \in Places(r) : p = q) /\ (Places(r) # {} => r \in emitted))'
  BY <1>1
<1>5. (subscribed => \A r \in emitted \ Excluded : Places(r) # {})'
  BY <1>2, <1>3
<1>6. (\A g \in {"main", "ticker"} : taken[g] # {} => pc[g] = "upload")'
  OBVIOUS
<1>7. Distinct(queue)' /\ Distinct(post)'
  OBVIOUS
<1> QED BY <1>4, <1>5, <1>6, <1>7 DEF Placed

\* ... and after a step.
LEMMA PlaceOfNext ==
  ASSUME NEW r
  PROVE  /\ Places(r)' \subseteq {"queue", "post", "buffer", "main", "ticker", "stored", "dropped"}
         /\ "queue" \in Places(r)' <=> r \in Range(queue')
         /\ "post" \in Places(r)' <=> r \in Range(post')
         /\ "buffer" \in Places(r)' <=> r \in buffer'
         /\ "main" \in Places(r)' <=> r \in taken'["main"]
         /\ "ticker" \in Places(r)' <=> r \in taken'["ticker"]
         /\ "stored" \in Places(r)' <=> r \in stored'
         /\ "dropped" \in Places(r)' <=> r \in dropped'
BY DEF Places, Range

\* A record none of whose places changes ...
LEMMA SamePlacesTaken ==
  ASSUME NEW r,
         r \in Range(queue') <=> r \in Range(queue), r \in Range(post') <=> r \in Range(post),
         r \in buffer' <=> r \in buffer, r \in taken'["main"] <=> r \in taken["main"],
         r \in taken'["ticker"] <=> r \in taken["ticker"],
         r \in stored' <=> r \in stored, r \in dropped' <=> r \in dropped
  PROVE  Places(r)' = Places(r)
<1> DEFINE P == Places(r)'
           Q == Places(r)
           N == {"queue", "post", "buffer", "main", "ticker", "stored", "dropped"}
<1>1. P \subseteq N /\ Q \subseteq N /\ \A p \in N : p \in P <=> p \in Q
  BY PlaceOf, PlaceOfNext
<1> HIDE DEF P, Q, N
<1>2. \A p : p \in P <=> p \in Q
  BY <1>1
<1>3. P = Q
  BY <1>2
<1> QED BY <1>3 DEF P, Q

\* ... which holds of most steps.
LEMMA SamePlaces ==
  ASSUME NEW r,
         r \in Range(queue') <=> r \in Range(queue), r \in Range(post') <=> r \in Range(post),
         r \in buffer' <=> r \in buffer, UNCHANGED <<taken, stored, dropped>>
  PROVE  Places(r)' = Places(r)
BY SamePlacesTaken

\* A record that is logged is due for delivery, and nowhere else.
LEMMA PlacedLogged ==
  ASSUME Types, Placed, NEW e \in Records, e \notin emitted, emitted' = emitted \cup {e},
         Publish(e), UNCHANGED <<subscribed, post, logBuffer, pc, taken, s3>>
  PROVE  Placed'
<1> USE DEF logBuffer, s3
<1>0. queue \in Seq(Events) /\ e \in Events /\ emitted \subseteq Records
  BY EventFacts DEF Types, TypeOK
<1>1. Places(e) = {} /\ e \notin Range(queue)
  BY PlaceOf DEF Placed
<1>2. Distinct(queue') /\ Range(queue') = IF subscribed THEN Range(queue) \cup {e} ELSE Range(queue)
  <2>1. CASE subscribed
    BY <2>1, <1>0, <1>1, AppendRange DEF Publish, Placed
  <2>2. CASE ~ subscribed
    BY <2>2 DEF Publish, Placed
  <2> QED BY <2>1, <2>2
<1>3. ASSUME NEW r \in Records, r # e PROVE Places(r)' = Places(r)
  BY <1>2, <1>3, SamePlaces
<1>4. Places(e)' = IF subscribed THEN {"queue"} ELSE {}
  <2>1. /\ "queue" \in Places(e)' <=> subscribed
        /\ \A p \in Places(e)' : p = "queue"
    BY <1>1, <1>2, PlaceOf, PlaceOfNext
  <2> QED BY <2>1
<1>5. (\A r \in Records : (\A p, q \in Places(r) : p = q) /\ (Places(r) # {} => r \in emitted))'
  <2> SUFFICES ASSUME NEW r \in Records
               PROVE  (\A p, q \in Places(r)' : p = q) /\ (Places(r)' # {} => r \in emitted')
    OBVIOUS
  <2>1. CASE r = e
    BY <2>1, <1>4
  <2>2. CASE r # e
    BY <2>2, <1>3 DEF Placed
  <2> QED BY <2>1, <2>2
<1>6. (subscribed => \A r \in emitted \ Excluded : Places(r) # {})'
  <2> SUFFICES ASSUME subscribed, NEW r \in emitted' \ Excluded
               PROVE  Places(r)' # {}
    OBVIOUS
  <2>1. CASE r = e
    BY <2>1, <1>4
  <2>2. CASE r # e
    <3>1. Places(r) # {} /\ r \in Records
      BY <2>2, <1>0 DEF Placed
    <3> QED BY <2>2, <3>1, <1>3
  <2> QED BY <2>1, <2>2
<1>7. (\A g \in {"main", "ticker"} : taken[g] # {} => pc[g] = "upload")'
  BY DEF Placed
<1>8. Distinct(queue)' /\ Distinct(post)'
  BY <1>2 DEF Placed, Distinct
<1> QED BY <1>5, <1>6, <1>7, <1>8 DEF Placed

\* A runtimeDone is no record.
LEMMA PlacedRespond ==
  ASSUME Types, Control, Placed, Respond
  PROVE  Placed'
<1> USE DEF startup, delivery, logBuffer, s3
<1> DEFINE e == RuntimeDone(inv)
<1>0. queue \in Seq(Events) /\ inv \in 1 .. MaxInvocations /\ emitted \subseteq Records
  BY DEF Types, TypeOK, Control, Respond
<1>1. e \in Events /\ e \notin Records
  BY <1>0, EventFacts
<1> HIDE DEF e
<1>2. Distinct(queue') /\ \A r \in Records : r \in Range(queue') <=> r \in Range(queue)
  <2>1. CASE subscribed
    <3>1. queue' = Append(queue, e)
      BY <2>1 DEF Respond, Publish, e
    <3>2. Distinct(queue') /\ Range(queue') = Range(queue) \cup {e}
      BY <3>1, <1>0, <1>1, AppendRange DEF Placed
    <3> QED BY <3>2, <1>1
  <2>2. CASE ~ subscribed
    BY <2>2 DEF Respond, Publish, Placed
  <2> QED BY <2>1, <2>2
<1>3. UNCHANGED <<subscribed, emitted, post, buffer, taken, stored, dropped, pc>>
  BY DEF Respond
<1>4. ASSUME NEW r \in Records PROVE Places(r)' = Places(r)
  BY <1>2, <1>3, SamePlaces
<1>5. Distinct(queue)' /\ Distinct(post)'
  BY <1>2, <1>3 DEF Placed, Distinct
<1>6. \A g \in {"main", "ticker"} : taken'[g] # {} => pc'[g] = "upload"
  BY <1>3 DEF Placed
<1> QED BY <1>0, <1>3, <1>4, <1>5, <1>6, PlacedKept

\* A delivery moves the first of what is due into the request.
LEMMA PlacedDeliver ==
  ASSUME Types, Control, Placed, Deliver
  PROVE  Placed'
<1> USE DEF startup, delivery, logBuffer, s3
<1> PICK n \in 1 .. Len(queue) :
       post' = SubSeq(queue, 1, n) /\ queue' = SubSeq(queue, n + 1, Len(queue))
  BY DEF Deliver
<1>0. queue \in Seq(Events) /\ Distinct(queue) /\ emitted \subseteq Records
  BY DEF Types, TypeOK, Placed
<1>1. UNCHANGED <<subscribed, emitted, buffer, taken, stored, dropped, pc>>
  BY DEF Deliver
<1>2. /\ Distinct(post') /\ Distinct(queue')
      /\ \A r \in Records :
            /\ r \in Range(queue) <=> (r \in Range(post') \/ r \in Range(queue'))
            /\ ~ (r \in Range(post') /\ r \in Range(queue'))
  <2>0. PICK a, b : a = SubSeq(queue, 1, n) /\ b = SubSeq(queue, n + 1, Len(queue))
    OBVIOUS
  <2>s. Split(queue, n, a, b)
    BY <2>0 DEF Split
  <2>1. /\ Distinct(a) /\ Distinct(b)
        /\ \A r \in Records :
              /\ r \in Range(queue) <=> (r \in Range(a) \/ r \in Range(b))
              /\ ~ (r \in Range(a) /\ r \in Range(b))
    BY <1>0, <2>s, SplitRange
  <2>2. post' = a /\ queue' = b
    BY <2>0
  <2> QED BY <2>1, <2>2
<1>3. \A r : r \notin Range(post)
  BY DEF Deliver, Control, Range
<1>4. ASSUME NEW r \in Records
      PROVE  Places(r)' = Places(r) \/ (Places(r) # {} /\ \E p : Places(r)' = {p})
  <2>1. CASE r \in Range(post')
    <3>1. Places(r) = {"queue"}
      BY <2>1, <1>2, PlaceOf DEF Placed
    <3>2. r \notin buffer /\ r \notin taken["main"] /\ r \notin taken["ticker"]
          /\ r \notin stored /\ r \notin dropped
      BY <3>1, PlaceOf
    <3>3. "post" \in Places(r)' /\ \A p \in Places(r)' : p = "post"
      BY <2>1, <3>2, <1>1, <1>2, PlaceOfNext
    <3> QED BY <3>1, <3>3
  <2>2. CASE r \notin Range(post')
    BY <2>2, <1>1, <1>2, <1>3, SamePlaces
  <2> QED BY <2>1, <2>2
<1>5. \A g \in {"main", "ticker"} : taken'[g] # {} => pc'[g] = "upload"
  BY <1>1 DEF Placed
<1>6. Distinct(queue)' /\ Distinct(post)'
  BY <1>2 DEF Distinct
<1> QED BY <1>0, <1>1, <1>4, <1>5, <1>6, PlacedKept

\* What the request holds besides its head.
LEMMA TailRange ==
  ASSUME Types, Distinct(post), post # <<>>, NEW t, t = Tail(post), NEW h, h = Head(post)
  PROVE  /\ Distinct(t) /\ Range(post) = Range(t) \cup {h}
         /\ h \in Events /\ (h \in Records => h \notin Range(t))
<1>1. /\ h = post[1] /\ h \in Events /\ Len(post) \in Nat /\ Len(post) >= 1
      /\ DOMAIN post = 1 .. Len(post) /\ DOMAIN t = 1 .. Len(post) - 1
      /\ \A i \in 1 .. Len(post) - 1 : t[i] = post[i + 1]
  BY PostHead
<1>2. \A i \in 1 .. Len(post) - 1 : i + 1 \in 1 .. Len(post) /\ i + 1 # 1
  BY <1>1
<1>3. \A i \in 1 .. Len(post) : i = 1 \/ (i - 1 \in 1 .. Len(post) - 1 /\ i = (i - 1) + 1)
  BY <1>1
<1>4. Distinct(t)
  <2> SUFFICES ASSUME NEW i \in DOMAIN t, NEW j \in DOMAIN t, t[i] = t[j], t[i] \in Records
               PROVE  i = j
    BY DEF Distinct
  <2>1. i + 1 = j + 1
    BY <1>1, <1>2 DEF Distinct
  <2> QED BY <1>1, <2>1
<1>5. ASSUME NEW r \in Range(post) PROVE r \in Range(t) \cup {h}
  <2> PICK i \in 1 .. Len(post) : r = post[i]
    BY <1>1 DEF Range
  <2>1. CASE i = 1
    BY <2>1, <1>1
  <2>2. CASE i - 1 \in 1 .. Len(post) - 1 /\ i = (i - 1) + 1
    <3>1. t[i - 1] = post[i]
      BY <1>1, <2>2
    <3> QED BY <1>1, <2>2, <3>1 DEF Range
  <2> QED BY <1>3, <2>1, <2>2
<1>6. ASSUME NEW r \in Range(t)
      PROVE  r \in Range(post) /\ \E j \in 1 .. Len(post) : j # 1 /\ r = post[j]
  <2> PICK i \in 1 .. Len(post) - 1 : r = t[i]
    BY <1>1 DEF Range
  <2>1. r = post[i + 1] /\ i + 1 \in 1 .. Len(post) /\ i + 1 # 1
    BY <1>1, <1>2
  <2> QED BY <1>1, <2>1 DEF Range
<1>7. h \in Range(post)
  BY PostHead
<1>8. h \in Records => h \notin Range(t)
  <2> SUFFICES ASSUME h \in Records, h \in Range(t) PROVE FALSE
    OBVIOUS
  <2> PICK j \in 1 .. Len(post) : j # 1 /\ h = post[j]
    BY <1>6
  <2>1. 1 \in DOMAIN post /\ j \in DOMAIN post /\ post[1] = post[j] /\ post[1] \in Records
    BY <1>1
  <2> QED BY <2>1 DEF Distinct
<1>9. Range(post) = Range(t) \cup {h}
  BY <1>5, <1>6, <1>7
<1> QED BY <1>1, <1>4, <1>8, <1>9

\* Parsing moves a record into the buffer, or discards it for its level.
LEMMA PlacedParse ==
  ASSUME Types, Control, Placed, Parse
  PROVE  Placed'
<1> USE DEF startup, platform, delivery, logBuffer, s3
<1> PICK h, t : h = Head(post) /\ t = Tail(post)
  OBVIOUS
<1>0. post # <<>> /\ Distinct(post) /\ Distinct(queue) /\ emitted \subseteq Records
  BY DEF Types, TypeOK, Placed, Control, Parse
<1>1. /\ Distinct(t) /\ Range(post) = Range(t) \cup {h}
      /\ h \in Events /\ (h \in Records => h \notin Range(t))
  BY <1>0, TailRange
<1>2. UNCHANGED <<subscribed, emitted, queue, taken, stored, dropped, pc>> /\ post' = t
  BY DEF Parse
<1>3. ASSUME NEW r \in Records, r # h, r \in buffer' <=> r \in buffer
      PROVE  Places(r)' = Places(r)
  BY <1>3, <1>1, <1>2, SamePlaces
<1>h. ASSUME h \in Records
      PROVE  /\ Places(h) = {"post"} /\ h \notin Range(queue) /\ h \notin buffer
             /\ h \notin taken["main"] /\ h \notin taken["ticker"]
             /\ h \notin stored /\ h \notin dropped
  <2>1. Places(h) = {"post"}
    BY <1>h, <1>1, PlaceOf DEF Placed
  <2> QED BY <2>1, PlaceOf
<1>4. ASSUME NEW r \in Records
      PROVE  \/ Places(r)' = Places(r)
             \/ Places(r) # {} /\ (\E p : Places(r)' = {p})
             \/ r \in Excluded /\ Places(r)' = {}
  <2>1. CASE IsRuntimeDone(h) /\ UNCHANGED buffer
    <3>1. r # h
      BY <2>1, EventFacts
    <3> QED BY <2>1, <3>1, <1>3
  <2>2. CASE ~ IsRuntimeDone(h) /\ ~ ShouldInclude(h) /\ UNCHANGED buffer
    <3>1. CASE r # h
      BY <2>2, <3>1, <1>3
    <3>2. CASE r = h
      <4>1. r \in Excluded
        BY <2>2, <3>2 DEF ShouldInclude
      <4>2. Places(r)' = {}
        <5>1. \A p : p \notin Places(r)'
          BY <3>2, <2>2, <1>h, <1>1, <1>2, PlaceOfNext
        <5> QED BY <5>1
      <4> QED BY <4>1, <4>2
    <3> QED BY <3>1, <3>2
  <2>3. CASE ~ IsRuntimeDone(h) /\ AppendEntry(h)
    <3>0. buffer' = buffer \cup {h}
      BY <2>3 DEF AppendEntry
    <3>1. CASE r # h
      BY <3>0, <3>1, <1>3
    <3>2. CASE r = h
      <4>1. "buffer" \in Places(r)' /\ \A p \in Places(r)' : p = "buffer"
        BY <3>0, <3>2, <1>h, <1>1, <1>2, PlaceOfNext
      <4>2. Places(r) # {}
        BY <3>2, <1>h
      <4> QED BY <4>1, <4>2
    <3> QED BY <3>1, <3>2
  <2>4. \/ IsRuntimeDone(h) /\ UNCHANGED buffer
        \/ ~ IsRuntimeDone(h) /\ ~ ShouldInclude(h) /\ UNCHANGED buffer
        \/ ~ IsRuntimeDone(h) /\ AppendEntry(h)
    BY DEF Parse
  <2> QED BY <2>1, <2>2, <2>3, <2>4
<1>5. \A g \in {"main", "ticker"} : taken'[g] # {} => pc'[g] = "upload"
  BY <1>2 DEF Placed
<1>6. Distinct(queue)' /\ Distinct(post)'
  BY <1>0, <1>1, <1>2 DEF Distinct
<1>7. UNCHANGED <<subscribed, emitted>>
  BY <1>2
<1> QED BY <1>0, <1>7, <1>4, <1>5, <1>6, PlacedKept

\* A flush takes all of the buffer; its goroutine held nothing before.
LEMMA PlacedSwap ==
  ASSUME Types, Placed, NEW g \in {"main", "ticker"}, Swap(g)
  PROVE  Placed'
<1> USE DEF startup, platform, delivery, logBuffer, s3, Goto
<1>0. /\ emitted \subseteq Records /\ taken[g] = {} /\ pc[g] = "flush"
      /\ Distinct(post) /\ Distinct(queue)
  BY DEF Types, TypeOK, Placed, Swap
<1>1. /\ UNCHANGED <<subscribed, emitted, queue, post, stored, dropped>>
      /\ buffer' = {} /\ taken' = [taken EXCEPT ![g] = buffer]
      /\ taken \in [{"main", "ticker"} -> SUBSET Records]
      /\ pc \in [{"main", "ticker"} -> MainLabels \cup TickerLabels]
      /\ pc' = [pc EXCEPT ![g] = IF buffer = {} THEN Resume(g) ELSE "upload"]
  BY DEF Swap, Types, TypeOK
<1>2. \A h \in {"main", "ticker"} : h # g => taken'[h] = taken[h] /\ pc'[h] = pc[h]
  BY <1>1
<1>3. taken'[g] = buffer /\ (buffer # {} => pc'[g] = "upload")
  BY <1>1
<1>4. ASSUME NEW r \in Records
      PROVE  \/ Places(r)' = Places(r)
             \/ Places(r) # {} /\ (\E p : Places(r)' = {p})
  <2>1. CASE r \in buffer
    <3>1. Places(r) = {"buffer"}
      BY <2>1, PlaceOf DEF Placed
    <3>2. /\ r \notin Range(queue) /\ r \notin Range(post) /\ r \notin stored /\ r \notin dropped
          /\ r \notin taken["main"] /\ r \notin taken["ticker"]
      BY <3>1, PlaceOf
    <3>3. g \in Places(r)' /\ \A p \in Places(r)' : p = g
      <4>1. CASE g = "main"
        BY <2>1, <3>2, <4>1, <1>1, <1>2, <1>3, PlaceOfNext
      <4>2. CASE g = "ticker"
        BY <2>1, <3>2, <4>2, <1>1, <1>2, <1>3, PlaceOfNext
      <4> QED BY <4>1, <4>2
    <3> QED BY <3>1, <3>3
  <2>2. CASE r \notin buffer
    <3>1. /\ r \in taken'["main"] <=> r \in taken["main"]
          /\ r \in taken'["ticker"] <=> r \in taken["ticker"]
      BY <2>2, <1>0, <1>2, <1>3
    <3> QED BY <2>2, <3>1, <1>1, SamePlacesTaken
  <2> QED BY <2>1, <2>2
<1>5. \A h \in {"main", "ticker"} : taken'[h] # {} => pc'[h] = "upload"
  BY <1>2, <1>3 DEF Placed
<1>6. Distinct(queue)' /\ Distinct(post)'
  BY <1>0, <1>1 DEF Distinct
<1>7. UNCHANGED <<subscribed, emitted>>
  BY <1>1
<1> QED BY <1>0, <1>4, <1>5, <1>6, <1>7, PlacedKept

\* What a goroutine has taken is stored, or dropped.
LEMMA PlacedUpload ==
  ASSUME Types, Placed, NEW g \in {"main", "ticker"}, Upload(g)
  PROVE  Placed'
<1> USE DEF startup, platform, delivery, logBuffer, Goto
<1>0. emitted \subseteq Records /\ Distinct(post) /\ Distinct(queue)
  BY DEF Types, TypeOK, Placed
<1>1. /\ UNCHANGED <<subscribed, emitted, queue, post, buffer>>
      /\ taken' = [taken EXCEPT ![g] = {}]
      /\ taken \in [{"main", "ticker"} -> SUBSET Records]
      /\ pc \in [{"main", "ticker"} -> MainLabels \cup TickerLabels]
      /\ pc' = [pc EXCEPT ![g] = Resume(g)]
      /\ \/ stored' = stored \cup taken[g] /\ dropped' = dropped
         \/ dropped' = dropped \cup taken[g] /\ stored' = stored
  BY DEF Upload, Types, TypeOK
<1>2. \A h \in {"main", "ticker"} : h # g => taken'[h] = taken[h] /\ pc'[h] = pc[h]
  BY <1>1
<1>3. taken'[g] = {}
  BY <1>1
<1>4. ASSUME NEW r \in Records
      PROVE  \/ Places(r)' = Places(r)
             \/ Places(r) # {} /\ (\E p : Places(r)' = {p})
  <2>1. CASE r \in taken[g]
    <3>1. Places(r) = {g}
      BY <2>1, PlaceOf DEF Placed
    <3>2. /\ r \notin Range(queue) /\ r \notin Range(post) /\ r \notin buffer
          /\ r \notin stored /\ r \notin dropped
      BY <3>1, PlaceOf
    <3>3. \A h \in {"main", "ticker"} : r \notin taken'[h]
      BY <1>2, <1>3, <3>1, PlaceOf
    <3>4. CASE stored' = stored \cup taken[g] /\ dropped' = dropped
      <4>1. "stored" \in Places(r)' /\ \A p \in Places(r)' : p = "stored"
        BY <2>1, <3>2, <3>3, <3>4, <1>1, PlaceOfNext
      <4> QED BY <3>1, <4>1
    <3>5. CASE dropped' = dropped \cup taken[g] /\ stored' = stored
      <4>1. "dropped" \in Places(r)' /\ \A p \in Places(r)' : p = "dropped"
        BY <2>1, <3>2, <3>3, <3>5, <1>1, PlaceOfNext
      <4> QED BY <3>1, <4>1
    <3> QED BY <3>4, <3>5, <1>1
  <2>2. CASE r \notin taken[g]
    <3>1. /\ r \in taken'["main"] <=> r \in taken["main"]
          /\ r \in taken'["ticker"] <=> r \in taken["ticker"]
      BY <2>2, <1>2, <1>3
    <3>2. (r \in stored' <=> r \in stored) /\ (r \in dropped' <=> r \in dropped)
      BY <2>2, <1>1
    <3> QED BY <3>1, <3>2, <1>1, SamePlacesTaken
  <2> QED BY <2>1, <2>2
<1>5. \A h \in {"main", "ticker"} : taken'[h] # {} => pc'[h] = "upload"
  BY <1>2, <1>3 DEF Placed
<1>6. Distinct(queue)' /\ Distinct(post)'
  BY <1>0, <1>1 DEF Distinct
<1>7. UNCHANGED <<subscribed, emitted>>
  BY <1>1
<1> QED BY <1>0, <1>4, <1>5, <1>6, <1>7, PlacedKept

\* The other steps move no record and leave no upload.
LEMMA PlacedMoved ==
  ASSUME Types, Placed,
         UNCHANGED <<subscribed, emitted, queue, post, buffer, taken, stored, dropped>>,
         \A g \in {"main", "ticker"} : pc[g] = "upload" => pc'[g] = "upload"
  PROVE  Placed'
<1>1. ASSUME NEW r \in Records PROVE Places(r)' = Places(r)
  BY SamePlaces
<1>2. emitted \subseteq Records
  BY DEF Types, TypeOK
<1>3. \A g \in {"main", "ticker"} : taken'[g] # {} => pc'[g] = "upload"
  BY DEF Placed
<1>4. Distinct(queue)' /\ Distinct(post)'
  BY DEF Placed, Distinct
<1>5. UNCHANGED <<subscribed, emitted>>
  OBVIOUS
<1> QED BY <1>1, <1>2, <1>3, <1>4, <1>5, PlacedKept

\* At the start there is no record.
LEMMA InitPlaced == Init => Placed
<1> SUFFICES ASSUME Init PROVE Placed
  OBVIOUS
<1>1. Distinct(queue) /\ Distinct(post) /\ Range(queue) = {} /\ Range(post) = {}
  BY DEF Init, Distinct, Range
<1>2. \A g \in {"main", "ticker"} : taken[g] = {}
  BY DEF Init
<1>3. \A r \in Records : Places(r) = {}
  <2> SUFFICES ASSUME NEW r \in Records, NEW p \in Places(r) PROVE FALSE
    OBVIOUS
  <2> QED BY <1>1, <1>2, PlaceOf DEF Init
<1>4. emitted = {}
  BY DEF Init
<1> QED BY <1>1, <1>2, <1>3, <1>4 DEF Placed

\* Each step keeps every record in its one place.
LEMMA PlacedNext ==
  ASSUME Types, Control, Placed, [Next]_vars
  PROVE  Placed'
<1> USE DEF startup, platform, delivery, logBuffer, s3
<1>0. /\ inv \in 0 .. MaxInvocations
      /\ pc \in [{"main", "ticker"} -> MainLabels \cup TickerLabels]
  BY DEF Types, TypeOK
<1>m. ASSUME NEW g \in {"main", "ticker"}, NEW label, Goto(g, label), pc[g] # "upload"
      PROVE  \A h \in {"main", "ticker"} : pc[h] = "upload" => pc'[h] = "upload"
  BY <1>0, <1>m DEF Goto
<1>1. CASE Register
  <2>1. \A h \in {"main", "ticker"} : pc[h] = "upload" => pc'[h] = "upload"
    <3>1. \A label : \A h \in {"main", "ticker"} :
             Goto("main", label) /\ pc["main"] = "register" =>
                (pc[h] = "upload" => pc'[h] = "upload")
      BY <1>m
    <3>2. pc' = pc \/ \E label : Goto("main", label)
      BY <1>1 DEF Register
    <3> QED BY <1>1, <3>1, <3>2 DEF Register
  <2> QED BY <1>1, <2>1, PlacedMoved DEF Register
<1>2. CASE Subscribe
  <2>1. \A h \in {"main", "ticker"} : pc[h] = "upload" => pc'[h] = "upload"
    BY <1>2, <1>m DEF Subscribe
  <2>2. emitted' = {} /\ UNCHANGED <<queue, post, buffer, taken, stored, dropped>>
    BY <1>2 DEF Subscribe, Control
  <2>3. ASSUME NEW r \in Records
        PROVE  (\A p, q \in Places(r)' : p = q) /\ (Places(r)' # {} => r \in emitted')
    <3>1. Places(r)' = Places(r) /\ emitted' = emitted
      BY <1>2, <2>2, SamePlaces DEF Subscribe
    <3> QED BY <3>1 DEF Placed
  <2>4. (\A r \in Records : (\A p, q \in Places(r) : p = q) /\ (Places(r) # {} => r \in emitted))'
    BY <2>3
  <2>5. (subscribed => \A r \in emitted \ Excluded : Places(r) # {})'
    BY <2>2
  <2>6. (\A g \in {"main", "ticker"} : taken[g] # {} => pc[g] = "upload")'
    BY <2>1, <2>2 DEF Placed
  <2>7. Distinct(queue)' /\ Distinct(post)'
    BY <2>2 DEF Placed, Distinct
  <2> QED BY <2>4, <2>5, <2>6, <2>7 DEF Placed
<1>3. CASE Initialised
  BY <1>3, PlacedMoved DEF Initialised
<1>4. CASE Invoke
  <2>1. \A h \in {"main", "ticker"} : pc[h] = "upload" => pc'[h] = "upload"
    BY <1>4, <1>m DEF Invoke, Control
  <2> QED BY <1>4, <2>1, PlacedMoved DEF Invoke
<1>5. CASE Log
  <2> PICK k \in 1 .. LogsPerInvocation :
         <<inv, k>> \notin emitted /\ emitted' = emitted \cup {<<inv, k>>} /\ Publish(<<inv, k>>)
    BY <1>5 DEF Log
  <2>1. <<inv, k>> \in Records
    BY <1>0, <1>5, EventFacts DEF Log, Control
  <2> QED BY <1>5, <2>1, PlacedLogged DEF Log
<1>6. CASE Respond
  BY <1>6, PlacedRespond
<1>7. CASE Freeze
  <2>1. Report(inv) \in Records /\ Report(inv) \notin emitted
    BY <1>0, <1>7, EventFacts DEF Freeze, Control
  <2> QED BY <1>7, <2>1, PlacedLogged DEF Freeze
<1>8. CASE Shutdown
  <2>1. \A h \in {"main", "ticker"} : pc[h] = "upload" => pc'[h] = "upload"
    BY <1>8, <1>m DEF Shutdown, Control
  <2> QED BY <1>8, <2>1, PlacedMoved DEF Shutdown
<1>9. CASE NextFails
  <2>1. \A h \in {"main", "ticker"} : pc[h] = "upload" => pc'[h] = "upload"
    BY <1>9, <1>m DEF NextFails
  <2> QED BY <1>9, <2>1, PlacedMoved DEF NextFails
<1>10. CASE Die
  BY <1>10, PlacedMoved DEF Die
<1>11. CASE Deliver
  BY <1>11, PlacedDeliver
<1>12. CASE Parse
  BY <1>12, PlacedParse
<1>13. CASE Signal
  BY <1>13, PlacedMoved DEF Signal
<1>14. CASE Await
  <2>1. \A h \in {"main", "ticker"} : pc[h] = "upload" => pc'[h] = "upload"
    BY <1>14, <1>m DEF Await
  <2> QED BY <1>14, <2>1, PlacedMoved DEF Await
<1>15. CASE Check
  <2>1. \A h \in {"main", "ticker"} : pc[h] = "upload" => pc'[h] = "upload"
    BY <1>15, <1>m DEF Check
  <2> QED BY <1>15, <2>1, PlacedMoved DEF Check
<1>16. ASSUME NEW g \in {"main", "ticker"}, Flush(g)
       PROVE  Placed'
  BY <1>16, PlacedSwap, PlacedUpload DEF Flush
<1>17. CASE Cancel
  <2>1. \A h \in {"main", "ticker"} : pc[h] = "upload" => pc'[h] = "upload"
    BY <1>17, <1>m DEF Cancel
  <2> QED BY <1>17, <2>1, PlacedMoved DEF Cancel
<1>18. CASE Join
  <2>1. \A h \in {"main", "ticker"} : pc[h] = "upload" => pc'[h] = "upload"
    BY <1>18, <1>m DEF Join
  <2> QED BY <1>18, <2>1, PlacedMoved DEF Join
<1>19. CASE CloseServer
  <2>1. \A h \in {"main", "ticker"} : pc[h] = "upload" => pc'[h] = "upload"
    BY <1>19, <1>m DEF CloseServer
  <2> QED BY <1>19, <2>1, PlacedMoved DEF CloseServer
<1>20. CASE Tick
  <2>1. \A h \in {"main", "ticker"} : pc[h] = "upload" => pc'[h] = "upload"
    BY <1>20, <1>m DEF Tick
  <2> QED BY <1>20, <2>1, PlacedMoved DEF Tick
<1>21. CASE TickerEnds
  <2>1. \A h \in {"main", "ticker"} : pc[h] = "upload" => pc'[h] = "upload"
    BY <1>21, <1>m DEF TickerEnds
  <2> QED BY <1>21, <2>1, PlacedMoved DEF TickerEnds
<1>22. CASE UNCHANGED vars
  BY <1>22, PlacedMoved DEF vars
<1> QED BY <1>1, <1>2, <1>3, <1>4, <1>5, <1>6, <1>7, <1>8, <1>9, <1>10, <1>11, <1>12, <1>13,
           <1>14, <1>15, <1>16, <1>17, <1>18, <1>19, <1>20, <1>21, <1>22
        DEF Next, Lambda, Handler, Main, Ticker

-----------------------------------------------------------------------------
(* The order of an invocation. *)

\* Ordered of the next state, its variables spelt out.
LEMMA OrderedIs ==
  ASSUME subscribed' /\ waitOn' /\ ~ timedOut' =>
       /\ phase' = "running" =>
             /\ pc'.main = "await" /\ NoneDone(queue') /\ NoneDone(post')
             /\ ~ flushRequested' /\ ~ runtimeDone'
       /\ phase' = "responded" /\ pc'.main = "await" =>
             \/ EndsDone(queue') /\ NoneDone(post') /\ ~ flushRequested' /\ ~ runtimeDone'
             \/ queue' = <<>> /\ EndsDone(post') /\ ~ flushRequested' /\ ~ runtimeDone'
             \/ /\ queue' = <<>> /\ post' = <<>>
                /\ (flushRequested' /\ ~ runtimeDone') \/ (runtimeDone' /\ ~ flushRequested')
       /\ phase' = "responded" /\ pc'.main # "await" =>
             /\ queue' = <<>> /\ post' = <<>> /\ ~ flushRequested' /\ ~ runtimeDone'
             /\ pc'.main \in {"upload", "next"} => buffer' = {}
       /\ phase' = "frozen" =>
             /\ post' = <<>> /\ buffer' = {} /\ Range(queue') \subseteq {Report(inv')}
             /\ ~ flushRequested' /\ ~ runtimeDone'
  PROVE Ordered'
BY DEF Ordered, Waiting, Quiet, NoneDone, EndsDone, Coming, Settled, AtRest, Range, Report

\* Where runtimeDone is, in the empty sequence, ...
LEMMA DoneEmpty == NoneDone(<<>>) /\ ~ EndsDone(<<>>)
BY DEF NoneDone, EndsDone

\* ... in one that grows, ...
LEMMA DoneAppend ==
  ASSUME NEW s \in Seq(Events), NoneDone(s), NEW e \in Events, NEW t, t = Append(s, e)
  PROVE  /\ ~ IsRuntimeDone(e) => NoneDone(t)
         /\ IsRuntimeDone(e) => EndsDone(t)
<1>1. /\ Len(s) \in Nat /\ DOMAIN s = 1 .. Len(s)
      /\ Len(t) = Len(s) + 1 /\ DOMAIN t = 1 .. Len(s) + 1 /\ t[Len(s) + 1] = e
      /\ \A i \in 1 .. Len(s) : t[i] = s[i]
  BY AppendProperties, LenProperties
<1>2. \A i \in 1 .. Len(s) + 1 :
         (i \in 1 .. Len(s) /\ i # Len(s) + 1) \/ i = Len(s) + 1
  BY <1>1
<1>3. t # <<>>
  BY <1>1
<1>4. \A i \in 1 .. Len(s) : ~ IsRuntimeDone(t[i])
  BY <1>1 DEF NoneDone
<1>5. ~ IsRuntimeDone(e) => NoneDone(t)
  BY <1>1, <1>2, <1>4 DEF NoneDone
<1>6. IsRuntimeDone(e) => EndsDone(t)
  BY <1>1, <1>2, <1>3, <1>4 DEF EndsDone
<1> QED BY <1>5, <1>6

\* ... in one that is delivered in parts, ...
LEMMA DoneSplit ==
  ASSUME NEW s \in Seq(Events), NEW n \in 1 .. Len(s), NEW a, NEW b, Split(s, n, a, b)
  PROVE  /\ NoneDone(s) => NoneDone(a) /\ NoneDone(b)
         /\ EndsDone(s) => (b = <<>> /\ EndsDone(a)) \/ (EndsDone(b) /\ NoneDone(a))
<1>1. PICK l \in Nat : l = Len(s) /\ DOMAIN s = 1 .. l
  BY LenProperties
<1>n. n \in 1 .. l
  BY <1>1
<1>2. /\ a \in Seq(Events) /\ b \in Seq(Events)
      /\ DOMAIN a = 1 .. n /\ DOMAIN b = 1 .. l - n
      /\ Len(a) = n /\ Len(b) = l - n
      /\ \A i \in 1 .. n : a[i] = s[i]
      /\ \A i \in 1 .. l - n : b[i] = s[n + i]
  BY <1>1, SeqSplit, LenProperties DEF Split
<1>3. /\ \A i \in 1 .. n : i \in 1 .. l
      /\ \A i \in 1 .. l - n : n + i \in 1 .. l
  BY <1>n
<1>4. NoneDone(s) => NoneDone(a) /\ NoneDone(b)
  BY <1>1, <1>2, <1>3 DEF NoneDone
<1>5. ASSUME EndsDone(s), n = l
      PROVE  b = <<>> /\ EndsDone(a)
  <2>1. b = <<>>
    <3>1. Len(b) = 0
      BY <1>2, <1>5
    <3> QED BY <1>2, <3>1, EmptySeq
  <2>2. a # <<>>
    <3>1. Len(a) # 0
      BY <1>2, <1>n
    <3> QED BY <1>2, <3>1, EmptySeq
  <2>3. \A i \in 1 .. n : IsRuntimeDone(a[i]) <=> i = Len(a)
    BY <1>1, <1>2, <1>5 DEF EndsDone
  <2> QED BY <1>2, <2>1, <2>2, <2>3 DEF EndsDone
<1>6. ASSUME EndsDone(s), n # l
      PROVE  EndsDone(b) /\ NoneDone(a)
  <2>0. n < l
    BY <1>n, <1>6
  <2>1. b # <<>>
    <3>1. Len(b) # 0
      BY <1>2, <1>n, <2>0
    <3> QED BY <1>2, <3>1, EmptySeq
  <2>2. ASSUME NEW i \in 1 .. l - n
        PROVE  IsRuntimeDone(b[i]) <=> i = Len(b)
    <3>1. IsRuntimeDone(s[n + i]) <=> n + i = l
      BY <1>1, <1>3, <1>6 DEF EndsDone
    <3>2. n + i = l <=> i = l - n
      BY <1>n
    <3> QED BY <1>2, <3>1, <3>2
  <2>3. ASSUME NEW i \in 1 .. n
        PROVE  ~ IsRuntimeDone(a[i])
    <3>1. IsRuntimeDone(s[i]) <=> i = l
      BY <1>1, <1>3, <1>6 DEF EndsDone
    <3>2. i # l
      BY <1>n, <2>0
    <3> QED BY <1>2, <3>1, <3>2
  <2> QED BY <1>2, <2>1, <2>2, <2>3 DEF EndsDone, NoneDone
<1> QED BY <1>4, <1>5, <1>6

\* ... and in one that is parsed.
LEMMA DoneTail ==
  ASSUME Types, post # <<>>, NEW t, t = Tail(post), NEW h, h = Head(post)
  PROVE  /\ NoneDone(post) => ~ IsRuntimeDone(h) /\ NoneDone(t)
         /\ EndsDone(post) => \/ IsRuntimeDone(h) /\ t = <<>>
                              \/ ~ IsRuntimeDone(h) /\ EndsDone(t)
<1>1. /\ h = post[1] /\ t \in Seq(Events) /\ Len(post) \in Nat /\ Len(post) >= 1
      /\ DOMAIN post = 1 .. Len(post) /\ DOMAIN t = 1 .. Len(post) - 1
      /\ Len(t) = Len(post) - 1
      /\ \A i \in 1 .. Len(post) - 1 : t[i] = post[i + 1]
  BY PostHead
<1>2. /\ \A i \in 1 .. Len(post) - 1 : i + 1 \in 1 .. Len(post)
      /\ 1 \in 1 .. Len(post)
  BY <1>1
<1>3. NoneDone(post) => ~ IsRuntimeDone(h) /\ NoneDone(t)
  BY <1>1, <1>2 DEF NoneDone
<1>4. ASSUME EndsDone(post), Len(post) = 1
      PROVE  IsRuntimeDone(h) /\ t = <<>>
  <2>1. t = <<>>
    BY <1>1, <1>4, EmptySeq
  <2> QED BY <1>1, <1>2, <1>4, <2>1 DEF EndsDone
<1>5. ASSUME EndsDone(post), Len(post) # 1
      PROVE  ~ IsRuntimeDone(h) /\ EndsDone(t)
  <2>1. ~ IsRuntimeDone(h)
    BY <1>1, <1>2, <1>5 DEF EndsDone
  <2>2. t # <<>>
    <3>1. Len(t) # 0
      BY <1>1, <1>5
    <3> QED BY <1>1, <3>1, EmptySeq
  <2>3. ASSUME NEW i \in 1 .. Len(post) - 1
        PROVE  IsRuntimeDone(t[i]) <=> i = Len(t)
    <3>1. IsRuntimeDone(post[i + 1]) <=> i + 1 = Len(post)
      BY <1>1, <1>2, <1>5 DEF EndsDone
    <3>2. i + 1 = Len(post) <=> i = Len(t)
      BY <1>1
    <3> QED BY <1>1, <3>1, <3>2
  <2> QED BY <1>1, <2>1, <2>2, <2>3 DEF EndsDone
<1> QED BY <1>3, <1>4, <1>5

\* Ticks and the like.
LEMMA OrderedSame ==
  ASSUME Ordered, pc'.main = pc.main,
         UNCHANGED <<subscribed, waitOn, timedOut, phase, inv, queue, post, flushRequested,
                     runtimeDone, buffer>>
  PROVE  Ordered'
BY OrderedIs DEF Ordered, Waiting, Quiet, Coming, Settled, AtRest

\* Main moves on after its wait.
LEMMA OrderedMoved ==
  ASSUME Ordered, Thawed, pc.main # "await", pc'.main # "await",
         pc'.main \in {"upload", "next"} => buffer' = {},
         UNCHANGED <<subscribed, waitOn, timedOut, phase, queue, post, flushRequested,
                     runtimeDone>>
  PROVE  Ordered'
BY OrderedIs DEF Ordered, Waiting, Quiet, Settled, Thawed

\* An invocation starts with no signal left from another.
LEMMA OrderedInvoke ==
  ASSUME Types, Control, Ordered, Invoke
  PROVE  Ordered'
<1> USE DEF startup, delivery, logBuffer
<1>0. pc'.main = IF subscribed THEN "await" ELSE "next"
  BY DEF Invoke, Goto, Types, TypeOK
<1>1. ASSUME Waiting PROVE NoneDone(queue)
  <2>1. Range(queue) \subseteq {Report(inv)}
    BY <1>1 DEF Invoke, Ordered, AtRest
  <2>2. ~ IsRuntimeDone(Report(inv))
    BY BoundsAssumption DEF Report, IsRuntimeDone
  <2> QED BY <2>1, <2>2 DEF NoneDone, Range
<1>2. ASSUME Waiting PROVE post = <<>> /\ Quiet
  BY <1>2 DEF Invoke, Ordered, AtRest
<1>3. /\ UNCHANGED <<subscribed, waitOn, timedOut, queue, post, flushRequested, runtimeDone>>
      /\ phase' = "running"
  BY DEF Invoke
<1> QED BY <1>0, <1>1, <1>2, <1>3, DoneEmpty, OrderedIs DEF Waiting, Quiet

\* What is logged comes before runtimeDone.
LEMMA OrderedLog ==
  ASSUME Types, Control, Ordered, Log
  PROVE  Ordered'
<1> USE DEF startup, delivery, logBuffer
<1> PICK k \in 1 .. LogsPerInvocation : Publish(<<inv, k>>)
  BY DEF Log
<1>0. PICK e : e = <<inv, k>>
  OBVIOUS
<1>1. e \in Events /\ ~ IsRuntimeDone(e) /\ queue \in Seq(Events)
  <2>1. inv \in 1 .. MaxInvocations
    BY DEF Types, TypeOK, Control, Log
  <2>2. e \in Records
    BY <1>0, <2>1, EventFacts
  <2> QED BY <2>2, EventFacts DEF Types, TypeOK
<1>2. ASSUME Waiting
      PROVE  pc.main = "await" /\ NoneDone(queue) /\ NoneDone(post) /\ Quiet
  BY <1>2 DEF Ordered, Log
<1>3. ASSUME Waiting PROVE NoneDone(queue')
  <2>1. queue' = Append(queue, e)
    BY <1>3, <1>0 DEF Publish, Waiting
  <2> QED BY <1>1, <1>2, <1>3, <2>1, DoneAppend
<1>4. /\ UNCHANGED <<subscribed, waitOn, timedOut, post, flushRequested, runtimeDone, pc>>
      /\ phase' = "running"
  BY DEF Log
<1> QED BY <1>2, <1>3, <1>4, OrderedIs DEF Waiting, Quiet

\* runtimeDone is the last of what is due.
LEMMA OrderedRespond ==
  ASSUME Types, Control, Ordered, Respond
  PROVE  Ordered'
<1> USE DEF startup, delivery, logBuffer
<1>0. PICK e : e = RuntimeDone(inv)
  OBVIOUS
<1>1. e \in Events /\ IsRuntimeDone(e) /\ queue \in Seq(Events)
  <2>1. inv \in 1 .. MaxInvocations
    BY DEF Types, TypeOK, Control, Respond
  <2> QED BY <1>0, <2>1, EventFacts DEF Types, TypeOK
<1>2. ASSUME Waiting
      PROVE  pc.main = "await" /\ NoneDone(queue) /\ NoneDone(post) /\ Quiet
  BY <1>2 DEF Ordered, Respond
<1>3. ASSUME Waiting PROVE EndsDone(queue')
  <2>1. queue' = Append(queue, e)
    BY <1>3, <1>0 DEF Respond, Publish, Waiting
  <2> QED BY <1>1, <1>2, <1>3, <2>1, DoneAppend
<1>4. /\ UNCHANGED <<subscribed, waitOn, timedOut, post, flushRequested, runtimeDone, pc>>
      /\ phase' = "responded"
  BY DEF Respond
<1> QED BY <1>2, <1>3, <1>4, OrderedIs DEF Waiting, Quiet

\* The environment is at rest but for the report.
LEMMA OrderedFreeze ==
  ASSUME Types, Control, Ordered, Freeze
  PROVE  Ordered'
<1> USE DEF startup, delivery, logBuffer
<1>0. PICK e : e = Report(inv)
  OBVIOUS
<1>2. ASSUME Waiting
      PROVE  queue = <<>> /\ post = <<>> /\ Quiet /\ buffer = {}
  BY <1>2 DEF Ordered, Freeze, Settled
<1>3. ASSUME Waiting PROVE Range(queue') \subseteq {Report(inv)}
  <2>1. queue' = Append(<<>>, e)
    BY <1>2, <1>3, <1>0 DEF Freeze, Publish, Waiting
  <2>2. queue' = <<e>>
    BY <2>1
  <2>3. Range(queue') = {e}
    BY <2>2 DEF Range
  <2> QED BY <1>0, <2>3
<1>4. /\ UNCHANGED <<subscribed, waitOn, timedOut, post, flushRequested, runtimeDone, buffer, inv>>
      /\ phase' = "frozen"
  BY DEF Freeze
<1>5. Report(inv') = Report(inv)
  BY <1>4 DEF Report
<1> QED BY <1>2, <1>3, <1>4, <1>5, OrderedIs DEF Waiting, Quiet

\* A part of what is due holds runtimeDone only at its end.
LEMMA OrderedDeliver ==
  ASSUME Types, Control, Ordered, Deliver
  PROVE  Ordered'
<1> USE DEF startup, delivery, logBuffer
<1> PICK n \in 1 .. Len(queue) :
       post' = SubSeq(queue, 1, n) /\ queue' = SubSeq(queue, n + 1, Len(queue))
  BY DEF Deliver
<1>0. queue \in Seq(Events) /\ queue # <<>> /\ post = <<>>
  <2>1. queue # <<>>
    <3> SUFFICES ASSUME queue = <<>> PROVE FALSE
      OBVIOUS
    <3>1. Len(queue) = 0
      OBVIOUS
    <3> QED BY <3>1
  <2> QED BY <2>1 DEF Types, TypeOK, Control, Deliver
<1>1. PICK a, b : a = SubSeq(queue, 1, n) /\ b = SubSeq(queue, n + 1, Len(queue))
  OBVIOUS
<1>2. /\ NoneDone(queue) => NoneDone(a) /\ NoneDone(b)
      /\ EndsDone(queue) => (b = <<>> /\ EndsDone(a)) \/ (EndsDone(b) /\ NoneDone(a))
  <2>1. Split(queue, n, a, b)
    BY <1>1 DEF Split
  <2> QED BY <1>0, <2>1, DoneSplit
<1>3. post' = a /\ queue' = b
  BY <1>1
<1>4. /\ UNCHANGED <<subscribed, waitOn, timedOut, flushRequested, runtimeDone, phase, pc>>
      /\ phase # "frozen"
  BY DEF Deliver, Thawed
<1>5. ASSUME Waiting, phase = "running"
      PROVE  pc.main = "await" /\ NoneDone(a) /\ NoneDone(b) /\ Quiet
  BY <1>2, <1>5 DEF Ordered
<1>6. ASSUME Waiting, phase = "responded"
      PROVE  /\ pc.main = "await" /\ Quiet
             /\ (b = <<>> /\ EndsDone(a)) \/ (EndsDone(b) /\ NoneDone(a))
  BY <1>0, <1>2, <1>6, DoneEmpty DEF Ordered, Coming, Settled
<1> QED BY <1>3, <1>4, <1>5, <1>6, OrderedIs DEF Waiting, Quiet

\* The flush is requested by the last event of the last request.
LEMMA OrderedParse ==
  ASSUME Types, Control, Ordered, Parse
  PROVE  Ordered'
<1> USE DEF startup, platform, delivery, logBuffer
<1>0. PICK h, t : h = Head(post) /\ t = Tail(post)
  OBVIOUS
<1>1. post # <<>>
  BY DEF Control, Parse
<1>2. /\ NoneDone(post) => ~ IsRuntimeDone(h) /\ NoneDone(t)
      /\ EndsDone(post) => \/ IsRuntimeDone(h) /\ t = <<>>
                           \/ ~ IsRuntimeDone(h) /\ EndsDone(t)
  BY <1>0, <1>1, DoneTail
<1>3. /\ UNCHANGED <<subscribed, waitOn, timedOut, runtimeDone, phase, pc, queue>>
      /\ post' = t /\ phase # "frozen"
      /\ IsRuntimeDone(h) => flushRequested'
      /\ ~ IsRuntimeDone(h) => flushRequested' = flushRequested
  BY <1>0 DEF Parse, Thawed
<1>5. ASSUME Waiting, phase = "running"
      PROVE  /\ pc.main = "await" /\ NoneDone(queue) /\ NoneDone(t) /\ Quiet
             /\ ~ IsRuntimeDone(h)
  BY <1>2, <1>5 DEF Ordered
<1>6. ASSUME Waiting, phase = "responded"
      PROVE  /\ pc.main = "await" /\ Quiet
             /\ \/ EndsDone(queue) /\ NoneDone(t) /\ ~ IsRuntimeDone(h)
                \/ queue = <<>> /\ EndsDone(t) /\ ~ IsRuntimeDone(h)
                \/ queue = <<>> /\ t = <<>> /\ IsRuntimeDone(h)
  BY <1>1, <1>2, <1>6, DoneEmpty DEF Ordered, Coming, Settled
<1> QED BY <1>3, <1>5, <1>6, OrderedIs DEF Waiting, Quiet

\* The signal is given once.
LEMMA OrderedSignal ==
  ASSUME Types, Control, Ordered, Signal
  PROVE  Ordered'
<1> USE DEF startup, platform, delivery, logBuffer
<1>3. /\ UNCHANGED <<subscribed, waitOn, timedOut, phase, pc, queue, post, buffer>>
      /\ phase # "frozen"
      /\ runtimeDone' <=> (runtimeDone \/ flushRequested)
      /\ ~ flushRequested'
  BY DEF Signal, Thawed, Types, TypeOK
<1>5. ASSUME Waiting, phase = "running"
      PROVE  /\ pc.main = "await" /\ NoneDone(queue) /\ NoneDone(post) /\ Quiet
  BY <1>5 DEF Ordered
<1>6. ASSUME Waiting, phase = "responded", pc.main = "await"
      PROVE  \/ EndsDone(queue) /\ NoneDone(post) /\ Quiet
             \/ queue = <<>> /\ EndsDone(post) /\ Quiet
             \/ /\ queue = <<>> /\ post = <<>>
                /\ (flushRequested /\ ~ runtimeDone) \/ (runtimeDone /\ ~ flushRequested)
  BY <1>6 DEF Ordered, Coming
<1>7. ASSUME Waiting, phase = "responded", pc.main # "await"
      PROVE  queue = <<>> /\ post = <<>> /\ Quiet /\ (pc.main \in {"upload", "next"} => buffer = {})
  BY <1>7 DEF Ordered, Settled
<1> QED BY <1>3, <1>5, <1>6, <1>7, OrderedIs DEF Waiting, Quiet

\* A wait that ends with the signal finds everything parsed.
LEMMA OrderedAwait ==
  ASSUME Types, Control, Ordered, Await
  PROVE  Ordered'
<1> USE DEF startup, platform, delivery, logBuffer
<1>1. pc'.main = "check"
  BY DEF Await, Goto, Types, TypeOK
<1>2. /\ UNCHANGED <<subscribed, waitOn, phase, queue, post, buffer, flushRequested>>
      /\ phase # "frozen" /\ pc.main = "await"
      /\ waitOn /\ ~ timedOut' => runtimeDone /\ ~ runtimeDone' /\ ~ timedOut
  BY DEF Await, Thawed, Types, TypeOK
<1>3. ASSUME Waiting, runtimeDone
      PROVE  /\ phase # "running"
             /\ phase = "responded" => queue = <<>> /\ post = <<>> /\ ~ flushRequested
  BY <1>2, <1>3 DEF Ordered, Coming, Quiet
<1> QED BY <1>1, <1>2, <1>3, OrderedIs DEF Waiting, Quiet

\* A flush leaves an empty buffer, which stays empty once main has had the signal.
LEMMA OrderedSwap ==
  ASSUME Types, Ordered, NEW g \in {"main", "ticker"}, Swap(g)
  PROVE  Ordered'
<1> USE DEF startup, platform, delivery, logBuffer, Goto
<1>1. /\ UNCHANGED <<subscribed, waitOn, timedOut, phase, inv, queue, post, flushRequested,
                     runtimeDone>>
      /\ buffer' = {} /\ Thawed /\ pc[g] = "flush"
      /\ pc' = [pc EXCEPT ![g] = IF buffer = {} THEN Resume(g) ELSE "upload"]
      /\ pc \in [{"main", "ticker"} -> MainLabels \cup TickerLabels]
  BY DEF Swap, Types, TypeOK
<1>2. CASE g = "main"
  <2>1. pc.main # "await" /\ pc'.main # "await"
    BY <1>1, <1>2 DEF Resume
  <2> QED BY <1>1, <2>1, OrderedMoved
<1>3. CASE g = "ticker"
  <2>1. pc'.main = pc.main
    BY <1>1, <1>3
  <2> QED BY <1>1, <2>1, OrderedIs DEF Ordered, Waiting, Quiet, Coming, Settled, AtRest
<1> QED BY <1>2, <1>3

\* An upload ends.
LEMMA OrderedUpload ==
  ASSUME Types, Ordered, NEW g \in {"main", "ticker"}, Upload(g)
  PROVE  Ordered'
<1> USE DEF startup, platform, delivery, logBuffer, Goto
<1>1. /\ UNCHANGED <<subscribed, waitOn, timedOut, phase, inv, queue, post, flushRequested,
                     runtimeDone, buffer>>
      /\ Thawed /\ pc[g] = "upload"
      /\ pc' = [pc EXCEPT ![g] = Resume(g)]
      /\ pc \in [{"main", "ticker"} -> MainLabels \cup TickerLabels]
  BY DEF Upload, Types, TypeOK
<1>2. CASE g = "main"
  <2>1. pc.main = "upload" /\ pc'.main # "await"
    BY <1>1, <1>2 DEF Resume
  <2> QED BY <1>1, <2>1, OrderedIs DEF Ordered, Waiting, Quiet, Settled, Thawed
<1>3. CASE g = "ticker"
  <2>1. pc'.main = pc.main
    BY <1>1, <1>3
  <2> QED BY <1>1, <2>1, OrderedSame
<1> QED BY <1>2, <1>3

\* Main goes on without a flush only if nothing is buffered.
LEMMA OrderedCheck ==
  ASSUME Types, Ordered, Check
  PROVE  Ordered'
<1> USE DEF startup, platform, delivery, logBuffer, Goto
<1>1. /\ UNCHANGED <<subscribed, waitOn, timedOut, phase, inv, queue, post, flushRequested,
                     runtimeDone, buffer>>
      /\ Thawed /\ pc.main # "await"
      /\ pc'.main = IF bytes > 0 THEN "flush" ELSE Resume("main")
  BY DEF Check, Types, TypeOK
<1>2. pc'.main # "await"
  BY <1>1 DEF Resume
<1>3. pc'.main \in {"upload", "next"} => buffer = {}
  <2> SUFFICES ASSUME ~ (bytes > 0) PROVE buffer = {}
    BY <1>1
  <2>1. IsFiniteSet(buffer) /\ bytes = Cardinality(buffer)
    BY DEF Types, TypeOK
  <2>2. Cardinality(buffer) \in Nat
    BY <2>1, FS_CardinalityType
  <2>3. Cardinality(buffer) = 0
    BY <2>1, <2>2
  <2> QED BY <2>1, <2>3, FS_EmptySet
<1> QED BY <1>1, <1>2, <1>3, OrderedMoved

\* At the start nothing is subscribed to.
LEMMA InitOrdered == Init => Ordered
BY DEF Init, Ordered

\* Each step keeps the order of an invocation.
LEMMA OrderedNext ==
  ASSUME Types, Control, Ordered, [Next]_vars
  PROVE  Ordered'
<1> USE DEF startup, platform, delivery, logBuffer, s3
<1>0. pc \in [{"main", "ticker"} -> MainLabels \cup TickerLabels]
  BY DEF Types, TypeOK
<1>m. \A label : Goto("main", label) => pc'.main = label
  BY <1>0 DEF Goto
<1>t. \A label : Goto("ticker", label) => pc'.main = pc.main
  BY <1>0 DEF Goto
<1>1. CASE Register
  <2>1. phase' = "init"
    BY <1>1 DEF Register, Control
  <2> QED BY <2>1, OrderedIs
<1>2. CASE Subscribe
  <2>1. phase' = "init"
    BY <1>2 DEF Subscribe, Control
  <2> QED BY <2>1, OrderedIs
<1>3. CASE Initialised
  <2>1. /\ phase' = "frozen" /\ post' = <<>> /\ buffer' = {} /\ queue' = <<>>
        /\ ~ flushRequested' /\ ~ runtimeDone'
    BY <1>3 DEF Initialised, Control
  <2>2. Range(queue') = {}
    BY <2>1 DEF Range
  <2> QED BY <2>1, <2>2, OrderedIs
<1>4. CASE Invoke
  BY <1>4, OrderedInvoke
<1>5. CASE Log
  BY <1>5, OrderedLog
<1>6. CASE Respond
  BY <1>6, OrderedRespond
<1>7. CASE Freeze
  BY <1>7, OrderedFreeze
<1>8. CASE Shutdown
  <2>1. phase' = "shutdown"
    BY <1>8 DEF Shutdown
  <2> QED BY <2>1, OrderedIs
<1>9. CASE NextFails
  <2>1. pc'.main = "cancel"
    BY <1>9, <1>m DEF NextFails
  <2> QED BY <1>9, <2>1, OrderedMoved DEF NextFails, Thawed
<1>10. CASE Die
  <2>1. phase' = "dead"
    BY <1>10 DEF Die
  <2> QED BY <2>1, OrderedIs
<1>11. CASE Deliver
  BY <1>11, OrderedDeliver
<1>12. CASE Parse
  BY <1>12, OrderedParse
<1>13. CASE Signal
  BY <1>13, OrderedSignal
<1>14. CASE Await
  BY <1>14, OrderedAwait
<1>15. CASE Check
  BY <1>15, OrderedCheck
<1>16. ASSUME NEW g \in {"main", "ticker"}, Flush(g)
       PROVE  Ordered'
  BY <1>16, OrderedSwap, OrderedUpload DEF Flush
<1>17. CASE Cancel
  <2>1. pc'.main = "join"
    BY <1>17, <1>m DEF Cancel
  <2> QED BY <1>17, <2>1, OrderedMoved DEF Cancel
<1>18. CASE Join
  <2>1. pc'.main = "check"
    BY <1>18, <1>m DEF Join
  <2> QED BY <1>18, <2>1, OrderedMoved DEF Join
<1>19. CASE CloseServer
  <2>1. pc'.main = "exited"
    BY <1>19, <1>m DEF CloseServer
  <2> QED BY <1>19, <2>1, OrderedMoved DEF CloseServer
<1>20. CASE Tick
  <2>1. pc'.main = pc.main
    BY <1>20, <1>t DEF Tick
  <2> QED BY <1>20, <2>1, OrderedSame DEF Tick
<1>21. CASE TickerEnds
  <2>1. pc'.main = pc.main
    BY <1>21, <1>t DEF TickerEnds
  <2> QED BY <1>21, <2>1, OrderedSame DEF TickerEnds
<1>22. CASE UNCHANGED vars
  BY <1>22, OrderedSame DEF vars
<1> QED BY <1>1, <1>2, <1>3, <1>4, <1>5, <1>6, <1>7, <1>8, <1>9, <1>10, <1>11, <1>12, <1>13,
           <1>14, <1>15, <1>16, <1>17, <1>18, <1>19, <1>20, <1>21, <1>22
        DEF Next, Lambda, Handler, Main, Ticker

\* IInv is inductive.
LEMMA Inductive == Spec => []IInv
<1>1. Init => IInv
  BY InitTypes, InitPlaced, InitOrdered DEF IInv
<1>2. IInv /\ [Next]_vars => IInv'
  BY TypesNext, ControlNext, PlacedNext, OrderedNext DEF IInv
<1> QED BY <1>1, <1>2, PTL DEF Spec

-----------------------------------------------------------------------------
\* Every variable keeps its type, and SizeBytes is the size of the entries.
THEOREM TypeCorrect == Spec => []TypeOK
<1>1. IInv => TypeOK
  BY DEF IInv, Types
<1> QED BY <1>1, Inductive, PTL

\* Whatever is appended, flushed, refused by S3 and cut short by a shutdown, a
\* record logged once telemetry is subscribed to is in exactly one place.
THEOREM NothingLost == Spec => []Accounted
<1>1. IInv => Accounted
  <2> SUFFICES ASSUME IInv, subscribed, NEW r \in emitted \ Excluded
               PROVE  \E p \in Places(r) : Places(r) = {p}
    BY DEF Accounted
  <2>1. r \in Records /\ Places(r) # {} /\ \A p, q \in Places(r) : p = q
    BY DEF IInv, Placed, Types, TypeOK
  <2> QED BY <2>1
<1> QED BY <1>1, Inductive, PTL

\* As long as no wait for runtimeDone has timed out, an environment freezes
\* with what it has logged given to S3, or in the hands of the tickers.
THEOREM FrozenCollected == Spec => []CollectedAtFreeze
<1>1. IInv => CollectedAtFreeze
  <2> SUFFICES ASSUME IInv, phase = "frozen", subscribed, waitOn, ~ timedOut,
                      NEW r \in emitted \ (Excluded \cup {Report(inv)})
               PROVE  r \in stored \cup dropped \cup taken["ticker"]
    BY DEF CollectedAtFreeze
  <2>1. r \in Records /\ Places(r) # {}
    BY DEF IInv, Placed, Types, TypeOK
  <2>2. r \notin Range(queue) /\ r \notin Range(post) /\ r \notin buffer
    <3>1. AtRest
      BY DEF IInv, Ordered, Waiting
    <3>2. Range(<<>>) = {}
      BY DEF Range
    <3> QED BY <3>1, <3>2 DEF AtRest
  <2>3. r \notin taken["main"]
    BY DEF IInv, Control, Placed
  <2> QED BY <2>1, <2>2, <2>3, PlaceOf
<1> QED BY <1>1, Inductive, PTL
-----------------------------------------------------------------------------
(* The order of the records. *)

Older(r, s) == r \in Records /\ s \in Records => Shipping!Before(r, s)

Sorted(s) == \A i, j \in DOMAIN s : i < j => Older(s[i], s[j])

Ahead(R, S) == \A r \in R, s \in S : Older(r, s)

\* From the buffer back to the queue each record is younger than the one before,
\* and the function numbers what it logs without a gap.
InOrder ==
    /\ Sorted(queue) /\ Sorted(post)
    /\ Ahead(buffer, Range(post)) /\ Ahead(buffer, Range(queue))
    /\ Ahead(Range(post), Range(queue))
    /\ \A n \in 1 .. MaxInvocations, k \in 1 .. LogsPerInvocation :
          <<n, k>> \in emitted => \A j \in 1 .. k : <<n, j>> \in emitted

\* Appending what is younger.
LEMMA SortedAppend ==
  ASSUME NEW s \in Seq(Events), Sorted(s), NEW e \in Events, Ahead(Range(s), {e}),
         NEW t, t = Append(s, e)
  PROVE  Sorted(t)
<1>1. /\ Len(s) \in Nat /\ DOMAIN s = 1 .. Len(s)
      /\ DOMAIN t = 1 .. Len(s) + 1 /\ t[Len(s) + 1] = e
      /\ \A i \in 1 .. Len(s) : t[i] = s[i]
  BY AppendProperties, LenProperties
<1> SUFFICES ASSUME NEW i \in DOMAIN t, NEW j \in DOMAIN t, i < j PROVE Older(t[i], t[j])
  BY DEF Sorted
<1>2. i \in 1 .. Len(s) /\ (j \in 1 .. Len(s) \/ j = Len(s) + 1)
  BY <1>1
<1>3. CASE j \in 1 .. Len(s)
  BY <1>1, <1>2, <1>3 DEF Sorted
<1>4. CASE j = Len(s) + 1
  <2>1. s[i] \in Range(s)
    BY <1>1, <1>2 DEF Range
  <2> QED BY <1>1, <1>2, <1>4, <2>1 DEF Ahead
<1> QED BY <1>2, <1>3, <1>4

\* Each half of what is split is sorted, and the first is ahead of the second.
LEMMA SortedSplit ==
  ASSUME NEW s \in Seq(Events), Sorted(s), NEW n \in 1 .. Len(s), NEW a, NEW b,
         Split(s, n, a, b)
  PROVE  /\ Sorted(a) /\ Sorted(b) /\ Ahead(Range(a), Range(b))
         /\ Range(a) \subseteq Range(s) /\ Range(b) \subseteq Range(s)
<1>1. Len(s) \in Nat /\ DOMAIN s = 1 .. Len(s)
  BY LenProperties
<1>2. /\ DOMAIN a = 1 .. n /\ DOMAIN b = 1 .. Len(s) - n
      /\ \A i \in 1 .. n : a[i] = s[i]
      /\ \A i \in 1 .. Len(s) - n : b[i] = s[n + i]
  BY SeqSplit, LenProperties DEF Split
<1>3. \A i \in 1 .. n : i \in DOMAIN s
  BY <1>1
<1>4. \A i \in 1 .. Len(s) - n : n + i \in DOMAIN s
  BY <1>1
<1>5. Sorted(a)
  BY <1>2, <1>3 DEF Sorted
<1>6. \A i, j \in 1 .. Len(s) - n : i < j => n + i < n + j
  BY <1>1
<1>7. Sorted(b)
  BY <1>2, <1>4, <1>6 DEF Sorted
<1>8. \A i \in 1 .. n, j \in 1 .. Len(s) - n : i < n + j
  BY <1>1
<1>9. Ahead(Range(a), Range(b))
  <2> SUFFICES ASSUME NEW i \in 1 .. n, NEW j \in 1 .. Len(s) - n PROVE Older(a[i], b[j])
    BY <1>2 DEF Ahead, Range
  <2>1. Older(s[i], s[n + j])
    BY <1>3, <1>4, <1>8 DEF Sorted
  <2> QED BY <1>2, <2>1
<1>10. Range(a) \subseteq Range(s) /\ Range(b) \subseteq Range(s)
  BY <1>2, <1>3, <1>4 DEF Range
<1> QED BY <1>5, <1>7, <1>9, <1>10

\* The head of a request is ahead of the rest.
LEMMA SortedTail ==
  ASSUME Types, Sorted(post), post # <<>>, NEW t, t = Tail(post), NEW h, h = Head(post)
  PROVE  Sorted(t) /\ Ahead({h}, Range(t))
<1>1. /\ h = post[1] /\ Len(post) \in Nat /\ Len(post) >= 1
      /\ DOMAIN post = 1 .. Len(post) /\ DOMAIN t = 1 .. Len(post) - 1
      /\ \A i \in 1 .. Len(post) - 1 : t[i] = post[i + 1]
  BY PostHead
<1>2. \A i \in 1 .. Len(post) - 1 : i + 1 \in 1 .. Len(post) /\ 1 < i + 1
  BY <1>1
<1>3. \A i, j \in 1 .. Len(post) - 1 : i < j => i + 1 < j + 1
  BY <1>1
<1>4. Sorted(t)
  BY <1>1, <1>2, <1>3 DEF Sorted
<1>5. Ahead({h}, Range(t))
  <2> SUFFICES ASSUME NEW i \in 1 .. Len(post) - 1 PROVE Older(h, t[i])
    BY <1>1 DEF Ahead, Range
  <2>1. Older(post[1], post[i + 1])
    BY <1>1, <1>2 DEF Sorted
  <2> QED BY <1>1, <2>1
<1> QED BY <1>4, <1>5

\* What is logged comes after all that was, be it the function's or the report.
Youngest(e) ==
    /\ e \in Records /\ e \notin emitted
    /\ \A r \in emitted : Shipping!Before(r, e)
    /\ emitted' = emitted \cup {e} /\ Publish(e)
    /\ UNCHANGED <<subscribed, post, buffer, taken, stored, dropped>>

\* The function's next record is younger than all that is logged.
LEMMA LogYoungest ==
  ASSUME IInv, InOrder, Log
  PROVE  \E e : Youngest(e)
<1>1. inv \in 1 .. MaxInvocations
  BY DEF IInv, Types, TypeOK, Control, Log
<1>2. PICK k \in 1 .. LogsPerInvocation :
         /\ <<inv, k>> \notin emitted /\ emitted' = emitted \cup {<<inv, k>>}
         /\ Publish(<<inv, k>>)
  BY DEF Log
<1>3. PICK e : e = <<inv, k>>
  OBVIOUS
<1>4. e \in Records /\ e \notin emitted
  BY <1>1, <1>2, <1>3, EventFacts
<1>5. ASSUME NEW r \in emitted PROVE Shipping!Before(r, e)
  <2>1. PICK n \in 1 .. MaxInvocations, j \in 1 .. LogsPerInvocation + 1 : r = <<n, j>>
    BY DEF IInv, Types, TypeOK, Records
  <2>2. n <= inv /\ r # Report(inv)
    BY <2>1 DEF IInv, Control, Log
  <2>3. CASE n < inv
    BY <1>3, <2>1, <2>3 DEF Shipping!Before
  <2>4. CASE n = inv
    <3>1. j # LogsPerInvocation + 1
      BY <2>1, <2>2, <2>4 DEF Report
    <3>2. j \in 1 .. LogsPerInvocation
      BY <3>1, BoundsAssumption
    <3>3. k \notin 1 .. j
      BY <1>1, <1>2, <2>1, <2>4, <3>2 DEF InOrder
    <3>4. j < k
      BY <3>2, <3>3, BoundsAssumption
    <3> QED BY <1>3, <2>1, <2>4, <3>4 DEF Shipping!Before
  <2> QED BY <1>1, <2>1, <2>2, <2>3, <2>4, BoundsAssumption
<1>6. UNCHANGED <<subscribed, post, buffer, taken, stored, dropped>>
  BY DEF Log, startup, delivery, logBuffer, s3
<1>7. Youngest(e)
  BY <1>2, <1>3, <1>4, <1>5, <1>6 DEF Youngest
<1> QED BY <1>7

\* So is the report of an invocation that is over.
LEMMA FreezeYoungest ==
  ASSUME IInv, Freeze
  PROVE  \E e : Youngest(e)
<1>1. inv \in 1 .. MaxInvocations
  BY DEF IInv, Types, TypeOK, Control, Freeze
<1>2. PICK e : e = Report(inv)
  OBVIOUS
<1>3. e \in Records /\ e \notin emitted
  BY <1>1, <1>2, EventFacts DEF IInv, Control, Freeze
<1>4. ASSUME NEW r \in emitted PROVE Shipping!Before(r, e)
  <2>1. PICK n \in 1 .. MaxInvocations, j \in 1 .. LogsPerInvocation + 1 : r = <<n, j>>
    BY DEF IInv, Types, TypeOK, Records
  <2>2. n <= inv /\ r # e
    BY <1>3, <2>1 DEF IInv, Control
  <2>3. e = <<inv, LogsPerInvocation + 1>>
    BY <1>2 DEF Report
  <2>4. n < inv \/ (n = inv /\ j < LogsPerInvocation + 1)
    BY <1>1, <2>1, <2>2, <2>3, BoundsAssumption
  <2> QED BY <2>1, <2>3, <2>4 DEF Shipping!Before
<1>5. /\ emitted' = emitted \cup {e} /\ Publish(e)
      /\ UNCHANGED <<subscribed, post, buffer, taken, stored, dropped>>
  BY <1>2 DEF Freeze, startup, delivery, logBuffer, s3
<1>6. Youngest(e)
  BY <1>3, <1>4, <1>5 DEF Youngest
<1> QED BY <1>6

\* What is in a place has been logged.
LEMMA PlacedEmitted ==
  ASSUME IInv, NEW r \in Records,
         \/ r \in Range(queue) \/ r \in Range(post) \/ r \in buffer
         \/ r \in taken["main"] \/ r \in taken["ticker"] \/ r \in stored \/ r \in dropped
  PROVE  r \in emitted
<1>1. Places(r) # {}
  BY PlaceOf
<1> QED BY <1>1 DEF IInv, Placed

\* At the start there is nothing to put in order.
LEMMA InitInOrder == Init => InOrder
BY DEF Init, InOrder, Sorted, Ahead, Range

\* Steps that neither log nor move a record.
LEMMA NoneMoves ==
  ASSUME [Next]_vars, ~ Log, ~ Freeze, ~ Respond, ~ Deliver, ~ Parse,
         \A g \in {"main", "ticker"} : ~ Swap(g) /\ ~ Upload(g)
  PROVE  UNCHANGED <<emitted, queue, post, buffer, taken, stored, dropped>>
<1> USE DEF platform, delivery, logBuffer, s3
<1>1. CASE Lambda
  BY <1>1 DEF Lambda, Initialised, Invoke, Shutdown, NextFails, Die
<1>2. CASE Handler
  BY <1>2 DEF Handler, Signal
<1>3. CASE Main \/ Ticker
  BY <1>3 DEF Main, Ticker, Flush, Register, Subscribe, Await, Check, Cancel, Join,
     CloseServer, Tick, TickerEnds
<1>4. CASE UNCHANGED vars
  BY <1>4 DEF vars
<1> QED BY <1>1, <1>2, <1>3, <1>4 DEF Next

\* Each step keeps the order: what comes in is the youngest, and each stage takes
\* from the front of the one behind it.
LEMMA InOrderNext ==
  ASSUME IInv, InOrder, [Next]_vars
  PROVE  InOrder'
<1>0. /\ queue \in Seq(Events) /\ post \in Seq(Events) /\ emitted \subseteq Records
      /\ inv \in Nat /\ Sorted(queue) /\ Sorted(post)
  BY BoundsAssumption DEF IInv, Types, TypeOK, InOrder
<1> DEFINE Closed == \A n \in 1 .. MaxInvocations, k \in 1 .. LogsPerInvocation :
                        <<n, k>> \in emitted => \A j \in 1 .. k : <<n, j>> \in emitted
<1>1. CASE Log \/ Freeze
  <2>1. PICK e : Youngest(e)
    BY <1>1, LogYoungest, FreezeYoungest
  <2>2. e \in Records /\ e \in Events
    BY <2>1, EventFacts DEF Youngest
  <2>3. ASSUME NEW r, \/ r \in Range(queue) \/ r \in Range(post) \/ r \in buffer
        PROVE  Older(r, e)
    BY <2>1, <2>3, PlacedEmitted DEF Older, Youngest
  <2>4. Sorted(queue') /\ Range(queue') \subseteq Range(queue) \cup {e}
    <3>1. CASE subscribed
      <4>1. Distinct(queue) /\ e \notin Range(queue)
        BY <2>1, <2>2, PlacedEmitted DEF Youngest, IInv, Placed
      <4>2. queue' = Append(queue, e)
        BY <2>1, <3>1 DEF Youngest, Publish
      <4>3. Ahead(Range(queue), {e})
        BY <2>3 DEF Ahead
      <4>4. Sorted(queue')
        BY <1>0, <2>2, <4>2, <4>3, SortedAppend
      <4>5. Range(queue') = Range(queue) \cup {e}
        BY <1>0, <2>2, <4>1, <4>2, AppendRange
      <4> QED BY <4>4, <4>5
    <3>2. CASE ~ subscribed
      BY <1>0, <2>1, <3>2 DEF Youngest, Publish
    <3> QED BY <3>1, <3>2
  <2>5. post' = post /\ buffer' = buffer
    BY <2>1 DEF Youngest
  <2>6. Ahead(buffer, Range(queue')) /\ Ahead(Range(post), Range(queue'))
    BY <2>3, <2>4 DEF InOrder, Ahead
  <2>7. Closed'
    <3>1. CASE Log
      <4>1. PICK k \in 1 .. LogsPerInvocation :
               /\ k > 1 => <<inv, k - 1>> \in emitted
               /\ emitted' = emitted \cup {<<inv, k>>}
        BY <3>1 DEF Log
      <4>2. inv \in 1 .. MaxInvocations
        BY <3>1 DEF IInv, Types, TypeOK, Control, Log
      <4>3. ASSUME NEW j \in 1 .. k PROVE <<inv, j>> \in emitted'
        <5>1. CASE j = k
          BY <4>1, <5>1
        <5>2. CASE j # k
          <6>1. k - 1 \in 1 .. LogsPerInvocation /\ j \in 1 .. k - 1 /\ k > 1
            BY <5>2, BoundsAssumption
          <6> QED BY <4>1, <4>2, <6>1 DEF InOrder
        <5> QED BY <5>1, <5>2
      <4>4. ASSUME NEW n \in 1 .. MaxInvocations, NEW i \in 1 .. LogsPerInvocation,
                   <<n, i>> \in emitted', NEW j \in 1 .. i
            PROVE  <<n, j>> \in emitted'
        <5>1. CASE <<n, i>> = <<inv, k>>
          BY <4>3, <4>4, <5>1
        <5>2. CASE <<n, i>> \in emitted
          BY <4>1, <4>4, <5>2 DEF InOrder
        <5> QED BY <4>1, <4>4, <5>1, <5>2
      <4> QED BY <4>4
    <3>2. CASE Freeze
      <4>1. emitted' = emitted \cup {Report(inv)}
        BY <3>2 DEF Freeze
      <4>2. \A n \in 1 .. MaxInvocations, k \in 1 .. LogsPerInvocation : <<n, k>> # Report(inv)
        BY BoundsAssumption DEF Report
      <4> QED BY <4>1, <4>2 DEF InOrder
    <3> QED BY <1>1, <3>1, <3>2
  <2>8. (Sorted(queue) /\ Sorted(post))'
    BY <1>0, <2>4, <2>5 DEF Sorted
  <2>9. /\ Ahead(buffer, Range(post))' /\ Ahead(buffer, Range(queue))'
        /\ Ahead(Range(post), Range(queue))'
    BY <2>5, <2>6 DEF InOrder, Ahead, Range
  <2> QED BY <2>7, <2>8, <2>9 DEF InOrder
<1>2. CASE Respond
  <2>1. PICK e : e = RuntimeDone(inv)
    OBVIOUS
  <2>2. e \in Events /\ e \notin Records
    <3>1. inv \in 1 .. MaxInvocations
      BY <1>2 DEF IInv, Types, TypeOK, Control, Respond
    <3> QED BY <2>1, <3>1, EventFacts
  <2>3. /\ queue' = IF subscribed THEN Append(queue, e) ELSE queue
        /\ UNCHANGED <<post, buffer, emitted>>
    BY <1>2, <2>1 DEF Respond, Publish, delivery, logBuffer
  <2>4. Sorted(queue') /\ Range(queue') \subseteq Range(queue) \cup {e}
    <3>1. CASE subscribed
      <4>1. Ahead(Range(queue), {e})
        BY <2>2 DEF Ahead, Older
      <4>2. Sorted(queue')
        BY <1>0, <2>2, <2>3, <3>1, <4>1, SortedAppend
      <4>3. Range(queue') = Range(queue) \cup {e}
        BY <1>0, <2>2, <2>3, <3>1, AppendRange DEF IInv, Placed
      <4> QED BY <4>2, <4>3
    <3>2. CASE ~ subscribed
      BY <1>0, <2>3, <3>2
    <3> QED BY <3>1, <3>2
  <2>5. Ahead(buffer, Range(queue')) /\ Ahead(Range(post), Range(queue'))
    BY <2>2, <2>4 DEF InOrder, Ahead, Older
  <2>6. (Sorted(queue) /\ Sorted(post))'
    BY <1>0, <2>3, <2>4 DEF Sorted
  <2>7. /\ Ahead(buffer, Range(post))' /\ Ahead(buffer, Range(queue))'
        /\ Ahead(Range(post), Range(queue))'
    BY <2>3, <2>5 DEF InOrder, Ahead, Range
  <2>8. Closed'
    BY <2>3 DEF InOrder
  <2> QED BY <2>6, <2>7, <2>8 DEF InOrder
<1>3. CASE Deliver
  <2>1. PICK n \in 1 .. Len(queue) :
           post' = SubSeq(queue, 1, n) /\ queue' = SubSeq(queue, n + 1, Len(queue))
    BY <1>3 DEF Deliver
  <2>2. PICK a, b : a = SubSeq(queue, 1, n) /\ b = SubSeq(queue, n + 1, Len(queue))
    OBVIOUS
  <2>3. Split(queue, n, a, b)
    BY <2>2 DEF Split
  <2>4. /\ Sorted(a) /\ Sorted(b) /\ Ahead(Range(a), Range(b))
        /\ Range(a) \subseteq Range(queue) /\ Range(b) \subseteq Range(queue)
    BY <1>0, <2>3, SortedSplit
  <2>5. post' = a /\ queue' = b /\ UNCHANGED <<buffer, emitted>>
    BY <1>3, <2>1, <2>2 DEF Deliver, logBuffer
  <2>6. Ahead(buffer, Range(a)) /\ Ahead(buffer, Range(b))
    BY <2>4 DEF InOrder, Ahead
  <2>7. (Sorted(queue) /\ Sorted(post))'
    BY <2>4, <2>5 DEF Sorted
  <2>8. /\ Ahead(buffer, Range(post))' /\ Ahead(buffer, Range(queue))'
        /\ Ahead(Range(post), Range(queue))'
    BY <2>4, <2>5, <2>6 DEF Ahead, Range
  <2>9. Closed'
    BY <2>5 DEF InOrder
  <2> QED BY <2>7, <2>8, <2>9 DEF InOrder
<1>4. CASE Parse
  <2>1. PICK h, t : h = Head(post) /\ t = Tail(post)
    OBVIOUS
  <2>2. post # <<>> /\ Distinct(post)
    BY <1>4 DEF IInv, Placed, Control, Parse
  <2>3. Sorted(t) /\ Ahead({h}, Range(t)) /\ Range(post) = Range(t) \cup {h}
    BY <1>0, <2>1, <2>2, SortedTail, TailRange DEF IInv
  <2>4. post' = t /\ UNCHANGED <<queue, emitted>> /\ buffer' \subseteq buffer \cup {h}
    BY <1>4, <2>1 DEF Parse, AppendEntry, logBuffer, platform
  <2>5. /\ Ahead(buffer', Range(t)) /\ Ahead(buffer', Range(queue)) /\ Ahead(Range(t), Range(queue))
    BY <2>3, <2>4 DEF InOrder, Ahead
  <2>6. (Sorted(queue) /\ Sorted(post))'
    BY <1>0, <2>3, <2>4 DEF Sorted
  <2>7. /\ Ahead(buffer, Range(post))' /\ Ahead(buffer, Range(queue))'
        /\ Ahead(Range(post), Range(queue))'
    BY <2>4, <2>5 DEF Ahead, Range
  <2>8. Closed'
    BY <2>4 DEF InOrder
  <2> QED BY <2>6, <2>7, <2>8 DEF InOrder
<1>5. CASE \E g \in {"main", "ticker"} : Swap(g) \/ Upload(g)
  <2>1. UNCHANGED <<queue, post, emitted>> /\ buffer' \subseteq buffer
    BY <1>5 DEF Swap, Upload, platform, delivery, logBuffer
  <2>2. (Sorted(queue) /\ Sorted(post))'
    BY <1>0, <2>1 DEF Sorted
  <2>3. /\ Ahead(buffer, Range(post))' /\ Ahead(buffer, Range(queue))'
        /\ Ahead(Range(post), Range(queue))'
    BY <2>1 DEF InOrder, Ahead, Range
  <2>4. Closed'
    BY <2>1 DEF InOrder
  <2> QED BY <2>2, <2>3, <2>4 DEF InOrder
<1>6. CASE UNCHANGED <<emitted, queue, post, buffer>>
  BY <1>6 DEF InOrder, Sorted, Ahead, Range
<1> QED BY <1>1, <1>2, <1>3, <1>4, <1>5, <1>6, NoneMoves

-----------------------------------------------------------------------------
(* The extension implements LogShipping. *)

\* What has left the handler is of sufficient level.
Filtered ==
    (buffer \cup taken["main"] \cup taken["ticker"] \cup stored \cup dropped) \cap Excluded = {}

\* Only Parse lets a record in, and it looks at the level.
LEMMA FilteredNext ==
  ASSUME Types, Control, Filtered, [Next]_vars
  PROVE  Filtered'
<1> USE DEF startup, platform, delivery, logBuffer, s3
<1>0. taken \in [{"main", "ticker"} -> SUBSET Records]
  BY DEF Types, TypeOK
<1>1. CASE Parse
  BY <1>1 DEF Parse, AppendEntry, ShouldInclude, Filtered
<1>2. ASSUME NEW g \in {"main", "ticker"}, Swap(g) PROVE Filtered'
  BY <1>0, <1>2 DEF Swap, Filtered
<1>3. ASSUME NEW g \in {"main", "ticker"}, Upload(g) PROVE Filtered'
  BY <1>0, <1>3 DEF Upload, Filtered
<1>4. CASE UNCHANGED <<buffer, taken, stored, dropped>>
  BY <1>4 DEF Filtered
<1>5. CASE Lambda
  BY <1>4, <1>5 DEF Lambda, Initialised, Invoke, Log, Respond, Freeze, Shutdown, NextFails, Die
<1>6. CASE Deliver \/ Signal \/ Register \/ Subscribe \/ Await \/ Check \/ Cancel \/ Join \/ CloseServer
  BY <1>4, <1>6 DEF Deliver, Signal, Register, Subscribe, Await, Check, Cancel, Join, CloseServer
<1>7. CASE Tick \/ TickerEnds \/ UNCHANGED vars
  BY <1>4, <1>7 DEF Tick, TickerEnds, vars
<1> QED BY <1>1, <1>2, <1>3, <1>5, <1>6, <1>7 DEF Next, Handler, Main, Ticker, Flush

\* What waits, and what is under way.
Due == (Range(queue) \cup Range(post) \cup buffer) \cap (Records \ Excluded)
Flying == {taken["main"], taken["ticker"]} \ {{}}
shipped == <<Due, Flying, stored, dropped>>

\* A record that is logged comes to wait, after all the others.
LEMMA LogShips ==
  ASSUME IInv, InOrder, Log \/ Freeze
  PROVE  (\E r \in Records \ Excluded : Shipping!Log(r)) \/ UNCHANGED shipped
<1>1. PICK e : Youngest(e)
  BY LogYoungest, FreezeYoungest
<1>2. /\ queue \in Seq(Events) /\ Distinct(queue) /\ e \in Events /\ e \notin Range(queue)
  BY <1>1, PlacedEmitted, EventFacts DEF Youngest, IInv, Types, TypeOK, Placed
<1>3. /\ Range(queue') = IF subscribed THEN Range(queue) \cup {e} ELSE Range(queue)
      /\ UNCHANGED <<post, buffer, taken, stored, dropped>>
  <2>1. CASE subscribed
    BY <1>1, <1>2, <2>1, AppendRange DEF Youngest, Publish
  <2>2. CASE ~ subscribed
    BY <1>1, <2>2 DEF Youngest, Publish
  <2> QED BY <1>1, <2>1, <2>2 DEF Youngest
<1>4. Flying' = Flying
  BY <1>3 DEF Flying
<1>5. CASE subscribed /\ e \notin Excluded
  <2>1. Due' = Due \cup {e}
    <3>1. Due' = (Range(queue') \cup Range(post) \cup buffer) \cap (Records \ Excluded)
      BY <1>3 DEF Due
    <3>2. e \in Records
      BY <1>1 DEF Youngest
    <3> QED BY <1>3, <1>5, <3>1, <3>2 DEF Due
  <2>2. \A s \in Shipping!Known : Shipping!Before(s, e)
    <3>1. ASSUME NEW s \in Shipping!Known PROVE s \in emitted
      <4>1. s \in Due \/ s \in taken["main"] \/ s \in taken["ticker"] \/ s \in stored \/ s \in dropped
        BY <3>1 DEF Shipping!Known, Due
      <4>2. s \in Records
        BY <4>1 DEF Due, IInv, Types, TypeOK
      <4> QED BY <4>1, <4>2, PlacedEmitted DEF Due
    <3> QED BY <1>1, <3>1 DEF Youngest
  <2>3. Shipping!Log(e)
    BY <1>3, <1>4, <2>1, <2>2 DEF Shipping!Log, Due, Flying
  <2> QED BY <1>1, <1>5, <2>3 DEF Youngest
<1>6. CASE ~ subscribed \/ e \in Excluded
  <2>1. Due' = (Range(queue') \cup Range(post) \cup buffer) \cap (Records \ Excluded)
    BY <1>3 DEF Due
  <2>2. Due' = Due
    BY <1>3, <1>6, <2>1 DEF Due
  <2> QED BY <1>3, <1>4, <2>2 DEF shipped
<1> QED BY <1>5, <1>6

\* A flush has the oldest of what waits depart, which is all that is buffered.
LEMMA SwapShips ==
  ASSUME IInv, InOrder, Filtered, NEW g \in {"main", "ticker"}, Swap(g)
  PROVE  (\E batch \in SUBSET Due : Shipping!Depart(batch)) \/ UNCHANGED shipped
<1>1. /\ taken \in [{"main", "ticker"} -> SUBSET Records] /\ buffer \subseteq Records
      /\ taken' = [taken EXCEPT ![g] = buffer] /\ buffer' = {}
      /\ UNCHANGED <<queue, post, stored, dropped>>
  BY DEF Swap, IInv, Types, TypeOK, platform, delivery, s3
<1>2. taken[g] = {} /\ taken'[g] = buffer
  BY <1>1 DEF Swap, IInv, Placed
<1>3. \A h \in {"main", "ticker"} : h # g => taken'[h] = taken[h]
  BY <1>1
<1>4. CASE buffer = {}
  <2>1. taken'["main"] = taken["main"] /\ taken'["ticker"] = taken["ticker"]
    BY <1>2, <1>3, <1>4
  <2>2. Due' = Due /\ Flying' = Flying
    BY <1>1, <1>4, <2>1 DEF Due, Flying
  <2> QED BY <1>1, <2>2 DEF shipped
<1>5. CASE buffer # {}
  <2>1. buffer \subseteq Due /\ \A r \in buffer : r \notin Range(queue) /\ r \notin Range(post)
    <3>1. ASSUME NEW r \in buffer PROVE r \notin Range(queue) /\ r \notin Range(post) /\ r \in Due
      <4>1. r \in Records /\ r \notin Excluded
        BY <1>1 DEF Filtered
      <4>2. \A p, q \in Places(r) : p = q
        BY <4>1 DEF IInv, Placed
      <4> QED BY <3>1, <4>1, <4>2, PlaceOf DEF Due
    <3> QED BY <3>1
  <2>2. Due' = Due \ buffer
    <3>1. Due' = (Range(queue) \cup Range(post)) \cap (Records \ Excluded)
      BY <1>1 DEF Due
    <3> QED BY <2>1, <3>1 DEF Due
  <2>3. Flying' = Flying \cup {buffer}
    <3>1. CASE g = "main"
      <4>1. taken'["main"] = buffer /\ taken["main"] = {} /\ taken'["ticker"] = taken["ticker"]
        BY <1>2, <1>3, <3>1
      <4> QED BY <1>5, <4>1 DEF Flying
    <3>2. CASE g = "ticker"
      <4>1. taken'["ticker"] = buffer /\ taken["ticker"] = {} /\ taken'["main"] = taken["main"]
        BY <1>2, <1>3, <3>2
      <4> QED BY <1>5, <4>1 DEF Flying
    <3> QED BY <3>1, <3>2
  <2>4. \A r \in buffer, s \in Due \ buffer : Shipping!Before(r, s)
    <3> SUFFICES ASSUME NEW r \in buffer, NEW s \in Due \ buffer PROVE Shipping!Before(r, s)
      OBVIOUS
    <3>1. r \in Records /\ s \in Records /\ (s \in Range(queue) \/ s \in Range(post))
      BY <1>1 DEF Due
    <3> QED BY <3>1 DEF InOrder, Ahead, Older
  <2>5. Shipping!Depart(buffer)
    BY <1>1, <1>5, <2>2, <2>3, <2>4 DEF Shipping!Depart, Due, Flying
  <2> QED BY <2>1, <2>5
<1> QED BY <1>4, <1>5

\* The outcome of an upload is that of its batch, and of no other.
LEMMA UploadShips ==
  ASSUME IInv, NEW g \in {"main", "ticker"}, Upload(g)
  PROVE  \/ \E batch \in Flying : Shipping!Store(batch) \/ Shipping!GiveUp(batch)
         \/ UNCHANGED shipped
<1>1. /\ taken \in [{"main", "ticker"} -> SUBSET Records]
      /\ taken' = [taken EXCEPT ![g] = {}]
      /\ UNCHANGED <<queue, post, buffer>>
      /\ \/ stored' = stored \cup taken[g] /\ dropped' = dropped
         \/ dropped' = dropped \cup taken[g] /\ stored' = stored
  BY DEF Upload, IInv, Types, TypeOK, platform, delivery, logBuffer
<1>2. taken'[g] = {} /\ \A h \in {"main", "ticker"} : h # g => taken'[h] = taken[h]
  BY <1>1
<1>3. Due' = Due
  BY <1>1 DEF Due
<1>4. CASE taken[g] = {}
  <2>1. taken'["main"] = taken["main"] /\ taken'["ticker"] = taken["ticker"]
    BY <1>2, <1>4
  <2>2. Flying' = Flying
    BY <2>1 DEF Flying
  <2> QED BY <1>1, <1>3, <1>4, <2>2 DEF shipped
<1>5. CASE taken[g] # {}
  <2>1. PICK batch : batch = taken[g]
    OBVIOUS
  <2>2. \A h \in {"main", "ticker"} : h # g => taken[h] # batch
    <3> SUFFICES ASSUME NEW h \in {"main", "ticker"}, h # g, taken[h] = batch PROVE FALSE
      OBVIOUS
    <3>1. PICK r \in batch : TRUE
      BY <1>5, <2>1
    <3>2. r \in Records /\ g \in Places(r) /\ h \in Places(r)
      BY <1>1, <2>1, <3>1, PlaceOf
    <3> QED BY <3>2 DEF IInv, Placed
  <2>3. batch \in Flying /\ Flying' = Flying \ {batch}
    <3>1. CASE g = "main"
      <4>1. taken'["main"] = {} /\ taken'["ticker"] = taken["ticker"] /\ taken["ticker"] # batch
        BY <1>2, <2>2, <3>1
      <4> QED BY <1>5, <2>1, <3>1, <4>1 DEF Flying
    <3>2. CASE g = "ticker"
      <4>1. taken'["ticker"] = {} /\ taken'["main"] = taken["main"] /\ taken["main"] # batch
        BY <1>2, <2>2, <3>2
      <4> QED BY <1>5, <2>1, <3>2, <4>1 DEF Flying
    <3> QED BY <3>1, <3>2
  <2>4. CASE stored' = stored \cup taken[g] /\ dropped' = dropped
    <3>1. Shipping!Store(batch)
      BY <1>3, <2>1, <2>3, <2>4 DEF Shipping!Store, Due, Flying
    <3> QED BY <2>3, <3>1
  <2>5. CASE dropped' = dropped \cup taken[g] /\ stored' = stored
    <3>1. Shipping!GiveUp(batch)
      BY <1>3, <2>1, <2>3, <2>5 DEF Shipping!GiveUp, Due, Flying
    <3> QED BY <2>3, <3>1
  <2> QED BY <1>1, <2>4, <2>5
<1> QED BY <1>4, <1>5

\* Between the queue and the buffer a record waits, wherever it is.
LEMMA MovesUnseen ==
  ASSUME IInv, Respond \/ Deliver \/ Parse
  PROVE  UNCHANGED shipped
<1>1. UNCHANGED <<taken, stored, dropped>>
  BY DEF Respond, Deliver, Parse, s3
<1>2. queue \in Seq(Events) /\ Distinct(queue) /\ Distinct(post)
  BY DEF IInv, Types, TypeOK, Placed
<1>3. ASSUME NEW r \in Records \ Excluded
      PROVE  \/ r \in Range(queue') \/ r \in Range(post') \/ r \in buffer'
             <=> \/ r \in Range(queue) \/ r \in Range(post) \/ r \in buffer
  <2>1. CASE Respond
    <3>1. PICK e : e = RuntimeDone(inv)
      OBVIOUS
    <3>2. inv \in 1 .. MaxInvocations
      BY <2>1 DEF IInv, Types, TypeOK, Control, Respond
    <3>3. e \in Events /\ e \notin Records
      BY <3>1, <3>2, EventFacts
    <3>4. /\ queue' = IF subscribed THEN Append(queue, e) ELSE queue
          /\ UNCHANGED <<post, buffer>>
      BY <2>1, <3>1 DEF Respond, Publish, delivery, logBuffer
    <3>5. Range(queue') = Range(queue) \/ Range(queue') = Range(queue) \cup {e}
      BY <1>2, <3>3, <3>4, AppendRange
    <3> QED BY <1>3, <3>3, <3>4, <3>5
  <2>2. CASE Deliver
    <3>1. PICK n \in 1 .. Len(queue) :
             post' = SubSeq(queue, 1, n) /\ queue' = SubSeq(queue, n + 1, Len(queue))
      BY <2>2 DEF Deliver
    <3>2. PICK a, b : a = SubSeq(queue, 1, n) /\ b = SubSeq(queue, n + 1, Len(queue))
      OBVIOUS
    <3>3. Split(queue, n, a, b)
      BY <3>2 DEF Split
    <3>4. r \in Range(queue) <=> (r \in Range(a) \/ r \in Range(b))
      BY <1>2, <3>3, SplitRange
    <3>5. post' = a /\ queue' = b /\ buffer' = buffer /\ post = <<>>
      BY <2>2, <3>1, <3>2 DEF Deliver, logBuffer, IInv, Control
    <3>6. r \notin Range(post)
      BY <3>5 DEF Range
    <3> QED BY <3>4, <3>5, <3>6
  <2>3. CASE Parse
    <3>1. PICK h, t : h = Head(post) /\ t = Tail(post)
      OBVIOUS
    <3>2. post # <<>>
      BY <2>3 DEF IInv, Control, Parse
    <3>3. Range(post) = Range(t) \cup {h} /\ h \in Events
      BY <1>2, <3>1, <3>2, TailRange DEF IInv
    <3>4. post' = t /\ queue' = queue
      BY <2>3, <3>1 DEF Parse, platform
    <3>5. r \in buffer' <=> r \in buffer \/ r = h
      <4>1. CASE IsRuntimeDone(h) /\ UNCHANGED buffer
        BY <1>3, <4>1, EventFacts
      <4>2. CASE ~ IsRuntimeDone(h) /\ ~ ShouldInclude(h) /\ UNCHANGED buffer
        BY <1>3, <4>2 DEF ShouldInclude
      <4>3. CASE ~ IsRuntimeDone(h) /\ AppendEntry(h)
        BY <4>3 DEF AppendEntry
      <4> QED BY <2>3, <3>1, <4>1, <4>2, <4>3 DEF Parse, logBuffer
    <3> QED BY <3>3, <3>4, <3>5
  <2> QED BY <2>1, <2>2, <2>3
<1>4. Due' = Due
  <2>1. \A r \in Records \ Excluded : r \in Due' <=> r \in Due
    BY <1>3 DEF Due, Range
  <2>2. Due \subseteq Records \ Excluded /\ Due' \subseteq Records \ Excluded
    BY DEF Due
  <2> QED BY <2>1, <2>2
<1>5. Flying' = Flying
  BY <1>1 DEF Flying
<1> QED BY <1>1, <1>4, <1>5 DEF shipped

\* ShipsTheLog: however the loop, the handler, the tickers and Stop interleave, a
\* record of sufficient level leaves the buffer with all that were before it, is
\* uploaded or given up with its batch, once and for good, and nothing else is
\* (buffer.go, telemetry.go, main.go).
THEOREM Shipment == Spec => ShipsTheLog
<1>1. Init => Shipping!Init /\ Filtered /\ InOrder
  <2> SUFFICES ASSUME Init PROVE Shipping!Init /\ Filtered /\ InOrder
    OBVIOUS
  <2>1. Due = {} /\ Flying = {}
    BY DEF Init, Due, Flying, Range
  <2> QED BY <2>1, InitInOrder DEF Init, Shipping!Init, Filtered, Due, Flying
<1>2. IInv /\ Filtered /\ [Next]_vars => Filtered'
  BY FilteredNext DEF IInv
<1>3. IInv /\ InOrder /\ [Next]_vars => InOrder'
  BY InOrderNext
<1>4. IInv /\ Filtered /\ InOrder /\ [Next]_vars => [Shipping!Next]_shipped
  <2> SUFFICES ASSUME IInv, Filtered, InOrder, [Next]_vars
               PROVE  [Shipping!Next]_shipped
    OBVIOUS
  <2>1. CASE Log \/ Freeze
    BY <2>1, LogShips DEF Shipping!Next
  <2>2. ASSUME NEW g \in {"main", "ticker"}, Swap(g) PROVE [Shipping!Next]_shipped
    BY <2>2, SwapShips DEF Shipping!Next, Due
  <2>3. ASSUME NEW g \in {"main", "ticker"}, Upload(g) PROVE [Shipping!Next]_shipped
    BY <2>3, UploadShips DEF Shipping!Next, Flying
  <2>4. CASE Respond \/ Deliver \/ Parse
    BY <2>4, MovesUnseen
  <2>5. CASE UNCHANGED <<queue, post, buffer, taken, stored, dropped>>
    BY <2>5 DEF shipped, Due, Flying
  <2> QED BY <2>1, <2>2, <2>3, <2>4, <2>5, NoneMoves
<1> QED BY <1>1, <1>2, <1>3, <1>4, Inductive, PTL DEF Spec, ShipsTheLog, Shipping!Spec, shipped, Due, Flying
-----------------------------------------------------------------------------
(* The signal, until a wait times out. *)

\* Main waits only for an invocation whose telemetry it has subscribed to.
Attended == pc.main = "await" => subscribed /\ phase \in {"running", "responded"}

\* Only Invoke makes it wait, and nothing ends the invocation while it does.
LEMMA AttendedNext ==
  ASSUME Types, Control, Attended, [Next]_vars
  PROVE  Attended'
<1> USE DEF startup, platform, delivery, logBuffer, s3, Goto
<1>0. pc \in [{"main", "ticker"} -> MainLabels \cup TickerLabels]
  BY DEF Types, TypeOK
<1>1. /\ \A label : [pc EXCEPT !["main"] = label].main = label
      /\ \A label : [pc EXCEPT !["ticker"] = label].main = pc.main
  BY <1>0
<1>2. Resume("main") # "await"
  BY DEF Resume
<1>3. CASE Initialised \/ Log \/ Respond \/ Freeze \/ Die
  BY <1>3 DEF Initialised, Log, Respond, Freeze, Die, Attended
<1>4. CASE Invoke
  <2>1. pc'.main = (IF subscribed THEN "await" ELSE "next") /\ phase' = "running"
    BY <1>1, <1>4 DEF Invoke
  <2> QED BY <1>4, <2>1 DEF Invoke, Attended
<1>5. CASE Register \/ Subscribe \/ Await \/ Check \/ Cancel \/ Join \/ CloseServer \/ Shutdown \/ NextFails
  <2>1. pc'.main # "await"
    <3>1. pc.main = "register" => pc'.main \in {"subscribe", "next", "exited", "register"} \/ ~ Register
      BY <1>1 DEF Register
    <3> QED BY <1>1, <1>2, <1>5, <3>1 DEF Register, Subscribe, Await, Check, Cancel, Join, CloseServer,
            Shutdown, NextFails
  <2> QED BY <2>1 DEF Attended
<1>6. CASE Swap("main") \/ Upload("main")
  <2>1. pc'.main # "await"
    BY <1>1, <1>2, <1>6 DEF Swap, Upload
  <2> QED BY <2>1 DEF Attended
<1>7. ASSUME pc'.main = pc.main, UNCHANGED <<subscribed, phase>>
      PROVE  Attended'
  BY <1>7 DEF Attended
<1>8. CASE Swap("ticker") \/ Upload("ticker") \/ Tick \/ TickerEnds
  BY <1>1, <1>7, <1>8 DEF Swap, Upload, Tick, TickerEnds
<1>9. CASE Deliver \/ Parse \/ Signal \/ UNCHANGED vars
  BY <1>7, <1>9 DEF Deliver, Parse, Signal, vars
<1> QED BY <1>3, <1>4, <1>5, <1>6, <1>8, <1>9 DEF Next, Lambda, Handler, Main, Ticker, Flush

\* SignalIsCurrent, but only for waits before the first that times out.
SignalIsCurrentAtFirst ==
    [][ ~ timedOut /\ pc.main = "await" /\ runtimeDone /\ ~ runtimeDone' =>
          phase # "running" /\ RuntimeDone(inv) \notin Range(queue) \cup Range(post) ]_vars

\* AwaitRuntimeDone: it takes a wait that has timed out for a signal to be that
\* of another invocation; until then a wait ends with its own invocation's
\* telemetry delivered (telemetry.go).
THEOREM CurrentAtFirst == Spec => SignalIsCurrentAtFirst
<1>1. Init => Attended
  BY DEF Init, Attended
<1>2. IInv /\ Attended /\ [Next]_vars => Attended'
  BY AttendedNext DEF IInv
<1>3. ASSUME IInv, Attended, [Next]_vars, ~ timedOut, pc.main = "await", runtimeDone, ~ runtimeDone'
      PROVE  phase # "running" /\ RuntimeDone(inv) \notin Range(queue) \cup Range(post)
  <2>1. waitOn
    <3>1. CASE Lambda \/ Deliver \/ Parse \/ Ticker \/ UNCHANGED vars
      BY <1>3, <3>1 DEF Lambda, Initialised, Invoke, Log, Respond, Freeze, Shutdown, NextFails, Die,
         Deliver, Parse, Ticker, Flush, Swap, Upload, Tick, TickerEnds, vars
    <3>2. CASE Signal
      BY <1>3, <3>2 DEF Signal, IInv, Types, TypeOK
    <3>3. CASE Main
      BY <1>3, <3>3 DEF Main, Register, Subscribe, Await, Check, Flush, Swap, Upload, Cancel, Join,
         CloseServer
    <3> QED BY <1>3, <3>1, <3>2, <3>3 DEF Next, Handler
  <2>2. Waiting /\ phase \in {"running", "responded"}
    BY <1>3, <2>1 DEF Attended, Waiting
  <2>3. phase = "responded" /\ Coming
    BY <1>3, <2>2 DEF IInv, Ordered, Quiet
  <2>4. queue = <<>> /\ post = <<>>
    BY <1>3, <2>3 DEF Coming, Quiet
  <2> QED BY <2>3, <2>4 DEF Range
<1>4. IInv /\ Attended /\ [Next]_vars
      => [~ timedOut /\ pc.main = "await" /\ runtimeDone /\ ~ runtimeDone' =>
            phase # "running" /\ RuntimeDone(inv) \notin Range(queue) \cup Range(post)]_vars
  BY <1>3
<1> QED BY <1>1, <1>2, <1>4, Inductive, PTL DEF Spec, SignalIsCurrentAtFirst

-----------------------------------------------------------------------------
(* Between two steps of Lambda there are only so many of everyone else. *)

\* How far main is from waiting for Lambda, or from its end.
MainWork ==
    CASE pc.main = "register"    -> 15 - attempts
      [] pc.main = "subscribe"   -> 10
      [] pc.main = "cancel"      -> 8
      [] pc.main = "join"        -> 7
      [] pc.main = "await"       -> 6
      [] pc.main = "check"       -> 5
      [] pc.main = "flush"       -> 4
      [] pc.main = "upload"      -> 3
      [] pc.main = "closeServer" -> 2
      [] pc.main = "next"        -> 1
      [] pc.main = "exited"      -> 0

\* The same for the tickers; a flush that finds nothing goes back to its select.
TickerWork ==
    CASE pc.ticker = "select" -> 2
      [] pc.ticker = "flush"  -> IF bytes > 0 THEN 1 ELSE 3
      [] pc.ticker = "upload" -> 3
      [] pc.ticker = "ended"  -> 0

SignalWork == IF handler = "signal" THEN 1 ELSE 0

\* An event costs its delivery and its parsing, an entry the flush it may cause.
Work == 8 * Len(queue) + 6 * Len(post) + 4 * bytes + SignalWork + MainWork + TickerWork

\* Nothing but Lambda makes work.
WorkOnlyShrinks == [][Deliver \/ Handler \/ Main \/ Ticker => Work' < Work]_vars

\* The measures are numbers.
LEMMA WorkType ==
  ASSUME Types, Control
  PROVE  /\ Work \in Nat /\ MainWork \in Nat /\ TickerWork \in Nat /\ SignalWork \in 0 .. 1
         /\ Len(queue) \in Nat /\ Len(post) \in Nat /\ bytes \in Nat /\ attempts \in 0 .. 4
         /\ bytes = 0 <=> buffer = {}
<1>1. Len(queue) \in Nat /\ Len(post) \in Nat
  BY LenProperties DEF Types, TypeOK
<1>2. bytes \in Nat /\ (bytes = 0 <=> buffer = {})
  BY FS_CardinalityType, FS_EmptySet DEF Types, TypeOK
<1>3. attempts \in 0 .. 4
  BY DEF Types, TypeOK, Backoffs
<1>4. MainWork \in Nat
  BY <1>3 DEF Control, MainLabels, MainWork
<1>5. TickerWork \in Nat
  BY <1>2 DEF Control, TickerLabels, TickerWork
<1>6. SignalWork \in 0 .. 1
  BY DEF SignalWork
<1> QED BY <1>1, <1>2, <1>3, <1>4, <1>5, <1>6 DEF Work

\* Each step of the handler, of main, of the tickers, each delivery.
LEMMA WorkShrinks ==
  ASSUME Types, Control, Types', Control', Deliver \/ Handler \/ Main \/ Ticker
  PROVE  Work' < Work
<1> USE DEF startup, platform, delivery, logBuffer, s3, Goto
<1>0. pc \in [{"main", "ticker"} -> MainLabels \cup TickerLabels]
  BY DEF Types, TypeOK
<1>1. /\ \A label : [pc EXCEPT !["main"] = label].main = label
      /\ \A label : [pc EXCEPT !["main"] = label].ticker = pc.ticker
      /\ \A label : [pc EXCEPT !["ticker"] = label].ticker = label
      /\ \A label : [pc EXCEPT !["ticker"] = label].main = pc.main
  BY <1>0
<1>2. /\ Resume("main") \in {"closeServer", "next"}
      /\ Resume("ticker") = "select"
  BY DEF Resume
<1>3. attempts \in 0 .. 4 /\ bytes \in Nat /\ (bytes = 0 <=> buffer = {})
  BY WorkType
<1>4. /\ Len(queue) \in Nat /\ Len(post) \in Nat /\ bytes \in Nat
      /\ SignalWork \in Nat /\ MainWork \in Nat /\ TickerWork \in Nat
      /\ Len(queue') \in Nat /\ Len(post') \in Nat /\ bytes' \in Nat
      /\ SignalWork' \in Nat /\ MainWork' \in Nat /\ TickerWork' \in Nat
  <2>1. (Types /\ Control)' =>
           (/\ Len(queue) \in Nat /\ Len(post) \in Nat /\ bytes \in Nat
            /\ SignalWork \in 0 .. 1 /\ MainWork \in Nat /\ TickerWork \in Nat)'
    BY WorkType, PTL
  <2> QED BY <2>1, WorkType
<1>5. PICK q \in Nat, q2 \in Nat : q = Len(queue) /\ q2 = Len(queue')
  BY <1>4
<1>6. PICK p \in Nat, p2 \in Nat : p = Len(post) /\ p2 = Len(post')
  BY <1>4
<1>7. PICK b \in Nat, b2 \in Nat : b = bytes /\ b2 = bytes'
  BY <1>4
<1>8. PICK s \in Nat, s2 \in Nat : s = SignalWork /\ s2 = SignalWork'
  BY <1>4
<1>9. PICK m \in Nat, m2 \in Nat : m = MainWork /\ m2 = MainWork'
  BY <1>4
<1>10. PICK t \in Nat, t2 \in Nat : t = TickerWork /\ t2 = TickerWork'
  BY <1>4
<1>11. /\ q = Len(queue) /\ p = Len(post) /\ b = bytes
      /\ s = SignalWork /\ m = MainWork /\ t = TickerWork
      /\ q2 = Len(queue') /\ p2 = Len(post') /\ b2 = bytes'
      /\ s2 = SignalWork' /\ m2 = MainWork' /\ t2 = TickerWork'
  BY <1>5, <1>6, <1>7, <1>8, <1>9, <1>10
<1>12. SUFFICES 8 * q2 + 6 * p2 + 4 * b2 + s2 + m2 + t2 < 8 * q + 6 * p + 4 * b + s + m + t
  BY <1>11 DEF Work
<1>13. ASSUME pc' = pc, bytes' \in {bytes, bytes + 1} PROVE t2 <= t
  <2>1. TickerWork' <= TickerWork
    BY <1>3, <1>13 DEF TickerWork, Control, TickerLabels
  <2> QED BY <1>11, <2>1
<1>14. CASE Deliver
  <2> PICK n \in 1 .. Len(queue) :
         post' = SubSeq(queue, 1, n) /\ queue' = SubSeq(queue, n + 1, Len(queue))
    BY <1>14 DEF Deliver
  <2>1. p2 = n /\ q2 = q - n
    BY <1>11, SeqSplit DEF Types, TypeOK
  <2>2. p = 0
    BY <1>11, <1>14, EmptySeq DEF Deliver, Control
  <2>3. s2 = s
    BY <1>11, <1>14 DEF Deliver, SignalWork
  <2>4. m2 = m /\ t2 = t /\ b2 = b
    BY <1>11, <1>14 DEF Deliver, MainWork, TickerWork
  <2> QED BY <2>1, <2>2, <2>3, <2>4
<1>15. CASE Parse
  <2>1. p2 = p - 1
    BY <1>11, <1>15, PostHead DEF Parse, Control
  <2>2. bytes' \in {bytes, bytes + 1} /\ UNCHANGED <<queue, pc, attempts>>
    BY <1>15 DEF Parse, AppendEntry
  <2>3. b2 <= b + 1 /\ q2 = q
    BY <1>11, <2>2
  <2>4. m2 = m /\ t2 <= t
    BY <1>11, <1>13, <2>2 DEF MainWork
  <2>5. s2 <= 1
    BY <1>11 DEF SignalWork
  <2> QED BY <2>1, <2>3, <2>4, <2>5
<1>16. CASE Signal
  <2>1. s = 1 /\ s2 = 0
    BY <1>11, <1>16 DEF Signal, SignalWork
  <2>2. m2 = m /\ t2 = t /\ b2 = b /\ q2 = q /\ p2 = p
    BY <1>11, <1>16 DEF Signal, MainWork, TickerWork
  <2> QED BY <2>1, <2>2
<1>17. ASSUME UNCHANGED <<queue, post, handler, bytes>>, pc'.ticker = pc.ticker, m2 < m
       PROVE  8 * q2 + 6 * p2 + 4 * b2 + s2 + m2 + t2 < 8 * q + 6 * p + 4 * b + s + m + t
  <2>1. t2 = t /\ s2 = s /\ q2 = q /\ p2 = p /\ b2 = b
    BY <1>11, <1>17 DEF TickerWork, SignalWork
  <2> QED BY <1>17, <2>1
<1>18. CASE Register
  <2>1. pc.main = "register" /\ attempts \in 0 .. 3
    BY <1>3, <1>18 DEF Register, Control, Backoffs
  <2>2. /\ pc'.main \in {"subscribe", "next", "exited"} \/ (pc'.main = "register" /\ attempts' = attempts + 1)
        /\ pc'.ticker = pc.ticker /\ UNCHANGED <<queue, post, handler, bytes>>
    BY <1>1, <1>18 DEF Register
  <2>3. m = 15 - attempts
    BY <1>11, <2>1 DEF MainWork
  <2>4. m2 \in {10, 1, 0} \/ m2 = 15 - (attempts + 1)
    BY <1>11, <2>2 DEF MainWork
  <2>5. m2 < m
    BY <2>1, <2>3, <2>4
  <2> QED BY <1>17, <2>2, <2>5
<1>19. CASE Subscribe \/ Await \/ Check \/ Cancel \/ Join \/ CloseServer
  <2>1. /\ pc'.ticker = pc.ticker
        /\ UNCHANGED <<queue, post, handler, bytes>>
        /\ \/ pc.main = "subscribe" /\ pc'.main = "next"
           \/ pc.main = "await" /\ pc'.main = "check"
           \/ pc.main = "check" /\ pc'.main \in {"flush", "closeServer", "next"}
           \/ pc.main = "cancel" /\ pc'.main = "join"
           \/ pc.main = "join" /\ pc'.main = "check"
           \/ pc.main = "closeServer" /\ pc'.main = "exited"
    BY <1>1, <1>2, <1>19 DEF Subscribe, Await, Check, Cancel, Join, CloseServer
  <2>2. MainWork' < MainWork
    BY <2>1 DEF MainWork
  <2> QED BY <1>17, <1>11, <2>1, <2>2
<1>20. CASE Swap("main")
  <2>1. /\ pc.main = "flush" /\ pc'.main \in {"upload", "closeServer", "next"}
        /\ pc'.ticker = pc.ticker /\ bytes' = 0 /\ UNCHANGED <<queue, post, handler>>
    BY <1>1, <1>2, <1>20 DEF Swap
  <2>2. MainWork = 4 /\ MainWork' <= 3
    BY <2>1 DEF MainWork
  <2>3. TickerWork' <= TickerWork + 2 /\ (bytes = 0 => TickerWork' = TickerWork)
    BY <1>3, <2>1 DEF TickerWork, Control, TickerLabels
  <2>4. b2 = 0 /\ q2 = q /\ p2 = p /\ s2 = s
    BY <1>11, <2>1 DEF SignalWork
  <2>5. m = 4 /\ m2 <= 3 /\ t2 <= t + 2 /\ (b = 0 => t2 = t)
    BY <1>11, <2>2, <2>3
  <2> QED BY <2>4, <2>5
<1>21. CASE Upload("main")
  <2>1. /\ pc.main = "upload" /\ pc'.main \in {"closeServer", "next"}
        /\ pc'.ticker = pc.ticker /\ UNCHANGED <<queue, post, handler, bytes>>
    BY <1>1, <1>2, <1>21 DEF Upload
  <2>2. MainWork' < MainWork
    BY <2>1 DEF MainWork
  <2> QED BY <1>17, <1>11, <2>1, <2>2
<1>22. ASSUME UNCHANGED <<queue, post, handler, attempts>>, pc'.main = pc.main,
              4 * b2 + t2 < 4 * b + t
       PROVE  8 * q2 + 6 * p2 + 4 * b2 + s2 + m2 + t2 < 8 * q + 6 * p + 4 * b + s + m + t
  <2>1. m2 = m /\ s2 = s /\ q2 = q /\ p2 = p
    BY <1>11, <1>22 DEF MainWork, SignalWork
  <2> QED BY <1>22, <2>1
<1>23. CASE Tick
  <2>1. /\ pc.ticker = "select" /\ pc'.ticker = "flush" /\ pc'.main = pc.main
        /\ UNCHANGED <<queue, post, handler, attempts, bytes>>
    BY <1>1, <1>23 DEF Tick
  <2>2. bytes > 0
    BY <1>3, <1>23, BoundsAssumption DEF Tick
  <2>3. t = 2 /\ t2 = 1 /\ b2 = b
    BY <1>11, <2>1, <2>2 DEF TickerWork
  <2> QED BY <1>22, <2>1, <2>3
<1>24. CASE TickerEnds
  <2>1. /\ pc.ticker = "select" /\ pc'.ticker = "ended" /\ pc'.main = pc.main
        /\ UNCHANGED <<queue, post, handler, attempts, bytes>>
    BY <1>1, <1>24 DEF TickerEnds
  <2>2. t = 2 /\ t2 = 0 /\ b2 = b
    BY <1>11, <2>1 DEF TickerWork
  <2> QED BY <1>22, <2>1, <2>2
<1>25. CASE Swap("ticker")
  <2>1. /\ pc.ticker = "flush" /\ pc'.ticker = (IF bytes = 0 THEN "select" ELSE "upload")
        /\ pc'.main = pc.main /\ bytes' = 0 /\ UNCHANGED <<queue, post, handler, attempts>>
    BY <1>1, <1>2, <1>3, <1>25 DEF Swap
  <2>2. CASE bytes = 0
    <3>1. t = 3 /\ t2 = 2 /\ b = 0 /\ b2 = 0
      BY <1>11, <2>1, <2>2 DEF TickerWork
    <3> QED BY <1>22, <2>1, <3>1
  <2>3. CASE bytes # 0
    <3>1. bytes > 0 /\ bytes' = 0
      BY <1>3, <2>1, <2>3
    <3>2. TickerWork = 1 /\ TickerWork' = 3
      BY <2>1, <2>3, <3>1 DEF TickerWork
    <3>3. t = 1 /\ t2 = 3 /\ b >= 1 /\ b2 = 0
      BY <1>11, <3>1, <3>2
    <3> QED BY <1>22, <2>1, <3>3
  <2> QED BY <2>2, <2>3
<1>26. CASE Upload("ticker")
  <2>1. /\ pc.ticker = "upload" /\ pc'.ticker = "select" /\ pc'.main = pc.main
        /\ UNCHANGED <<queue, post, handler, attempts, bytes>>
    BY <1>1, <1>2, <1>26 DEF Upload
  <2>2. t = 3 /\ t2 = 2 /\ b2 = b
    BY <1>11, <2>1 DEF TickerWork
  <2> QED BY <1>22, <2>1, <2>2
<1> QED BY <1>14, <1>15, <1>16, <1>18, <1>19, <1>20, <1>21, <1>23, <1>24, <1>25, <1>26
        DEF Handler, Main, Ticker, Flush

\* Whatever ticks, deliveries and time-outs fall there, between two steps of
\* Lambda are at most Work steps of the extension and of the deliveries: no loop
\* of the extension holds the environment open, and after SHUTDOWN it comes to
\* an end or to a stop, which is all that is left to fairness (main.go).
THEOREM WorkIsFinite == Spec => [](Work \in Nat) /\ WorkOnlyShrinks
<1>1. IInv => Work \in Nat
  BY WorkType DEF IInv
<1>2. IInv /\ IInv' => [Deliver \/ Handler \/ Main \/ Ticker => Work' < Work]_vars
  BY WorkShrinks DEF IInv
<1> QED BY <1>1, <1>2, Inductive, PTL DEF WorkOnlyShrinks

\* The guards of main, of the handler and of the tickers' goroutine.
MainMay == \/ pc.main \in {"register", "subscribe", "await", "check", "flush", "upload", "cancel"}
           \/ pc.main = "join" /\ pc.ticker = "ended"
           \/ pc.main = "closeServer" /\ handler = "idle"
HandlerMay == \/ handler = "parse" /\ post # <<>>
              \/ handler = "signal"
TickerMay == pc.ticker \in {"flush", "upload"} \/ (pc.ticker = "select" /\ cancelled)

\* Nobody waits for somebody who waits.
NoneStuck == Thawed /\ pc.main # "next" => MainMay \/ HandlerMay \/ TickerMay

\* Stop joins the tickers' goroutine only after it has told it to end.
ToldToEnd == pc.main = "join" => cancelled

\* Cancel comes before Join, and is never taken back.
LEMMA ToldToEndNext ==
  ASSUME Types, ToldToEnd, [Next]_vars
  PROVE  ToldToEnd'
<1> USE DEF startup, platform, delivery, logBuffer, s3, Goto
<1>0. pc \in [{"main", "ticker"} -> MainLabels \cup TickerLabels]
  BY DEF Types, TypeOK
<1>1. /\ \A label : [pc EXCEPT !["main"] = label].main = label
      /\ \A label : [pc EXCEPT !["ticker"] = label].main = pc.main
  BY <1>0
<1>2. Resume("main") # "join"
  BY DEF Resume
<1>3. cancelled' = cancelled \/ Cancel
  <2>1. CASE Lambda \/ Deliver \/ Handler \/ UNCHANGED vars
    BY <2>1 DEF Lambda, Initialised, Invoke, Log, Respond, Freeze, Shutdown, NextFails, Die, Deliver,
       Handler, Parse, Signal, vars
  <2>2. CASE Main \/ Ticker
    BY <2>2 DEF Main, Ticker, Flush, Swap, Upload, Register, Subscribe, Await, Check, Join,
       CloseServer, Tick, TickerEnds
  <2> QED BY <2>1, <2>2 DEF Next
<1>4. CASE Cancel
  BY <1>4 DEF Cancel, ToldToEnd
<1>5. pc'.main = pc.main \/ pc'.main # "join" \/ Cancel
  <2>1. CASE Lambda \/ Deliver \/ Handler \/ UNCHANGED vars
    BY <1>1, <2>1 DEF Lambda, Initialised, Invoke, Log, Respond, Freeze, Shutdown, NextFails, Die, Deliver,
       Handler, Parse, Signal, vars
  <2>2. CASE Flush("main")
    BY <1>1, <1>2, <2>2 DEF Flush, Swap, Upload
  <2>3. CASE Register \/ Subscribe \/ Await \/ Check \/ Join \/ CloseServer
    BY <1>1, <1>2, <2>3 DEF Register, Subscribe, Await, Check, Join, CloseServer
  <2>4. CASE Ticker
    BY <1>1, <2>4 DEF Ticker, Flush, Swap, Upload, Tick, TickerEnds
  <2> QED BY <2>1, <2>2, <2>3, <2>4 DEF Next, Main
<1> QED BY <1>3, <1>4, <1>5 DEF ToldToEnd

\* While the environment is thawed and main is not waiting for Lambda, somebody
\* can go on: Stop, which waits for the tickers and the handler, does so with
\* no wait in a circle (telemetry.go).
THEOREM NoDeadlock == Spec => []NoneStuck
<1>1. Init => ToldToEnd
  BY DEF Init, ToldToEnd
<1>2. IInv /\ ToldToEnd /\ [Next]_vars => ToldToEnd'
  BY ToldToEndNext DEF IInv
<1>3. IInv /\ ToldToEnd => NoneStuck
  BY DEF IInv, Types, TypeOK, Control, ToldToEnd, NoneStuck, MainMay, HandlerMay, TickerMay, Thawed,
     MainLabels, TickerLabels
<1> QED BY <1>1, <1>2, <1>3, Inductive, PTL DEF Spec
=============================================================================
