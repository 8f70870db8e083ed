-------------------------- MODULE DeploymentProofs --------------------------
(***************************************************************************)
(* Proofs about a deployment, for any extensions, functions, options and   *)
(* limits, and any number and order of calls.                              *)
(*                                                                         *)
(* A function's variables, grants and layers are each the outcome of the   *)
(* attachments that went through, in their order; that is the invariant,   *)
(* one conjunct for each of the three, and every step either adds one      *)
(* attachment or builds an extension that none of them is of.  The rest    *)
(* are properties of prefixes.                                             *)
(***************************************************************************)
EXTENDS Deployment, FiniteSetTheorems, SequenceTheorems, WellFoundedInduction, TLAPS

-----------------------------------------------------------------------------
(* Numbers, sequences and prefixes *)

\* A set of naturals has a least element.
LEMMA Least ==
  ASSUME NEW S, S \subseteq Nat, S # {}
  PROVE  \E x \in S : \A y \in S : x <= y
<1>1. PICK R : R = OpToRel(<, Nat)
  BY Zenon
<1>2. IsWellFoundedOn(R, Nat)
  BY <1>1, NatLessThanWellFounded, Zenon
<1>3. PICK x \in S : \A y \in S : ~ (<<y, x>> \in R)
  BY <1>2, WFMin
<1>4. \A y \in S : ~ (y < x)
  BY <1>1, <1>3 DEF OpToRel
<1>5. \A y \in S : x <= y
  BY <1>4
<1> QED BY <1>5

\* An element that is at least the others is the one Max takes.
LEMMA MaxIs ==
  ASSUME NEW S, S \subseteq Int, NEW x \in S, \A y \in S : x >= y
  PROVE  Max(S) = x
<1>1. PICK m : m = Max(S)
  OBVIOUS
<1>2. m \in S /\ \A y \in S : m >= y
  BY <1>1 DEF Max
<1> QED BY <1>1, <1>2

\* An element that is at most the others is the one Min takes.
LEMMA MinIs ==
  ASSUME NEW S, S \subseteq Int, NEW x \in S, \A y \in S : x <= y
  PROVE  Min(S) = x
<1>1. PICK m : m = Min(S)
  OBVIOUS
<1>2. m \in S /\ \A y \in S : m <= y
  BY <1>1 DEF Min
<1> QED BY <1>1, <1>2

\* A bounded set has a least and a greatest element.
LEMMA Bounded ==
  ASSUME NEW n \in Nat, NEW S, S \subseteq 0 .. n, S # {}
  PROVE  Min(S) \in S /\ Max(S) \in S /\ \A y \in S : Max(S) >= y
<1>0. S \subseteq Nat /\ S \subseteq Int /\ \A x \in S : n - x \in Nat /\ n \in Int /\ x \in Int
  <2>1. \A x \in 0 .. n : x \in Nat /\ x \in Int /\ n - x \in Nat
    OBVIOUS
  <2> QED BY <2>1
<1>1. Min(S) \in S
  <2>1. PICK x \in S : \A y \in S : x <= y
    BY <1>0, Least
  <2> QED BY <1>0, <2>1, MinIs
<1>2. Max(S) \in S /\ \A y \in S : Max(S) >= y
  <2>1. PICK T : T = {n - x : x \in S}
    OBVIOUS
  <2>2. T \subseteq Nat /\ T # {}
    BY <1>0, <2>1
  <2>3. PICK m \in T : \A y \in T : m <= y
    BY <2>2, Least
  <2>4. PICK x \in S : m = n - x
    BY <2>1
  <2>5. \A y \in S : n - x <= n - y
    BY <2>1, <2>3, <2>4
  <2>6. \A y \in S : x >= y
    BY <1>0, <2>4, <2>5
  <2>7. Max(S) = x
    BY <1>0, <2>6, MaxIs
  <2> QED BY <2>6, <2>7
<1> QED BY <1>1, <1>2

\* Strip leaves a sequence over the same elements.
LEMMA StripSeq ==
  ASSUME NEW S, NEW s \in Seq(S), NEW t
  PROVE  Strip(s, t) \in Seq(S)
<1>1. PICK n \in Nat : n = Len(s) /\ DOMAIN s = 1 .. n /\ \A i \in 1 .. n : s[i] \in S
  <2>1. Len(s) \in Nat /\ DOMAIN s = 1 .. Len(s)
    BY LenProperties
  <2> QED BY <2>1, ElementOfSeq
<1>2. PICK a, b : /\ a = Min({i \in DOMAIN s : s[i] # t} \cup {Len(s) + 1})
                  /\ b = Max({i \in DOMAIN s : s[i] # t} \cup {0})
  OBVIOUS
<1>3. a \in 1 .. n + 1
  <2>1. PICK M : M = {i \in DOMAIN s : s[i] # t} \cup {Len(s) + 1}
    OBVIOUS
  <2>2. M \subseteq 1 .. n + 1 /\ M \subseteq 0 .. n + 1 /\ M # {}
    BY <1>1, <2>1
  <2>3. Min(M) \in M
    <3>1. PICK k \in Nat : k = n + 1
      BY <1>1
    <3> QED BY <2>2, <3>1, Bounded
  <2> QED BY <1>2, <2>1, <2>2, <2>3
<1>4. b \in 0 .. n
  <2>1. PICK M : M = {i \in DOMAIN s : s[i] # t} \cup {0}
    OBVIOUS
  <2>2. M \subseteq 0 .. n /\ M # {}
    BY <1>1, <2>1
  <2>3. Max(M) \in M
    BY <1>1, <2>2, Bounded
  <2> QED BY <1>2, <2>1, <2>2, <2>3
<1>5. \A i \in a .. b : i \in 1 .. n
  BY <1>3, <1>4
<1>6. SubSeq(s, a, b) \in Seq(S)
  BY <1>1, <1>3, <1>4, <1>5, SubSeqProperties
<1> QED BY <1>2, <1>6 DEF Strip

\* A sequence over some elements is one over more.
LEMMA WiderSeq ==
  ASSUME NEW S, NEW T, S \subseteq T, NEW s \in Seq(S)
  PROVE  s \in Seq(T)
OBVIOUS

\* So is one with one more of them.
LEMMA Appended ==
  ASSUME NEW S, NEW s \in Seq(S), NEW x \in S
  PROVE  Append(s, x) \in Seq(S)
OBVIOUS

\* What a prefix is made of: strings, two of them named.
Tokens == STRING \cup {"logs", "/"}

\* Normalising leaves a sequence over the same tokens.
LEMMA NormalSeq ==
  ASSUME NEW p \in Seq(Tokens)
  PROVE  NormalizePrefix(p) \in Seq(Tokens)
<1>1. PICK q : q = Strip(p, " ")
  OBVIOUS
<1>2. q \in Seq(Tokens)
  BY <1>1, StripSeq
<1>3. PICK r : r = Strip(q, "/")
  OBVIOUS
<1>4. r \in Seq(Tokens)
  BY <1>2, <1>3, StripSeq
<1>5. NormalizePrefix(p) = IF r = <<>> THEN <<>> ELSE Append(r, "/")
  BY <1>1, <1>3 DEF NormalizePrefix
<1>6. Append(r, "/") \in Seq(Tokens)
  <2>1. "/" \in Tokens
    BY DEF Tokens
  <2> QED BY <1>4, <2>1, Appended
<1>7. <<>> \in Seq(Tokens)
  OBVIOUS
<1> QED BY <1>5, <1>6, <1>7

\* A sequence begins with itself and with nothing.
LEMMA PrefixFacts ==
  ASSUME NEW S, NEW s \in Seq(S)
  PROVE  IsPrefix(s, s) /\ IsPrefix(<<>>, s)
<1>1. Len(s) \in Nat /\ Len(<<>>) = 0
  BY LenProperties
<1>2. SubSeq(<<>>, 1, 0) = <<>> /\ SubSeq(s, 1, 0) = <<>>
  BY SubSeqProperties
<1> QED BY <1>1, <1>2 DEF IsPrefix

\* A key prefix is a sequence, the default one too.
LEMMA KeyPrefixes ==
  /\ DEFAULT_KEY_PREFIX \in Seq(Tokens)
  /\ \A props \in Props \cup Attributes : KeyPrefix(props) \in Seq(Tokens)
<1>1. DEFAULT_KEY_PREFIX \in Seq(Tokens)
  BY DEF DEFAULT_KEY_PREFIX, Tokens
<1>2. ASSUME NEW props \in Props \cup Attributes
      PROVE  KeyPrefix(props) \in Seq(Tokens)
  <2>1. PICK p : p = Option(props, "keyPrefix", DEFAULT_KEY_PREFIX)
    OBVIOUS
  <2>2. p \in Seq(STRING)
    BY <2>1, PropsAssumption
  <2>3. p \in Seq(Tokens)
    <3>1. STRING \subseteq Tokens
      BY DEF Tokens
    <3> QED BY <2>2, <3>1, WiderSeq
  <2> QED BY <2>1, <2>3, NormalSeq DEF KeyPrefix
<1> QED BY <1>1, <1>2

\* What LayerOf may be, and what a function may carry.
Layers == Extensions \cup
    {attributes.layerVersionArn : attributes \in
        {p \in Props \cup Attributes : "layerVersionArn" \in DOMAIN p}}
AnyLayer == Layers \cup UNION {Range(own) : own \in OwnLayers}

Types ==
    /\ extension \in [Extensions -> Props \cup Attributes \cup {None}]
    /\ attached \in [Extensions -> SUBSET Functions]
    /\ \A e \in Extensions : \A f \in attached[e] : e \in Built /\ Fits(e, f)
    /\ layers \in [Functions -> Seq(AnyLayer)]
    /\ \A f \in Functions : Len(layers[f]) <= MaxLayers
    /\ effective \in [Functions -> Seq(Extensions \X Options)]
    /\ \A f \in Functions : \A i \in DOMAIN effective[f] : effective[f][i][1] \in Built
    /\ DOMAIN env = Functions /\ DOMAIN grants = Functions
    /\ calls \in 0 .. MaxAttachCalls

-----------------------------------------------------------------------------
(* Steps *)

\* An extension is what it was built from.
LEMMA BuiltFrom ==
  ASSUME Types, NEW e \in Built
  PROVE  e \in Extensions /\ extension[e] \in Props \cup Attributes
BY DEF Types, Built

\* Nothing else is built from None.
LEMMA NoneIsNoProps == None \notin Props \cup Attributes
<1>1. "logsBucket" \notin DOMAIN None
  BY DEF None
<1> QED BY <1>1, PropsAssumption

\* The layer of an extension is not one that functions have from elsewhere.
LEMMA LayerIn ==
  ASSUME Types, NEW e \in Built
  PROVE  LayerOf(e) \in Layers
<1>1. e \in Extensions /\ extension[e] \in Props \cup Attributes
  BY BuiltFrom
<1> QED BY <1>1 DEF LayerOf, Layers

\* One more extension, and the others are what they were.
LEMMA BuiltGrows ==
  ASSUME Types, NEW e \in Extensions, BuildExtension(e)
  PROVE  /\ extension' \in [Extensions -> Props \cup Attributes \cup {None}]
         /\ e \notin Built
         /\ Built' = Built \cup {e}
         /\ \A d \in Built : extension'[d] = extension[d]
         /\ UNCHANGED fns
<1>1. PICK props \in Props \cup Attributes : extension' = [extension EXCEPT ![e] = props]
  BY DEF BuildExtension
<1>2. extension \in [Extensions -> Props \cup Attributes \cup {None}] /\ extension[e] = None
  BY DEF Types, BuildExtension
<1>3. extension' \in [Extensions -> Props \cup Attributes \cup {None}]
  BY <1>1, <1>2
<1>4. \A d \in Extensions : extension'[d] = IF d = e THEN props ELSE extension[d]
  BY <1>1, <1>2
<1>5. e \notin Built
  BY <1>2 DEF Built
<1>6. Built' = Built \cup {e}
  BY <1>2, <1>4, NoneIsNoProps DEF Built
<1>7. \A d \in Built : extension'[d] = extension[d]
  BY <1>4, <1>5 DEF Built
<1> QED BY <1>3, <1>5, <1>6, <1>7 DEF BuildExtension

\* All that was attached, and whatever it was built from, stays.
Rests ==
    /\ UNCHANGED <<extension, attached, layers, env, grants, effective>>
    /\ calls' \in 0 .. MaxAttachCalls

\* There are four kinds of steps: an extension is built, is attached, is not
\* attached though its set says so, or all stays.
LEMMA Kinds ==
  ASSUME Types, [Next]_vars
  PROVE  \/ \E e \in Extensions : BuildExtension(e)
         \/ \E e \in Extensions, f \in Functions : Attach(e, f)
         \/ \E e \in Extensions, f \in Functions : AttachThrows(e, f)
         \/ Rests
<1>1. ASSUME NEW e \in Extensions, BuildAnalytics(e) \/ BuildCompaction(e)
      PROVE  Rests
  BY <1>1 DEF BuildAnalytics, BuildCompaction, fns, Types, Rests
<1>2. ASSUME NEW e \in Extensions, NEW f \in Functions, AttachRefused(e, f)
      PROVE  Rests
  <2>1. calls \in 0 .. MaxAttachCalls /\ calls < MaxAttachCalls /\ calls' = calls + 1
    BY <1>2 DEF AttachRefused, Call, Types
  <2>2. calls' \in 0 .. MaxAttachCalls
    BY <2>1, LimitsAssumption
  <2> QED BY <1>2, <2>2 DEF AttachRefused, Call, Rests
<1>3. CASE GrantQuery
  BY <1>3 DEF GrantQuery, fns, Types, Rests
<1>4. CASE UNCHANGED vars
  BY <1>4 DEF vars, fns, Types, Rests
<1> QED BY <1>1, <1>2, <1>3, <1>4 DEF Next

\* What an attach that goes through does, by options.
Wired(e, f, o) ==
    /\ o \in Options
    /\ attached' = [attached EXCEPT ![e] = @ \cup {f}]
    /\ layers' = [layers EXCEPT ![f] = Append(layers[f], LayerOf(e))]
    /\ env' = [env EXCEPT ![f] = Overlay(env[f], AttachedEnv(extension[e], o))]
    /\ grants' = [grants EXCEPT ![f] =
          grants[f] \cup IF Option(o, "grantWrite", TRUE) THEN {Place(extension[e])} ELSE {}]
    /\ effective' = [effective EXCEPT ![f] = Append(effective[f], <<e, o>>)]

\* An attach that goes through does this by some options.
LEMMA AttachWires ==
  ASSUME NEW e, NEW f, Attach(e, f)
  PROVE  /\ \E o : Wired(e, f, o)
         /\ UNCHANGED extension
         /\ e \in Built /\ Fits(e, f) /\ f \notin attached[e] /\ Len(layers[f]) < MaxLayers
         /\ calls < MaxAttachCalls /\ calls' = calls + 1
BY DEF Attach, Wire, Wired, Call, New, HasRoom, Added

\* A sequence with one more.
LEMMA OneMore ==
  ASSUME NEW S, NEW s \in Seq(S), NEW x
  PROVE  /\ Len(s) \in Nat
         /\ DOMAIN s = 1 .. Len(s)
         /\ Len(Append(s, x)) = Len(s) + 1
         /\ DOMAIN Append(s, x) = 1 .. Len(s) + 1
         /\ \A i \in 1 .. Len(s) : Append(s, x)[i] = s[i]
         /\ Append(s, x)[Len(s) + 1] = x
OBVIOUS

-----------------------------------------------------------------------------
(* Types *)

\* At the start, of what the functions have from elsewhere.
LEMMA InitTypes == Init => Types
<1> SUFFICES ASSUME Init PROVE Types
  OBVIOUS
<1>1. \A f \in Functions : layers[f] \in OwnLayers /\ layers[f] \in Seq(Range(layers[f]))
                             /\ Len(layers[f]) <= MaxLayers
  BY OwnAssumption DEF Init
<1>2. ASSUME NEW f \in Functions PROVE layers[f] \in Seq(AnyLayer)
  <2>1. Range(layers[f]) \subseteq AnyLayer
    BY <1>1 DEF AnyLayer
  <2> QED BY <1>1, <2>1, WiderSeq
<1>3. layers \in [Functions -> Seq(AnyLayer)]
  BY <1>2 DEF Init
<1>4. effective \in [Functions -> Seq(Extensions \X Options)]
  BY DEF Init
<1>5. \A f \in Functions : DOMAIN effective[f] = {}
  BY DEF Init
<1>6. calls \in 0 .. MaxAttachCalls
  BY LimitsAssumption DEF Init
<1>7. extension \in [Extensions -> Props \cup Attributes \cup {None}]
  BY DEF Init
<1>8. DOMAIN env = Functions /\ DOMAIN grants = Functions
  BY DEF Init
<1> QED BY <1>1, <1>3, <1>4, <1>5, <1>6, <1>7, <1>8 DEF Init, Types

\* Every step keeps the types.
LEMMA TypesNext == Types /\ [Next]_vars => Types'
<1> SUFFICES ASSUME Types, [Next]_vars PROVE Types'
  OBVIOUS
<1>1. ASSUME NEW e \in Extensions, BuildExtension(e) PROVE Types'
  <2>1. /\ extension' \in [Extensions -> Props \cup Attributes \cup {None}]
        /\ Built' = Built \cup {e}
        /\ \A d \in Built : extension'[d] = extension[d]
        /\ UNCHANGED <<attached, layers, env, grants, effective, calls>>
    BY <1>1, BuiltGrows DEF fns
  <2>2. \A d \in Extensions : \A f \in attached'[d] : d \in Built' /\ Fits(d, f)'
    BY <2>1 DEF Types, Fits
  <2> QED BY <2>1, <2>2 DEF Types
<1>2. ASSUME NEW e \in Extensions, NEW f \in Functions, Attach(e, f) PROVE Types'
  <2>1. PICK o : Wired(e, f, o)
    BY <1>2, AttachWires
  <2>2. /\ UNCHANGED extension /\ Built' = Built
        /\ e \in Built /\ Fits(e, f) /\ f \notin attached[e] /\ Len(layers[f]) < MaxLayers
        /\ calls < MaxAttachCalls /\ calls' = calls + 1
    BY <1>2, AttachWires DEF Built
  <2>3. /\ attached' \in [Extensions -> SUBSET Functions]
        /\ \A d \in Extensions : \A g \in attached'[d] : d \in Built' /\ Fits(d, g)'
    BY <2>1, <2>2 DEF Types, Wired, Fits
  <2>4. layers[f] \in Seq(AnyLayer) /\ LayerOf(e) \in AnyLayer
    BY <2>2, LayerIn DEF Types, AnyLayer
  <2>5. Append(layers[f], LayerOf(e)) \in Seq(AnyLayer)
    BY <2>4, Appended
  <2>6. Len(Append(layers[f], LayerOf(e))) <= MaxLayers
    BY <2>2, <2>4, OneMore, LimitsAssumption
  <2>7. layers' \in [Functions -> Seq(AnyLayer)] /\ \A g \in Functions : Len(layers'[g]) <= MaxLayers
    BY <2>1, <2>5, <2>6 DEF Types, Wired
  <2>8. effective[f] \in Seq(Extensions \X Options) /\ <<e, o>> \in Extensions \X Options
    BY <2>1, <2>2 DEF Types, Wired
  <2>9. Append(effective[f], <<e, o>>) \in Seq(Extensions \X Options)
    BY <2>8, Appended
  <2>10. effective' \in [Functions -> Seq(Extensions \X Options)]
    BY <2>1, <2>9 DEF Types, Wired
  <2>11. ASSUME NEW g \in Functions, NEW i \in DOMAIN effective'[g]
         PROVE  effective'[g][i][1] \in Built'
    <3>1. CASE g = f
      <4>1. effective'[g] = Append(effective[f], <<e, o>>)
        BY <2>1, <3>1 DEF Types, Wired
      <4>2. i \in 1 .. Len(effective[f]) + 1 /\ Len(effective[f]) \in Nat
        BY <2>8, <4>1, OneMore
      <4>3. CASE i \in 1 .. Len(effective[f])
        BY <2>2, <2>8, <4>1, <4>3, OneMore DEF Types
      <4>4. CASE i = Len(effective[f]) + 1
        BY <2>2, <2>8, <4>1, <4>4, OneMore
      <4> QED BY <4>2, <4>3, <4>4
    <3>2. CASE g # f
      BY <2>1, <2>2, <3>2 DEF Types, Wired
    <3> QED BY <3>1, <3>2
  <2>12. calls' \in 0 .. MaxAttachCalls
    BY <2>2, LimitsAssumption DEF Types
  <2>13. DOMAIN env' = Functions /\ DOMAIN grants' = Functions
    BY <2>1 DEF Types, Wired
  <2> QED BY <2>2, <2>3, <2>7, <2>10, <2>11, <2>12, <2>13 DEF Types
<1>3. ASSUME NEW e \in Extensions, NEW f \in Functions, AttachThrows(e, f) PROVE Types'
  <2>1. /\ UNCHANGED <<extension, layers, env, grants, effective>> /\ Built' = Built
        /\ attached' = [attached EXCEPT ![e] = @ \cup {f}]
        /\ e \in Built /\ Fits(e, f)
        /\ calls < MaxAttachCalls /\ calls' = calls + 1
    BY <1>3 DEF AttachThrows, Call, New, Built
  <2>2. /\ attached' \in [Extensions -> SUBSET Functions]
        /\ \A d \in Extensions : \A g \in attached'[d] : d \in Built' /\ Fits(d, g)'
    BY <2>1 DEF Types, Fits
  <2>3. calls' \in 0 .. MaxAttachCalls
    BY <2>1, LimitsAssumption DEF Types
  <2> QED BY <2>1, <2>2, <2>3 DEF Types
<1>4. CASE Rests
  BY <1>4 DEF Rests, Types, Built, Fits
<1> QED BY <1>1, <1>2, <1>3, <1>4, Kinds

-----------------------------------------------------------------------------
(* The environment *)

\* An overlay has the variables of both.
LEMMA OverlayDomain ==
  \A old, new : DOMAIN Overlay(old, new) = DOMAIN old \cup DOMAIN new
BY DEF Overlay

\* The override of the level adds no variable.
LEMMA AttachedDomain ==
  \A props, o : DOMAIN AttachedEnv(props, o) = Always \cup (Tuning \cap DOMAIN props)
<1> SUFFICES ASSUME NEW props, NEW o
             PROVE  DOMAIN AttachedEnv(props, o) = Always \cup (Tuning \cap DOMAIN props)
  OBVIOUS
<1>1. PICK old : old = BuildEnvironment(props)
  OBVIOUS
<1>2. PICK new : new = [v \in DOMAIN o \cap {"logLevel"} |-> o[v]]
  OBVIOUS
<1>3. AttachedEnv(props, o) = Overlay(old, new)
  BY <1>1, <1>2 DEF AttachedEnv
<1>4. DOMAIN old = Always \cup (Tuning \cap DOMAIN props)
  BY <1>1 DEF BuildEnvironment
<1>5. DOMAIN new \subseteq Always
  BY <1>2 DEF Always
<1>6. DOMAIN Overlay(old, new) = DOMAIN old \cup DOMAIN new
  BY OverlayDomain
<1> QED BY <1>3, <1>4, <1>5, <1>6

\* What attach sets, by variable.
LEMMA AttachedIs ==
  ASSUME NEW props, NEW o
  PROVE  /\ AttachedEnv(props, o)["logsBucket"] = props["logsBucket"]
         /\ AttachedEnv(props, o)["keyPrefix"] = KeyPrefix(props)
         /\ AttachedEnv(props, o)["logLevel"] = Option(o, "logLevel", Option(props, "logLevel", "INFO"))
         /\ AttachedEnv(props, o)["compression"] = Option(props, "compression", "snappy")
         /\ "flushInterval" \in DOMAIN props =>
               AttachedEnv(props, o)["flushInterval"] = props["flushInterval"] \div 1000
         /\ \A v \in (Tuning \cap DOMAIN props) \ {"flushInterval"} :
               AttachedEnv(props, o)[v] = props[v]
<1>1. PICK old : old = BuildEnvironment(props)
  OBVIOUS
<1>2. PICK new : new = [v \in DOMAIN o \cap {"logLevel"} |-> o[v]]
  OBVIOUS
<1>3. PICK all : all = AttachedEnv(props, o)
  OBVIOUS
<1>4. DOMAIN old = Always \cup (Tuning \cap DOMAIN props)
  BY <1>1 DEF BuildEnvironment
<1>5. DOMAIN new = DOMAIN o \cap {"logLevel"}
  BY <1>2
<1>6. \A v \in DOMAIN old : all[v] = IF v \in DOMAIN new THEN new[v] ELSE old[v]
  <2>1. all = Overlay(old, new)
    BY <1>1, <1>2, <1>3 DEF AttachedEnv
  <2> QED BY <2>1 DEF Overlay
<1>7. \A v \in DOMAIN old : v # "logLevel" => all[v] = old[v]
  BY <1>5, <1>6
<1>8. all["logLevel"] = Option(o, "logLevel", old["logLevel"])
  <2>1. "logLevel" \in DOMAIN old
    BY <1>4 DEF Always
  <2>2. CASE "logLevel" \in DOMAIN o
    BY <1>2, <1>5, <1>6, <2>1, <2>2 DEF Option
  <2>3. CASE "logLevel" \notin DOMAIN o
    BY <1>5, <1>6, <2>1, <2>3 DEF Option
  <2> QED BY <2>2, <2>3
<1>9. /\ old["logsBucket"] = props["logsBucket"]
      /\ old["keyPrefix"] = KeyPrefix(props)
      /\ old["logLevel"] = Option(props, "logLevel", "INFO")
      /\ old["compression"] = Option(props, "compression", "snappy")
  BY <1>1 DEF BuildEnvironment, Always
<1>10. "flushInterval" \in DOMAIN props =>
          old["flushInterval"] = props["flushInterval"] \div 1000
  BY <1>1 DEF BuildEnvironment, Tuning
<1>11. ASSUME NEW v \in (Tuning \cap DOMAIN props) \ {"flushInterval"}
       PROVE  old[v] = props[v]
  <2>1. v \notin {"keyPrefix", "logLevel", "compression", "flushInterval"}
    BY DEF Tuning
  <2> QED BY <1>1, <2>1 DEF BuildEnvironment
<1>12. /\ "logsBucket" \in DOMAIN old /\ "keyPrefix" \in DOMAIN old /\ "compression" \in DOMAIN old
       /\ "flushInterval" \in DOMAIN props => "flushInterval" \in DOMAIN old
       /\ \A v \in Tuning \cap DOMAIN props : v \in DOMAIN old /\ v # "logLevel"
  BY <1>4 DEF Always, Tuning
<1>13. /\ all["logsBucket"] = props["logsBucket"]
       /\ all["keyPrefix"] = KeyPrefix(props)
       /\ all["compression"] = Option(props, "compression", "snappy")
  BY <1>7, <1>9, <1>12
<1>14. all["logLevel"] = Option(o, "logLevel", Option(props, "logLevel", "INFO"))
  BY <1>8, <1>9
<1>15. "flushInterval" \in DOMAIN props =>
          all["flushInterval"] = props["flushInterval"] \div 1000
  BY <1>7, <1>10, <1>12
<1>16. \A v \in (Tuning \cap DOMAIN props) \ {"flushInterval"} : all[v] = props[v]
  BY <1>7, <1>11, <1>12
<1> QED BY <1>3, <1>13, <1>14, <1>15, <1>16

\* attach sets what the extension was given, and the four.
LEMMA AttachedSets ==
  ASSUME NEW props, NEW o, NEW v \in Always \cup Tuning
  PROVE  v \in DOMAIN AttachedEnv(props, o) <=> Sets(props, v)
<1>1. DOMAIN AttachedEnv(props, o) = Always \cup (Tuning \cap DOMAIN props)
  BY AttachedDomain
<1> QED BY <1>1 DEF Sets

\* The last attachment in s that sets v, the extensions being built from ext.
LastSets(s, ext, v, i) ==
    /\ i \in DOMAIN s
    /\ Sets(ext[s[i][1]], v)
    /\ \A j \in DOMAIN s : Sets(ext[s[j][1]], v) => j <= i

\* The variable v of own is what the last attachment in s that sets it gave it.
LastGives(s, ext, own, v) ==
    /\ v \in DOMAIN own <=> \E i \in DOMAIN s : Sets(ext[s[i][1]], v)
    /\ \A i \in DOMAIN s : LastSets(s, ext, v, i) =>
          own[v] = AttachedEnv(ext[s[i][1]], s[i][2])[v]

Variables ==
    \A f \in Functions : \A v \in Always \cup Tuning :
       LastGives(effective[f], extension, env[f], v)

\* An attachment more.
LEMMA LastGivesOn ==
  ASSUME NEW S, NEW s \in Seq(S), NEW ext, NEW own, NEW e, NEW o, NEW v \in Always \cup Tuning,
         LastGives(s, ext, own, v)
  PROVE  LastGives(Append(s, <<e, o>>), ext, Overlay(own, AttachedEnv(ext[e], o)), v)
<1>1. PICK n \in Nat : n = Len(s) /\ DOMAIN s = 1 .. n
  BY OneMore
<1>2. PICK t : t = Append(s, <<e, o>>)
  OBVIOUS
<1>3. /\ DOMAIN t = 1 .. n + 1
      /\ \A i \in 1 .. n : t[i] = s[i]
      /\ t[n + 1] = <<e, o>>
  BY <1>1, <1>2, OneMore
<1>4. PICK given : given = AttachedEnv(ext[e], o)
  OBVIOUS
<1>5. PICK all : all = Overlay(own, given)
  OBVIOUS
<1>6. /\ v \in DOMAIN all <=> v \in DOMAIN own \/ v \in DOMAIN given
      /\ v \in DOMAIN given => all[v] = given[v]
      /\ v \in DOMAIN own /\ v \notin DOMAIN given => all[v] = own[v]
  BY <1>5 DEF Overlay
<1>7. v \in DOMAIN given <=> Sets(ext[e], v)
  BY <1>4, AttachedSets
<1>8. CASE Sets(ext[e], v)
  <2>1. v \in DOMAIN all /\ all[v] = given[v]
    BY <1>6, <1>7, <1>8
  <2>2. n + 1 \in DOMAIN t /\ Sets(ext[t[n + 1][1]], v)
    BY <1>3, <1>8
  <2>3. ASSUME NEW i \in DOMAIN t, LastSets(t, ext, v, i)
        PROVE  i = n + 1
    <3>1. n + 1 <= i
      BY <2>2, <2>3 DEF LastSets
    <3> QED BY <1>3, <3>1
  <2>4. AttachedEnv(ext[t[n + 1][1]], t[n + 1][2]) = given
    BY <1>3, <1>4
  <2>5. \A i \in DOMAIN t : LastSets(t, ext, v, i) =>
           all[v] = AttachedEnv(ext[t[i][1]], t[i][2])[v]
    BY <2>1, <2>3, <2>4
  <2>6. LastGives(t, ext, all, v)
    BY <2>1, <2>2, <2>5 DEF LastGives
  <2> QED BY <1>2, <1>4, <1>5, <2>6
<1>9. CASE ~ Sets(ext[e], v)
  <2>1. /\ v \in DOMAIN all <=> v \in DOMAIN own
        /\ v \in DOMAIN own => all[v] = own[v]
    BY <1>6, <1>7, <1>9
  <2>2. ~ Sets(ext[t[n + 1][1]], v)
    BY <1>3, <1>9
  <2>3. \A i \in DOMAIN t : Sets(ext[t[i][1]], v) => i \in DOMAIN s
    BY <1>1, <1>3, <2>2
  <2>4. \A i \in DOMAIN s : i \in DOMAIN t /\ t[i] = s[i]
    BY <1>1, <1>3
  <2>5. (\E i \in DOMAIN t : Sets(ext[t[i][1]], v)) <=> \E i \in DOMAIN s : Sets(ext[s[i][1]], v)
    BY <2>3, <2>4
  <2>6. ASSUME NEW i \in DOMAIN t, LastSets(t, ext, v, i)
        PROVE  all[v] = AttachedEnv(ext[t[i][1]], t[i][2])[v]
    <3>1. i \in DOMAIN s
      BY <2>3, <2>6 DEF LastSets
    <3>2. LastSets(s, ext, v, i)
      BY <2>4, <2>6, <3>1 DEF LastSets
    <3>3. v \in DOMAIN own /\ own[v] = AttachedEnv(ext[s[i][1]], s[i][2])[v]
      BY <3>1, <3>2 DEF LastGives, LastSets
    <3> QED BY <2>1, <2>4, <3>1, <3>3
  <2>7. v \in DOMAIN all <=> \E i \in DOMAIN t : Sets(ext[t[i][1]], v)
    BY <2>1, <2>5 DEF LastGives
  <2>8. LastGives(t, ext, all, v)
    BY <2>6, <2>7 DEF LastGives
  <2> QED BY <1>2, <1>4, <1>5, <2>8
<1> QED BY <1>8, <1>9

\* Extensions more, of which none is attached.
LEMMA LastGivesBuilt ==
  ASSUME NEW s, NEW ext, NEW more, NEW own, NEW v, LastGives(s, ext, own, v),
         \A i \in DOMAIN s : more[s[i][1]] = ext[s[i][1]]
  PROVE  LastGives(s, more, own, v)
<1>1. \A i \in DOMAIN s : Sets(more[s[i][1]], v) <=> Sets(ext[s[i][1]], v)
  OBVIOUS
<1>2. \A i \in DOMAIN s : LastSets(s, more, v, i) <=> LastSets(s, ext, v, i)
  BY <1>1 DEF LastSets
<1>3. \A i \in DOMAIN s : AttachedEnv(more[s[i][1]], s[i][2]) = AttachedEnv(ext[s[i][1]], s[i][2])
  OBVIOUS
<1> QED BY <1>1, <1>2, <1>3 DEF LastGives

\* No variable of the package is there at the start.
LEMMA InitVariables == Init => Variables
<1> SUFFICES ASSUME Init, NEW f \in Functions, NEW v \in Always \cup Tuning
             PROVE  LastGives(effective[f], extension, env[f], v)
  BY DEF Variables
<1>1. env[f] \in OwnEnvs
  BY DEF Init
<1>2. v \notin DOMAIN env[f]
  BY <1>1, OwnAssumption
<1>3. DOMAIN effective[f] = {}
  BY DEF Init
<1> QED BY <1>2, <1>3 DEF LastGives

\* What has been attached is built from what it was built from.
LEMMA StillFrom ==
  ASSUME Types, NEW e \in Extensions, BuildExtension(e)
  PROVE  \A f \in Functions : \A i \in DOMAIN effective[f] :
            extension'[effective[f][i][1]] = extension[effective[f][i][1]]
BY BuiltGrows DEF Types

\* For f what was attached grows by one, for the others it does not.
LEMMA WiredPointwise ==
  ASSUME Types, NEW e, NEW f \in Functions, NEW o, Wired(e, f, o)
  PROVE  /\ env'[f] = Overlay(env[f], AttachedEnv(extension[e], o))
         /\ effective'[f] = Append(effective[f], <<e, o>>)
         /\ layers'[f] = Append(layers[f], LayerOf(e))
         /\ grants'[f] = grants[f] \cup
               IF Option(o, "grantWrite", TRUE) THEN {Place(extension[e])} ELSE {}
         /\ \A g \in Functions : g # f =>
               /\ env'[g] = env[g] /\ effective'[g] = effective[g]
               /\ layers'[g] = layers[g] /\ grants'[g] = grants[g]
         /\ effective[f] \in Seq(Extensions \X Options)
BY DEF Types, Wired

\* Every step keeps the variables in line with the attachments.
LEMMA VariablesNext == Types /\ Variables /\ [Next]_vars => Variables'
<1> SUFFICES ASSUME Types, Variables, [Next]_vars PROVE Variables'
  OBVIOUS
<1>1. ASSUME NEW e \in Extensions, BuildExtension(e) PROVE Variables'
  <2>1. UNCHANGED <<env, effective>>
    BY <1>1, BuiltGrows DEF fns
  <2>2. PICK ext, more : ext = extension /\ more = extension'
    OBVIOUS
  <2>3. ASSUME NEW f \in Functions, NEW v \in Always \cup Tuning
        PROVE  LastGives(effective'[f], extension', env'[f], v)
    <3>1. PICK s, own : s = effective[f] /\ own = env[f]
      OBVIOUS
    <3>2. LastGives(s, ext, own, v)
      BY <2>2, <3>1 DEF Variables
    <3>3. \A i \in DOMAIN s : more[s[i][1]] = ext[s[i][1]]
      BY <1>1, <2>2, <3>1, StillFrom
    <3>4. LastGives(s, more, own, v)
      BY <3>2, <3>3, LastGivesBuilt
    <3> QED BY <2>1, <2>2, <3>1, <3>4
  <2> QED BY <2>3 DEF Variables
<1>2. ASSUME NEW e \in Extensions, NEW f \in Functions, Attach(e, f) PROVE Variables'
  <2>1. PICK o : Wired(e, f, o)
    BY <1>2, AttachWires
  <2>2. UNCHANGED extension
    BY <1>2, AttachWires
  <2>3. PICK ext : ext = extension
    OBVIOUS
  <2>4. ASSUME NEW v \in Always \cup Tuning
        PROVE  LastGives(effective'[f], extension', env'[f], v)
    <3>1. PICK s, own : s = effective[f] /\ own = env[f]
      OBVIOUS
    <3>2. LastGives(s, ext, own, v) /\ s \in Seq(Extensions \X Options)
      BY <2>1, <2>3, <3>1, WiredPointwise DEF Variables
    <3>3. LastGives(Append(s, <<e, o>>), ext, Overlay(own, AttachedEnv(ext[e], o)), v)
      BY <3>2, LastGivesOn
    <3>4. /\ effective'[f] = Append(s, <<e, o>>)
          /\ env'[f] = Overlay(own, AttachedEnv(ext[e], o))
      BY <2>1, <2>3, <3>1, WiredPointwise
    <3> QED BY <2>2, <2>3, <3>3, <3>4
  <2>5. ASSUME NEW g \in Functions, g # f, NEW v \in Always \cup Tuning
        PROVE  LastGives(effective'[g], extension', env'[g], v)
    BY <2>1, <2>2, <2>5, WiredPointwise DEF Variables
  <2> QED BY <2>4, <2>5 DEF Variables
<1>3. ASSUME NEW e \in Extensions, NEW f \in Functions, AttachThrows(e, f) PROVE Variables'
  <2>1. UNCHANGED <<extension, env, effective>>
    BY <1>3 DEF AttachThrows, Call
  <2> QED BY <2>1 DEF Variables
<1>4. CASE Rests
  BY <1>4 DEF Rests, Variables
<1> QED BY <1>1, <1>2, <1>3, <1>4, Kinds

-----------------------------------------------------------------------------
(* Grants and layers *)

\* The grants in own are those that the attachments in s ask for.
Granted(s, ext, own) ==
    /\ \A p \in own : \E i \in DOMAIN s :
          Option(s[i][2], "grantWrite", TRUE) /\ p = Place(ext[s[i][1]])
    /\ \A i \in DOMAIN s : Option(s[i][2], "grantWrite", TRUE) => Place(ext[s[i][1]]) \in own

Grants == \A f \in Functions : Granted(effective[f], extension, grants[f])

LayerFor(e, props) ==
    IF "layerVersionArn" \in DOMAIN props THEN props.layerVersionArn ELSE e

Elsewhere == UNION {Range(own) : own \in OwnLayers}

\* Each attachment in s has its layer in own, and what comes from nowhere else
\* in own is the layer of one of them.
Carried(s, ext, own) ==
    /\ \A i \in DOMAIN s : \E k \in DOMAIN own : own[k] = LayerFor(s[i][1], ext[s[i][1]])
    /\ \A k \in DOMAIN own : \/ own[k] \in Elsewhere
                             \/ \E i \in DOMAIN s : own[k] = LayerFor(s[i][1], ext[s[i][1]])

Carries == \A f \in Functions : Carried(effective[f], extension, layers[f])

\* The indices of one more.
LEMMA OneMoreIndex ==
  ASSUME NEW S, NEW s \in Seq(S), NEW x, NEW t, t = Append(s, x)
  PROVE  \E n \in Nat : /\ n = Len(s) /\ DOMAIN s = 1 .. n /\ DOMAIN t = 1 .. n + 1
                        /\ \A i \in DOMAIN s : i \in DOMAIN t /\ t[i] = s[i]
                        /\ \A i \in DOMAIN t : i \in DOMAIN s \/ i = n + 1
                        /\ n + 1 \in DOMAIN t /\ n + 1 \notin DOMAIN s /\ t[n + 1] = x
<1>1. PICK n \in Nat : n = Len(s) /\ DOMAIN s = 1 .. n /\ DOMAIN t = 1 .. n + 1
  BY OneMore
<1>2. /\ \A i \in 1 .. n : t[i] = s[i]
      /\ t[n + 1] = x
  BY <1>1, OneMore
<1>3. /\ \A i \in 1 .. n : i \in 1 .. n + 1
      /\ \A i \in 1 .. n + 1 : i \in 1 .. n \/ i = n + 1
      /\ n + 1 \in 1 .. n + 1 /\ n + 1 \notin 1 .. n
  BY <1>1
<1> QED BY <1>1, <1>2, <1>3

\* An attachment more, and its grant unless declined.
LEMMA GrantedOn ==
  ASSUME NEW S, NEW s \in Seq(S), NEW ext, NEW own, NEW e, NEW o, Granted(s, ext, own)
  PROVE  Granted(Append(s, <<e, o>>), ext,
                 own \cup IF Option(o, "grantWrite", TRUE) THEN {Place(ext[e])} ELSE {})
<1>1. PICK t : t = Append(s, <<e, o>>)
  OBVIOUS
<1>2. PICK n \in Nat : /\ \A i \in DOMAIN s : i \in DOMAIN t /\ t[i] = s[i]
                       /\ \A i \in DOMAIN t : i \in DOMAIN s \/ i = n + 1
                       /\ n + 1 \in DOMAIN t /\ t[n + 1] = <<e, o>>
  BY <1>1, OneMoreIndex
<1>3. PICK place : place = Place(ext[e])
  OBVIOUS
<1>4. PICK all : all = own \cup IF Option(o, "grantWrite", TRUE) THEN {place} ELSE {}
  OBVIOUS
<1>5. /\ own \subseteq all
      /\ \A p \in all : p \in own \/ p = place
      /\ Option(o, "grantWrite", TRUE) => place \in all
  BY <1>4
<1>6. t[n + 1][1] = e /\ t[n + 1][2] = o
  BY <1>2
<1>7. ASSUME NEW p \in all
      PROVE  \E i \in DOMAIN t : Option(t[i][2], "grantWrite", TRUE) /\ p = Place(ext[t[i][1]])
  <2>1. CASE p \in own
    <3>1. PICK i \in DOMAIN s : Option(s[i][2], "grantWrite", TRUE) /\ p = Place(ext[s[i][1]])
      BY <2>1 DEF Granted
    <3> QED BY <1>2, <3>1
  <2>2. CASE p \notin own
    <3>1. p = place /\ Option(o, "grantWrite", TRUE)
      BY <1>4, <1>7, <2>2
    <3> QED BY <1>2, <1>3, <1>6, <3>1
  <2> QED BY <1>5, <2>1, <2>2
<1>8. ASSUME NEW i \in DOMAIN t, Option(t[i][2], "grantWrite", TRUE)
      PROVE  Place(ext[t[i][1]]) \in all
  <2>1. CASE i \in DOMAIN s
    BY <1>2, <1>5, <1>8, <2>1 DEF Granted
  <2>2. CASE i = n + 1
    BY <1>3, <1>5, <1>6, <1>8, <2>2
  <2> QED BY <1>2, <2>1, <2>2
<1>9. Granted(t, ext, all)
  BY <1>7, <1>8 DEF Granted
<1> QED BY <1>1, <1>3, <1>4, <1>9

\* Building an extension does not touch the grants of others.
LEMMA GrantedBuilt ==
  ASSUME NEW s, NEW ext, NEW more, NEW own, Granted(s, ext, own),
         \A i \in DOMAIN s : more[s[i][1]] = ext[s[i][1]]
  PROVE  Granted(s, more, own)
<1>1. \A i \in DOMAIN s : Place(more[s[i][1]]) = Place(ext[s[i][1]])
  OBVIOUS
<1>2. \A p \in own : \E i \in DOMAIN s :
         Option(s[i][2], "grantWrite", TRUE) /\ p = Place(more[s[i][1]])
  BY <1>1 DEF Granted
<1>3. ASSUME NEW i \in DOMAIN s, Option(s[i][2], "grantWrite", TRUE)
      PROVE  Place(more[s[i][1]]) \in own
  <2>1. Place(ext[s[i][1]]) \in own
    BY <1>3 DEF Granted
  <2> QED BY <1>1, <2>1
<1> QED BY <1>2, <1>3 DEF Granted

\* An attachment more, and its layer.
LEMMA CarriedOn ==
  ASSUME NEW S, NEW s \in Seq(S), NEW T, NEW own \in Seq(T), NEW ext, NEW e, NEW o,
         Carried(s, ext, own)
  PROVE  Carried(Append(s, <<e, o>>), ext, Append(own, LayerFor(e, ext[e])))
<1>1. PICK t : t = Append(s, <<e, o>>)
  OBVIOUS
<1>2. PICK n \in Nat : /\ \A i \in DOMAIN s : i \in DOMAIN t /\ t[i] = s[i]
                       /\ \A i \in DOMAIN t : i \in DOMAIN s \/ i = n + 1
                       /\ n + 1 \in DOMAIN t /\ t[n + 1] = <<e, o>>
  BY <1>1, OneMoreIndex
<1>3. PICK layer : layer = LayerFor(e, ext[e])
  OBVIOUS
<1>4. PICK all : all = Append(own, layer)
  OBVIOUS
<1>5. PICK m \in Nat : /\ \A k \in DOMAIN own : k \in DOMAIN all /\ all[k] = own[k]
                       /\ \A k \in DOMAIN all : k \in DOMAIN own \/ k = m + 1
                       /\ m + 1 \in DOMAIN all /\ all[m + 1] = layer
  <2>1. PICK m \in Nat : m = Len(own) /\ DOMAIN own = 1 .. m /\ DOMAIN all = 1 .. m + 1
    BY <1>4, OneMore
  <2>2. /\ \A i \in 1 .. m : all[i] = own[i]
        /\ all[m + 1] = layer
    BY <1>4, <2>1, OneMore
  <2>3. /\ \A i \in 1 .. m : i \in 1 .. m + 1
        /\ \A i \in 1 .. m + 1 : i \in 1 .. m \/ i = m + 1
        /\ m + 1 \in 1 .. m + 1
    BY <2>1
  <2> QED BY <2>1, <2>2, <2>3
<1>6. t[n + 1][1] = e
  BY <1>2
<1>7. ASSUME NEW i \in DOMAIN t
      PROVE  \E k \in DOMAIN all : all[k] = LayerFor(t[i][1], ext[t[i][1]])
  <2>1. CASE i \in DOMAIN s
    <3>1. PICK k \in DOMAIN own : own[k] = LayerFor(s[i][1], ext[s[i][1]])
      BY <2>1 DEF Carried
    <3>2. k \in DOMAIN all /\ all[k] = LayerFor(s[i][1], ext[s[i][1]])
      BY <1>5, <3>1
    <3> QED BY <1>2, <2>1, <3>2
  <2>2. CASE i = n + 1
    <3>1. all[m + 1] = LayerFor(t[i][1], ext[t[i][1]])
      BY <1>3, <1>5, <1>6, <2>2
    <3> QED BY <1>5, <3>1
  <2> QED BY <1>2, <2>1, <2>2
<1>8. ASSUME NEW k \in DOMAIN all, all[k] \notin Elsewhere
      PROVE  \E i \in DOMAIN t : all[k] = LayerFor(t[i][1], ext[t[i][1]])
  <2>1. CASE k \in DOMAIN own
    <3>1. PICK i \in DOMAIN s : own[k] = LayerFor(s[i][1], ext[s[i][1]])
      BY <1>5, <1>8, <2>1 DEF Carried
    <3>2. i \in DOMAIN t /\ t[i] = s[i]
      BY <1>2
    <3> QED BY <1>5, <2>1, <3>1, <3>2
  <2>2. CASE k = m + 1
    BY <1>2, <1>3, <1>5, <1>6, <2>2
  <2> QED BY <1>5, <2>1, <2>2
<1>9. Carried(t, ext, all)
  BY <1>7, <1>8 DEF Carried
<1> QED BY <1>1, <1>3, <1>4, <1>9

\* Building an extension does not change the layers of others.
LEMMA CarriedBuilt ==
  ASSUME NEW s, NEW ext, NEW more, NEW own, Carried(s, ext, own),
         \A i \in DOMAIN s : more[s[i][1]] = ext[s[i][1]]
  PROVE  Carried(s, more, own)
<1>1. \A i \in DOMAIN s : LayerFor(s[i][1], more[s[i][1]]) = LayerFor(s[i][1], ext[s[i][1]])
  OBVIOUS
<1> QED BY <1>1 DEF Carried

\* Nothing is granted or carried at the start.
LEMMA InitGrants == Init => Grants /\ Carries
<1> SUFFICES ASSUME Init, NEW f \in Functions
             PROVE  /\ DOMAIN effective[f] = {} /\ grants[f] = {}
                    /\ \A k \in DOMAIN layers[f] : layers[f][k] \in Elsewhere
  BY DEF Grants, Carries, Granted, Carried
<1>1. DOMAIN effective[f] = {} /\ grants[f] = {}
  BY DEF Init
<1>2. layers[f] \in OwnLayers
  BY DEF Init
<1>3. \A k \in DOMAIN layers[f] : layers[f][k] \in Elsewhere
  BY <1>2 DEF Elsewhere, Range
<1> QED BY <1>1, <1>3

\* Every step keeps grants and layers in line with the attachments.
LEMMA GrantsNext == Types /\ Grants /\ Carries /\ [Next]_vars => Grants' /\ Carries'
<1> SUFFICES ASSUME Types, Grants, Carries, [Next]_vars PROVE Grants' /\ Carries'
  OBVIOUS
<1> USE DEF Grants, Carries
<1>1. ASSUME NEW e \in Extensions, BuildExtension(e) PROVE Grants' /\ Carries'
  <2>1. UNCHANGED <<grants, layers, effective>>
    BY <1>1, BuiltGrows DEF fns
  <2>2. PICK ext, more : ext = extension /\ more = extension'
    OBVIOUS
  <2>3. ASSUME NEW f \in Functions
        PROVE  /\ Granted(effective'[f], extension', grants'[f])
               /\ Carried(effective'[f], extension', layers'[f])
    <3>1. PICK s, g, l : s = effective[f] /\ g = grants[f] /\ l = layers[f]
      OBVIOUS
    <3>2. Granted(s, ext, g) /\ Carried(s, ext, l)
      BY <2>2, <3>1
    <3>3. \A i \in DOMAIN s : more[s[i][1]] = ext[s[i][1]]
      BY <1>1, <2>2, <3>1, StillFrom
    <3>4. Granted(s, more, g)
      BY <3>2, <3>3, GrantedBuilt
    <3>5. Carried(s, more, l)
      BY <3>2, <3>3, CarriedBuilt
    <3> QED BY <2>1, <2>2, <3>1, <3>4, <3>5
  <2> QED BY <2>3
<1>2. ASSUME NEW e \in Extensions, NEW f \in Functions, Attach(e, f) PROVE Grants' /\ Carries'
  <2>1. PICK o : Wired(e, f, o)
    BY <1>2, AttachWires
  <2>2. UNCHANGED extension
    BY <1>2, AttachWires
  <2>3. PICK ext : ext = extension
    OBVIOUS
  <2>4. Granted(effective'[f], extension', grants'[f])
    <3>1. PICK s, g : s = effective[f] /\ g = grants[f]
      OBVIOUS
    <3>2. Granted(s, ext, g) /\ s \in Seq(Extensions \X Options)
      BY <2>1, <2>3, <3>1, WiredPointwise
    <3>3. Granted(Append(s, <<e, o>>), ext,
                  g \cup IF Option(o, "grantWrite", TRUE) THEN {Place(ext[e])} ELSE {})
      BY <3>2, GrantedOn
    <3> QED BY <2>1, <2>2, <2>3, <3>1, <3>3, WiredPointwise
  <2>5. Carried(effective'[f], extension', layers'[f])
    <3>1. PICK s, l : s = effective[f] /\ l = layers[f]
      OBVIOUS
    <3>2. Carried(s, ext, l) /\ s \in Seq(Extensions \X Options) /\ l \in Seq(AnyLayer)
      BY <2>1, <2>3, <3>1, WiredPointwise DEF Types
    <3>3. Carried(Append(s, <<e, o>>), ext, Append(l, LayerFor(e, ext[e])))
      BY <3>2, CarriedOn
    <3>4. LayerOf(e) = LayerFor(e, ext[e])
      BY <2>3 DEF LayerOf, LayerFor
    <3>5. layers'[f] = Append(l, LayerFor(e, ext[e])) /\ effective'[f] = Append(s, <<e, o>>)
      BY <2>1, <3>1, <3>4, WiredPointwise
    <3> QED BY <2>2, <2>3, <3>3, <3>5
  <2>6. ASSUME NEW g \in Functions, g # f
        PROVE  /\ Granted(effective'[g], extension', grants'[g])
               /\ Carried(effective'[g], extension', layers'[g])
    BY <2>1, <2>2, <2>6, WiredPointwise
  <2> QED BY <2>4, <2>5, <2>6
<1>3. ASSUME NEW e \in Extensions, NEW f \in Functions, AttachThrows(e, f) PROVE Grants' /\ Carries'
  <2>1. UNCHANGED <<extension, layers, grants, effective>>
    BY <1>3 DEF AttachThrows, Call
  <2> QED BY <2>1
<1>4. CASE Rests
  BY <1>4 DEF Rests
<1> QED BY <1>1, <1>2, <1>3, <1>4, Kinds

-----------------------------------------------------------------------------
(* How often a function carries a layer *)

Occurs(own, l) == {k \in DOMAIN own : own[k] = l}
Holders(f, l) == {d \in Built : f \in attached[d] /\ LayerOf(d) = l}

Counted ==
    \A f \in Functions : \A l \in Layers :
       Cardinality(Occurs(layers[f], l)) <= Cardinality(Holders(f, l))

\* Both are counts of finite sets.
LEMMA Counts ==
  ASSUME Types, NEW f \in Functions, NEW l
  PROVE  /\ IsFiniteSet(Holders(f, l)) /\ Cardinality(Holders(f, l)) \in Nat
         /\ IsFiniteSet(Occurs(layers[f], l)) /\ Cardinality(Occurs(layers[f], l)) \in Nat
<1>1. Holders(f, l) \subseteq Extensions
  BY DEF Holders, Built
<1>2. IsFiniteSet(Holders(f, l))
  BY <1>1, LimitsAssumption, FS_Subset
<1>3. PICK n \in Nat : DOMAIN layers[f] = 1 .. n
  BY OneMore DEF Types
<1>4. Occurs(layers[f], l) \subseteq 1 .. n
  BY <1>3 DEF Occurs
<1>5. IsFiniteSet(1 .. n)
  BY FS_Interval
<1>6. IsFiniteSet(Occurs(layers[f], l))
  BY <1>4, <1>5, FS_Subset
<1> QED BY <1>2, <1>6, FS_CardinalityType

\* Where a layer is after one more is added.
LEMMA OccursOn ==
  ASSUME NEW S, NEW s \in Seq(S), NEW x, NEW l
  PROVE  Occurs(Append(s, x), l) = IF x = l THEN Occurs(s, l) \cup {Len(s) + 1} ELSE Occurs(s, l)
<1>1. PICK t : t = Append(s, x)
  OBVIOUS
<1>2. PICK n \in Nat : /\ n = Len(s)
                       /\ \A i \in DOMAIN s : i \in DOMAIN t /\ t[i] = s[i]
                       /\ \A i \in DOMAIN t : i \in DOMAIN s \/ i = n + 1
                       /\ n + 1 \in DOMAIN t /\ t[n + 1] = x
  BY <1>1, OneMoreIndex
<1>3. Occurs(t, l) = IF x = l THEN Occurs(s, l) \cup {n + 1} ELSE Occurs(s, l)
  BY <1>2 DEF Occurs
<1> QED BY <1>1, <1>2, <1>3

\* A layer that is added is there once more.
LEMMA OccursMore ==
  ASSUME NEW S, NEW s \in Seq(S), NEW l, IsFiniteSet(Occurs(s, l))
  PROVE  Cardinality(Occurs(Append(s, l), l)) = Cardinality(Occurs(s, l)) + 1
<1>1. Len(s) + 1 \notin Occurs(s, l)
  <2>1. Len(s) \in Nat /\ DOMAIN s = 1 .. Len(s)
    BY OneMore
  <2> QED BY <2>1 DEF Occurs
<1>2. Occurs(Append(s, l), l) = Occurs(s, l) \cup {Len(s) + 1}
  BY OccursOn
<1> QED BY <1>1, <1>2, FS_AddElement

\* The layers from elsewhere are not of the package.
LEMMA InitCounted == Init => Counted
<1> SUFFICES ASSUME Init, NEW f \in Functions, NEW l \in Layers
             PROVE  Cardinality(Occurs(layers[f], l)) <= Cardinality(Holders(f, l))
  BY DEF Counted
<1>1. layers[f] \in OwnLayers
  BY DEF Init
<1>2. l \notin Range(layers[f])
  BY <1>1, OwnAssumption DEF Layers
<1>3. Occurs(layers[f], l) = {}
  BY <1>2 DEF Occurs, Range
<1>4. Holders(f, l) = {}
  BY DEF Init, Holders, Built
<1> QED BY <1>3, <1>4, FS_EmptySet

\* Each layer that is added has a holder that is new.
LEMMA CountedNext == Types /\ Counted /\ [Next]_vars => Counted'
<1> SUFFICES ASSUME Types, Counted, [Next]_vars PROVE Counted'
  OBVIOUS
<1>0. Types'
  BY TypesNext
<1>1. ASSUME NEW e \in Extensions, BuildExtension(e) PROVE Counted'
  <2>1. /\ UNCHANGED <<attached, layers>>
        /\ e \notin Built /\ Built' = Built \cup {e}
        /\ \A d \in Built : extension'[d] = extension[d]
    BY <1>1, BuiltGrows DEF fns
  <2>2. attached[e] = {}
    BY <2>1 DEF Types
  <2>3. \A d \in Built : LayerOf(d)' = LayerOf(d)
    BY <2>1 DEF LayerOf
  <2>4. \A f, l : Holders(f, l)' = Holders(f, l)
    BY <2>1, <2>2, <2>3 DEF Holders
  <2> QED BY <2>1, <2>4 DEF Counted
<1>2. ASSUME NEW e \in Extensions, NEW f \in Functions, Attach(e, f) PROVE Counted'
  <2>1. PICK o : Wired(e, f, o)
    BY <1>2, AttachWires
  <2>2. UNCHANGED extension /\ Built' = Built /\ e \in Built /\ f \notin attached[e]
    BY <1>2, AttachWires DEF Built
  <2>3. \A d \in Extensions : attached'[d] = IF d = e THEN attached[d] \cup {f} ELSE attached[d]
    BY <2>1 DEF Types, Wired
  <2>4. \A d : LayerOf(d)' = LayerOf(d)
    BY <2>2 DEF LayerOf
  <2>5. ASSUME NEW l \in Layers
        PROVE  Cardinality(Occurs(layers'[f], l)) <= Cardinality(Holders(f, l)')
    <3>1. PICK own : own = layers[f]
      OBVIOUS
    <3>2. PICK x : x = LayerOf(e)
      OBVIOUS
    <3>3. layers'[f] = Append(own, x) /\ own \in Seq(AnyLayer)
      BY <2>1, <3>1, <3>2, WiredPointwise DEF Types
    <3>4. PICK old, new : old = Holders(f, l) /\ new = Holders(f, l)'
      OBVIOUS
    <3>5. /\ IsFiniteSet(old) /\ Cardinality(old) \in Nat
          /\ IsFiniteSet(Occurs(own, l)) /\ Cardinality(Occurs(own, l)) \in Nat
          /\ Cardinality(Occurs(own, l)) <= Cardinality(old)
      BY <3>1, <3>4, Counts DEF Counted
    <3>6. CASE x = l
      <4>1. new = old \cup {e} /\ e \notin old
        BY <2>2, <2>3, <2>4, <3>2, <3>4, <3>6 DEF Holders, Built
      <4>2. Cardinality(new) = Cardinality(old) + 1
        BY <3>5, <4>1, FS_AddElement
      <4>3. Cardinality(Occurs(layers'[f], l)) = Cardinality(Occurs(own, l)) + 1
        BY <3>3, <3>5, <3>6, OccursMore
      <4> QED BY <3>4, <3>5, <4>2, <4>3
    <3>7. CASE x # l
      <4>1. new = old
        BY <2>2, <2>3, <2>4, <3>2, <3>4, <3>7 DEF Holders, Built
      <4>2. Occurs(layers'[f], l) = Occurs(own, l)
        BY <3>3, <3>7, OccursOn
      <4> QED BY <3>4, <3>5, <4>1, <4>2
    <3> QED BY <3>6, <3>7
  <2>6. ASSUME NEW g \in Functions, g # f, NEW l \in Layers
        PROVE  Cardinality(Occurs(layers'[g], l)) <= Cardinality(Holders(g, l)')
    <3>1. layers'[g] = layers[g]
      BY <2>1, <2>6, WiredPointwise
    <3>2. Holders(g, l)' = Holders(g, l)
      BY <2>2, <2>3, <2>4, <2>6 DEF Holders, Built
    <3> QED BY <3>1, <3>2 DEF Counted
  <2>7. ASSUME NEW g \in Functions, NEW l \in Layers
        PROVE  Cardinality(Occurs(layers'[g], l)) <= Cardinality(Holders(g, l)')
    BY <2>5, <2>6
  <2> QED BY <2>7 DEF Counted, Occurs
<1>3. ASSUME NEW e \in Extensions, NEW f \in Functions, AttachThrows(e, f) PROVE Counted'
  <2>1. /\ UNCHANGED <<extension, layers>> /\ Built' = Built
        /\ attached' = [attached EXCEPT ![e] = @ \cup {f}]
    BY <1>3 DEF AttachThrows, Call, Built
  <2>2. \A d \in Built : attached[d] \subseteq attached'[d] /\ LayerOf(d)' = LayerOf(d)
    BY <2>1 DEF Types, LayerOf, Built
  <2>3. ASSUME NEW g \in Functions, NEW l \in Layers
        PROVE  Cardinality(Occurs(layers[g], l)) <= Cardinality(Holders(g, l)')
    <3>1. PICK old, new : old = Holders(g, l) /\ new = Holders(g, l)'
      OBVIOUS
    <3>2. old \subseteq new
      BY <2>1, <2>2, <3>1 DEF Holders
    <3>3. IsFiniteSet(new)
      <4>1. new \subseteq Extensions
        BY <3>1 DEF Holders, Built
      <4> QED BY <4>1, LimitsAssumption, FS_Subset
    <3>4. Cardinality(old) <= Cardinality(new) /\ Cardinality(old) \in Nat /\ Cardinality(new) \in Nat
      BY <3>2, <3>3, FS_Subset, FS_CardinalityType
    <3>5. Cardinality(Occurs(layers[g], l)) <= Cardinality(old) /\ Cardinality(Occurs(layers[g], l)) \in Nat
      BY <3>1, Counts DEF Counted
    <3> QED BY <3>1, <3>4, <3>5
  <2> QED BY <2>1, <2>3 DEF Counted
<1>4. CASE Rests
  BY <1>4 DEF Rests, Counted, Holders, Built, LayerOf
<1> QED BY <1>1, <1>2, <1>3, <1>4, Kinds

-----------------------------------------------------------------------------
(* The table and the compactor *)

\* Place as the extension e has it, if its prefix survives a second
\* normalisation.
PlaceOf(e, place) == Stable(extension[e]) => place = Place(extension[e])

SharePlaces ==
    /\ analytics # None =>
          analytics.of \in Built /\ PlaceOf(analytics.of, analytics.location)
    /\ \A r \in readers : analytics # None /\ r = analytics.location
    /\ compaction # None =>
          /\ compaction.of \in Built
          /\ PlaceOf(compaction.of, compaction.grant)
          /\ PlaceOf(compaction.of, <<compaction.env.logsBucket, compaction.env.keyPrefix>>)

\* By either way the props lead to the extension's place.
LEMMA SharedPlace ==
  ASSUME Types, NEW e \in Built, NEW props \in SharedProps(e), Stable(extension[e])
  PROVE  /\ props.logsBucket = extension[e].logsBucket
         /\ KeyPrefix(props) = KeyPrefix(extension[e])
<1>1. PICK ext : ext = extension[e]
  OBVIOUS
<1>2. "logsBucket" \in DOMAIN ext
  BY <1>1, BuiltFrom, PropsAssumption
<1>3. CASE props = [logsBucket |-> ext.logsBucket, keyPrefix |-> KeyPrefix(ext)]
  <2>1. Option(props, "keyPrefix", DEFAULT_KEY_PREFIX) = KeyPrefix(ext)
    BY <1>3 DEF Option
  <2>2. KeyPrefix(props) = NormalizePrefix(KeyPrefix(ext))
    BY <2>1 DEF KeyPrefix
  <2>3. NormalizePrefix(KeyPrefix(ext)) = KeyPrefix(ext)
    BY <1>1 DEF Stable
  <2> QED BY <1>1, <1>3, <2>2, <2>3
<1>4. CASE props = [v \in {"logsBucket", "keyPrefix"} \cap DOMAIN ext |-> ext[v]]
  <2>1. props.logsBucket = ext.logsBucket
    BY <1>2, <1>4
  <2>2. Option(props, "keyPrefix", DEFAULT_KEY_PREFIX) = Option(ext, "keyPrefix", DEFAULT_KEY_PREFIX)
    BY <1>4 DEF Option
  <2>3. KeyPrefix(props) = KeyPrefix(ext)
    BY <2>2 DEF KeyPrefix
  <2> QED BY <1>1, <2>1, <2>3
<1> QED BY <1>1, <1>3, <1>4 DEF SharedProps

\* Neither exists at the start.
LEMMA SharePlacesInit == Init => SharePlaces
BY DEF Init, SharePlaces

\* Every step keeps them at the place of their extension.
LEMMA SharePlacesNext == Types /\ SharePlaces /\ [Next]_vars => SharePlaces'
<1> SUFFICES ASSUME Types, SharePlaces, [Next]_vars PROVE SharePlaces'
  OBVIOUS
<1>1. ASSUME NEW e \in Extensions, BuildExtension(e) PROVE SharePlaces'
  <2>1. /\ UNCHANGED <<analytics, readers, compaction>>
        /\ Built' = Built \cup {e}
        /\ \A d \in Built : extension'[d] = extension[d]
    BY <1>1, BuiltGrows DEF BuildExtension
  <2>2. \A d \in Built : \A p : PlaceOf(d, p) => PlaceOf(d, p)'
    BY <2>1 DEF PlaceOf
  <2>3. analytics # None => PlaceOf(analytics.of, analytics.location)'
    BY <2>1, <2>2 DEF SharePlaces
  <2>4. compaction # None =>
          /\ PlaceOf(compaction.of, compaction.grant)'
          /\ PlaceOf(compaction.of, <<compaction.env.logsBucket, compaction.env.keyPrefix>>)'
    BY <2>1, <2>2 DEF SharePlaces
  <2> QED BY <2>1, <2>3, <2>4 DEF SharePlaces
<1>2. ASSUME NEW e \in Extensions, BuildAnalytics(e) PROVE SharePlaces'
  <2>1. /\ UNCHANGED <<extension, readers, compaction>>
        /\ e \in Built /\ analytics = None /\ Built' = Built
    BY <1>2 DEF BuildAnalytics, Built
  <2>2. PICK props \in SharedProps(e) : analytics' = [of |-> e, location |-> Place(props)]
    BY <1>2 DEF BuildAnalytics
  <2>3. Stable(extension[e]) => Place(props) = Place(extension[e])
    BY <2>1, SharedPlace DEF Place
  <2>4. analytics'.of = e /\ analytics'.location = Place(props)
    BY <2>2
  <2>5. readers = {}
    BY <2>1 DEF SharePlaces
  <2> QED BY <2>1, <2>3, <2>4, <2>5 DEF SharePlaces, PlaceOf
<1>3. ASSUME NEW e \in Extensions, BuildCompaction(e) PROVE SharePlaces'
  <2>1. /\ UNCHANGED <<extension, analytics, readers>>
        /\ e \in Built /\ Built' = Built
    BY <1>3 DEF BuildCompaction, Built
  <2>2. PICK props \in SharedProps(e) :
           compaction' = [of |-> e,
              env |-> [logsBucket |-> props.logsBucket, keyPrefix |-> KeyPrefix(props)],
              grant |-> Place(props)]
    BY <1>3 DEF BuildCompaction
  <2>3. Stable(extension[e]) =>
           Place(props) = Place(extension[e])
    BY <2>1, SharedPlace DEF Place
  <2>4. /\ compaction'.of = e /\ compaction'.grant = Place(props)
        /\ <<compaction'.env.logsBucket, compaction'.env.keyPrefix>> = Place(props)
    BY <2>2 DEF Place
  <2> QED BY <2>1, <2>3, <2>4 DEF SharePlaces, PlaceOf
<1>4. CASE GrantQuery
  BY <1>4 DEF GrantQuery, SharePlaces, PlaceOf, Built, fns
<1>5. CASE UNCHANGED <<extension, analytics, readers, compaction>>
  BY <1>5 DEF SharePlaces, PlaceOf, Built
<1>6. ASSUME NEW e \in Extensions, NEW f \in Functions,
             Attach(e, f) \/ AttachRefused(e, f) \/ AttachThrows(e, f)
      PROVE  UNCHANGED <<extension, analytics, readers, compaction>>
  BY <1>6 DEF Attach, AttachRefused, AttachThrows, Call
<1>7. CASE UNCHANGED vars
  BY <1>5, <1>7 DEF vars
<1> QED BY <1>1, <1>2, <1>3, <1>4, <1>5, <1>6, <1>7 DEF Next

-----------------------------------------------------------------------------
IInv == Types /\ Variables /\ Grants /\ Carries /\ Counted /\ SharePlaces

\* The invariant holds throughout.
LEMMA Inductive == Spec => []IInv
<1>1. Init => IInv
  BY InitTypes, InitVariables, InitGrants, InitCounted, SharePlacesInit DEF IInv
<1>2. IInv /\ [Next]_vars => IInv'
  BY TypesNext, VariablesNext, GrantsNext, CountedNext, SharePlacesNext DEF IInv
<1> QED BY <1>1, <1>2, PTL DEF Spec

\* Types, and architectures agree.
THEOREM TypeCorrect == Spec => []TypeOK
<1>1. Types => TypeOK
  <2> SUFFICES ASSUME Types PROVE TypeOK
    OBVIOUS
  <2>1. \A e \in Built : extension[e] \in Props \cup Attributes
    BY BuiltFrom
  <2>2. ASSUME NEW f \in Functions, NEW i \in DOMAIN effective[f]
        PROVE  effective[f][i] \in Built \X Options
    <3>1. effective[f][i] \in Extensions \X Options /\ effective[f][i][1] \in Built
      BY OneMore DEF Types
    <3> QED BY <3>1
  <2> QED BY <2>1, <2>2 DEF Types, TypeOK
<1> QED BY <1>1, Inductive, PTL DEF IInv

\* Whatever comes after it, the last attachment sets the four variables.
LEMMA LatestSets ==
  ASSUME Types, Variables, NEW f \in Functions, effective[f] # <<>>
  PROVE  /\ Latest(f)[1] \in Built
         /\ Len(effective[f]) \in DOMAIN effective[f]
         /\ env[f].logsBucket = extension[Latest(f)[1]].logsBucket
         /\ env[f].keyPrefix = KeyPrefix(extension[Latest(f)[1]])
<1>1. PICK s : s = effective[f]
  OBVIOUS
<1>2. s \in Seq(Extensions \X Options) /\ s # <<>>
  BY <1>1 DEF Types
<1>3. PICK n \in Nat : n = Len(s) /\ DOMAIN s = 1 .. n /\ n # 0
  BY <1>2, OneMore, EmptySeq
<1>4. n \in DOMAIN s /\ \A j \in DOMAIN s : j <= n
  BY <1>3
<1>5. PICK e, o : e = s[n][1] /\ o = s[n][2]
  OBVIOUS
<1>6. e \in Built
  BY <1>1, <1>4, <1>5 DEF Types
<1>7. \A v \in Always : LastSets(s, extension, v, n)
  BY <1>4 DEF LastSets, Sets
<1>8. \A v \in Always : env[f][v] = AttachedEnv(extension[e], o)[v]
  BY <1>1, <1>4, <1>5, <1>7 DEF Variables, LastGives
<1>9. PICK ext : ext = extension[e]
  OBVIOUS
<1>10. /\ env[f]["logsBucket"] = ext["logsBucket"]
       /\ env[f]["keyPrefix"] = KeyPrefix(ext)
  BY <1>8, <1>9, AttachedIs DEF Always
<1> QED BY <1>1, <1>3, <1>4, <1>5, <1>6, <1>9, <1>10 DEF Latest

\* A grant on the place of an extension covers what its binary makes of it.
LEMMA PlaceCovers ==
  ASSUME Types, NEW e \in Built, Stable(extension[e]), NEW own,
         own.logsBucket = extension[e].logsBucket, own.keyPrefix = KeyPrefix(extension[e])
  PROVE  /\ Covers(Place(extension[e]), Target(own))
         /\ KeyPrefix(extension[e]) # <<>> => Target(own) = Place(extension[e])
<1>1. PICK prefix : prefix = KeyPrefix(extension[e])
  OBVIOUS
<1>2. prefix \in Seq(Tokens) /\ NormalizePrefix(prefix) = prefix
  BY <1>1, BuiltFrom, KeyPrefixes DEF Stable
<1>3. PICK resolved : resolved = ResolvedPrefix(own)
  OBVIOUS
<1>4. CASE prefix = <<>>
  <2>1. resolved = NormalizePrefix(DEFAULT_KEY_PREFIX)
    BY <1>1, <1>3, <1>4 DEF ResolvedPrefix
  <2>2. resolved \in Seq(Tokens)
    BY <2>1, KeyPrefixes, NormalSeq
  <2>3. IsPrefix(prefix, resolved)
    BY <1>4, <2>2, PrefixFacts
  <2> QED BY <1>1, <1>3, <1>4, <2>3 DEF Covers, Target, Place
<1>5. CASE prefix # <<>>
  <2>1. resolved = prefix
    BY <1>1, <1>2, <1>3, <1>5 DEF ResolvedPrefix
  <2>2. IsPrefix(prefix, resolved)
    BY <1>2, <2>1, PrefixFacts
  <2> QED BY <1>1, <1>3, <1>5, <2>1, <2>2 DEF Covers, Target, Place
<1> QED BY <1>4, <1>5

\* A layer of an extension is not from elsewhere.
LEMMA LayersOfOurs ==
  ASSUME Types, NEW e \in Built
  PROVE  LayerOf(e) \notin Elsewhere
<1> SUFFICES ASSUME NEW own \in OwnLayers PROVE LayerOf(e) \notin Range(own)
  BY DEF Elsewhere
<1>1. PICK props \in Props \cup Attributes : props = extension[e]
  BY BuiltFrom
<1>2. "layerVersionArn" \in DOMAIN props => props.layerVersionArn \notin Range(own)
  BY OwnAssumption
<1>3. e \notin Range(own)
  BY OwnAssumption DEF Built
<1> QED BY <1>1, <1>2, <1>3 DEF LayerOf

\* The extensions of which a function has the layer are those that were
\* attached to it, and so are those of which it has the variables, and those
\* of which it has the grant, unless it was declined: for every order,
\* repetition and failure of the calls of attach.
THEOREM NothingHalf == Spec => []NoHalfAttachment
<1>1. IInv => NoHalfAttachment
  <2> SUFFICES ASSUME IInv, NEW f \in Functions
               PROVE  /\ Range(layers[f]) \cap {LayerOf(e) : e \in Built} =
                            {LayerOf(a[1]) : a \in Range(effective[f])}
                      /\ DOMAIN env[f] \cap (Always \cup Tuning) =
                            {v \in Always \cup Tuning :
                               \E a \in Range(effective[f]) : Sets(extension[a[1]], v)}
                      /\ grants[f] = {Place(extension[a[1]]) :
                            a \in {b \in Range(effective[f]) : Option(b[2], "grantWrite", TRUE)}}
    BY DEF NoHalfAttachment
  <2>1. PICK s, own : s = effective[f] /\ own = layers[f]
    OBVIOUS
  <2>2. Range(s) = {s[i] : i \in DOMAIN s} /\ Range(own) = {own[k] : k \in DOMAIN own}
    BY DEF Range
  <2>3. \A i \in DOMAIN s : s[i][1] \in Built
    BY <2>1 DEF IInv, Types
  <2>4. Carried(s, extension, own) /\ Granted(s, extension, grants[f])
    BY <2>1 DEF IInv, Carries, Grants
  <2>5. \A e : LayerOf(e) = LayerFor(e, extension[e])
    BY DEF LayerOf, LayerFor
  <2>6. Range(own) \cap {LayerOf(e) : e \in Built} = {LayerOf(a[1]) : a \in Range(s)}
    <3>1. ASSUME NEW e \in Built, LayerOf(e) \in Range(own)
          PROVE  \E a \in Range(s) : LayerOf(e) = LayerOf(a[1])
      <4>1. PICK k \in DOMAIN own : own[k] = LayerOf(e)
        BY <2>2, <3>1
      <4>2. own[k] \notin Elsewhere
        BY <4>1, LayersOfOurs DEF IInv
      <4>3. PICK i \in DOMAIN s : own[k] = LayerFor(s[i][1], extension[s[i][1]])
        BY <2>4, <4>2 DEF Carried
      <4> QED BY <2>2, <2>5, <4>1, <4>3
    <3>2. ASSUME NEW a \in Range(s)
          PROVE  LayerOf(a[1]) \in Range(own) /\ a[1] \in Built
      <4>1. PICK i \in DOMAIN s : a = s[i]
        BY <2>2
      <4>2. PICK k \in DOMAIN own : own[k] = LayerFor(s[i][1], extension[s[i][1]])
        BY <2>4 DEF Carried
      <4> QED BY <2>2, <2>3, <2>5, <4>1, <4>2
    <3> QED BY <3>1, <3>2
  <2>7. \A v \in Always \cup Tuning :
           v \in DOMAIN env[f] <=> \E a \in Range(s) : Sets(extension[a[1]], v)
    <3>1. \A v \in Always \cup Tuning :
             v \in DOMAIN env[f] <=> \E i \in DOMAIN s : Sets(extension[s[i][1]], v)
      BY <2>1 DEF IInv, Variables, LastGives
    <3> QED BY <2>2, <3>1
  <2>8. DOMAIN env[f] \cap (Always \cup Tuning) =
           {v \in Always \cup Tuning : \E a \in Range(s) : Sets(extension[a[1]], v)}
    BY <2>7
  <2>9. ASSUME NEW p
        PROVE  p \in grants[f] <=>
                 \E a \in Range(s) : Option(a[2], "grantWrite", TRUE) /\ p = Place(extension[a[1]])
    BY <2>2, <2>4 DEF Granted
  <2>10. grants[f] = {Place(extension[a[1]]) :
            a \in {b \in Range(s) : Option(b[2], "grantWrite", TRUE)}}
    BY <2>9
  <2> QED BY <2>1, <2>6, <2>8, <2>10
<1> QED BY <1>1, Inductive, PTL

\* A layer is on a function as often as extensions with it were attached.
THEOREM LayersOnce == Spec => []LayerOncePerInstance
<1>1. IInv => LayerOncePerInstance
  BY LayerIn DEF IInv, Counted, Occurs, Holders, LayerOncePerInstance
<1> QED BY <1>1, Inductive, PTL

\* What the binary writes, the function may write.
THEOREM WritesAreGranted == Spec => []TargetWritable
<1>1. IInv => TargetWritable
  <2> SUFFICES ASSUME IInv, NEW f \in Functions, effective[f] # <<>>,
                      Option(Latest(f)[2], "grantWrite", TRUE), Stable(extension[Latest(f)[1]])
               PROVE  \E p \in grants[f] : Covers(p, Target(env[f]))
    BY DEF TargetWritable
  <2>1. PICK e : e = Latest(f)[1]
    OBVIOUS
  <2>2. Place(extension[e]) \in grants[f]
    BY <2>1, LatestSets DEF IInv, Grants, Granted, Latest
  <2>3. Covers(Place(extension[e]), Target(env[f]))
    BY <2>1, LatestSets, PlaceCovers DEF IInv
  <2> QED BY <2>2, <2>3
<1> QED BY <1>1, Inductive, PTL

\* Writers, table, readers and compactor agree on the place.
THEOREM PlacesAgree == Spec => []OnePlace
<1>1. IInv => OnePlace
  <2> SUFFICES ASSUME IInv, NEW f \in Functions, effective[f] # <<>>, Stable(extension[Latest(f)[1]])
               PROVE  /\ compaction # None /\ compaction.of = Latest(f)[1] =>
                           /\ Target(compaction.env) = Target(env[f])
                           /\ Covers(compaction.grant, Target(env[f]))
                      /\ analytics # None /\ analytics.of = Latest(f)[1]
                           /\ KeyPrefix(extension[Latest(f)[1]]) # <<>> =>
                           /\ analytics.location = Target(env[f])
                           /\ \A r \in readers : Covers(r, Target(env[f]))
    BY DEF OnePlace
  <2>1. PICK e : e = Latest(f)[1]
    OBVIOUS
  <2>2. PICK place, target : place = Place(extension[e]) /\ target = Target(env[f])
    OBVIOUS
  <2>3. /\ env[f].logsBucket = extension[e].logsBucket
        /\ env[f].keyPrefix = KeyPrefix(extension[e])
        /\ e \in Built
    BY <2>1, LatestSets DEF IInv
  <2>4. /\ Covers(place, target)
        /\ KeyPrefix(extension[e]) # <<>> => target = place
    BY <2>1, <2>2, <2>3, PlaceCovers DEF IInv
  <2>5. ASSUME compaction # None, compaction.of = e
        PROVE  Target(compaction.env) = target /\ Covers(compaction.grant, target)
    <3>1. /\ compaction.grant = place
          /\ <<compaction.env.logsBucket, compaction.env.keyPrefix>> = place
      BY <2>1, <2>2, <2>5 DEF IInv, SharePlaces, PlaceOf
    <3>2. /\ compaction.env.logsBucket = env[f].logsBucket
          /\ compaction.env.keyPrefix = env[f].keyPrefix
      BY <2>2, <2>3, <3>1 DEF Place
    <3>3. Target(compaction.env) = target
      BY <2>2, <3>2 DEF Target, ResolvedPrefix
    <3> QED BY <2>4, <3>1, <3>3
  <2>6. ASSUME analytics # None, analytics.of = e, KeyPrefix(extension[e]) # <<>>
        PROVE  analytics.location = target /\ \A r \in readers : Covers(r, target)
    <3>1. analytics.location = place /\ \A r \in readers : r = place
      BY <2>1, <2>2, <2>6 DEF IInv, SharePlaces, PlaceOf
    <3> QED BY <2>4, <2>6, <3>1
  <2> QED BY <2>1, <2>2, <2>5, <2>6
<1> QED BY <1>1, Inductive, PTL

\* A setting that is accepted governs the binary.
THEOREM SettingsReachTheBinary == Spec => []SettingsArrive
<1>1. IInv => SettingsArrive
  <2> SUFFICES ASSUME IInv, NEW f \in Functions, NEW v \in Settings, effective[f] # <<>>
               PROVE  LET setting == {i \in DOMAIN effective[f] : Sets(extension[effective[f][i][1]], v)}
                          asked == IF setting = {} THEN DefaultSetting(v)
                                   ELSE Asked(effective[f][Max(setting)], v)
                      IN Accepts(v, asked) => LoadConfig(env[f], v) = asked
    BY DEF SettingsArrive
  <2>1. PICK s : s = effective[f]
    OBVIOUS
  <2>2. PICK setting : setting = {i \in DOMAIN s : Sets(extension[s[i][1]], v)}
    OBVIOUS
  <2>3. PICK n \in Nat : n = Len(s) /\ DOMAIN s = 1 .. n /\ n \in DOMAIN s
    <3>1. s \in Seq(Extensions \X Options) /\ s # <<>>
      BY <2>1 DEF IInv, Types
    <3>2. Len(s) \in DOMAIN s
      BY <2>1, LatestSets DEF IInv
    <3> QED BY <3>1, <3>2, OneMore
  <2>4. v \in Always \cup Tuning
    BY DEF Settings, Always
  <2>5. LastGives(s, extension, env[f], v)
    BY <2>1, <2>4 DEF IInv, Variables
  <2>6. CASE setting = {}
    <3>1. v \notin DOMAIN env[f]
      BY <2>2, <2>5, <2>6 DEF LastGives
    <3>2. v # "logLevel"
      BY <2>2, <2>3, <2>6 DEF Sets, Always
    <3>3. LoadConfig(env[f], v) = DefaultSetting(v)
      BY <3>1, <3>2 DEF LoadConfig
    <3> QED BY <2>1, <2>2, <2>6, <3>3
  <2>7. CASE setting # {}
    <3>1. PICK m : m = Max(setting)
      OBVIOUS
    <3>2. m \in setting /\ \A j \in setting : j <= m
      <4>1. setting \subseteq 0 .. n
        BY <2>2, <2>3
      <4>2. Max(setting) \in setting /\ \A y \in setting : Max(setting) >= y
        BY <2>7, <4>1, Bounded
      <4>3. \A y \in setting : y \in Int
        BY <4>1
      <4> QED BY <3>1, <4>2, <4>3
    <3>3. m \in DOMAIN s /\ LastSets(s, extension, v, m)
      BY <2>2, <3>2 DEF LastSets
    <3>4. PICK ext, o : ext = extension[s[m][1]] /\ o = s[m][2]
      OBVIOUS
    <3>5. v \in DOMAIN env[f] /\ env[f][v] = AttachedEnv(ext, o)[v] /\ Sets(ext, v)
      BY <2>5, <3>3, <3>4 DEF LastGives, LastSets
    <3>6. AttachedEnv(ext, o)[v] = Asked(s[m], v)
      <4>1. v \in Always \cup DOMAIN ext
        BY <3>5 DEF Sets
      <4>2. CASE v = "logLevel"
        BY <3>4, <4>2, AttachedIs DEF Asked
      <4>3. CASE v = "compression"
        BY <3>4, <4>3, AttachedIs DEF Asked, DefaultSetting
      <4>4. CASE v = "flushInterval"
        BY <3>4, <4>1, <4>4, AttachedIs DEF Asked, Always
      <4>5. CASE v \in Tuning \ {"flushInterval"}
        <5>1. v \in DOMAIN ext /\ v # "logLevel" /\ v # "flushInterval"
          BY <4>1, <4>5 DEF Tuning, Always
        <5>2. Asked(s[m], v) = ext[v]
          BY <3>4, <5>1 DEF Asked, Option
        <5>3. AttachedEnv(ext, o)[v] = ext[v]
          BY <4>5, <5>1, AttachedIs
        <5> QED BY <5>2, <5>3
      <4> QED BY <4>2, <4>3, <4>4, <4>5 DEF Settings
    <3>7. Accepts(v, Asked(s[m], v)) => LoadConfig(env[f], v) = Asked(s[m], v)
      BY <3>5, <3>6 DEF LoadConfig
    <3> QED BY <2>1, <2>2, <2>7, <3>1, <3>7
  <2> QED BY <2>6, <2>7
<1> QED BY <1>1, Inductive, PTL

\* What a function had it keeps.
THEOREM NothingTaken == Spec => Additive
<1>1. ASSUME IInv, [Next]_vars, NEW f \in Functions
      PROVE  /\ IsPrefix(layers[f], layers'[f])
             /\ grants[f] \subseteq grants'[f]
             /\ DOMAIN env[f] \subseteq DOMAIN env'[f]
  <2>1. PICK l : l = layers[f]
    OBVIOUS
  <2>2. l \in Seq(AnyLayer)
    BY <1>1, <2>1 DEF IInv, Types
  <2>3. CASE layers'[f] = layers[f] /\ grants'[f] = grants[f] /\ env'[f] = env[f]
    <3>1. IsPrefix(l, l)
      BY <2>2, PrefixFacts
    <3> QED BY <2>1, <2>3, <3>1
  <2>4. ASSUME NEW e \in Extensions, Attach(e, f)
        PROVE  /\ IsPrefix(layers[f], layers'[f])
               /\ grants[f] \subseteq grants'[f]
               /\ DOMAIN env[f] \subseteq DOMAIN env'[f]
    <3>1. PICK o : Wired(e, f, o)
      BY <2>4, AttachWires
    <3>2. PICK x : x = LayerOf(e)
      OBVIOUS
    <3>3. layers'[f] = Append(l, x)
      BY <1>1, <2>1, <3>1, <3>2, WiredPointwise DEF IInv
    <3>4. IsPrefix(l, Append(l, x))
      <4>1. PICK t : t = Append(l, x)
        OBVIOUS
      <4>2. PICK n \in Nat : n = Len(l) /\ Len(t) = n + 1
        BY <2>2, <4>1, OneMore
      <4>3. \A i \in 1 .. n : t[i] = l[i]
        BY <2>2, <4>1, <4>2, OneMore
      <4>4. SubSeq(l, 1, n) = SubSeq(t, 1, n)
        BY <2>2, <4>1, <4>2, <4>3
      <4> QED BY <4>1, <4>2, <4>4 DEF IsPrefix
    <3>5. grants[f] \subseteq grants'[f]
      BY <1>1, <3>1, WiredPointwise DEF IInv
    <3>6. env'[f] = Overlay(env[f], AttachedEnv(extension[e], o))
      <4>1. f \in DOMAIN env
        BY <1>1 DEF IInv, Types
      <4> QED BY <3>1, <4>1 DEF Wired
    <3>7. DOMAIN env[f] \subseteq DOMAIN env'[f]
      <4>1. PICK own, given : own = env[f] /\ given = AttachedEnv(extension[e], o)
        OBVIOUS
      <4>2. PICK all : all = Overlay(own, given)
        OBVIOUS
      <4>3. DOMAIN own \subseteq DOMAIN all
        BY <4>2 DEF Overlay
      <4> QED BY <3>6, <4>1, <4>2, <4>3
    <3> QED BY <2>1, <3>3, <3>4, <3>5, <3>7
  <2>5. ASSUME NEW e \in Extensions, NEW g \in Functions, Attach(e, g), g # f
        PROVE  layers'[f] = layers[f] /\ grants'[f] = grants[f] /\ env'[f] = env[f]
    <3>1. PICK o : Wired(e, g, o)
      BY <2>5, AttachWires
    <3> QED BY <1>1, <2>5, <3>1, WiredPointwise DEF IInv
  <2>6. ASSUME NEW e \in Extensions, BuildExtension(e)
        PROVE  layers'[f] = layers[f] /\ grants'[f] = grants[f] /\ env'[f] = env[f]
    BY <2>6 DEF BuildExtension, fns
  <2>7. ASSUME NEW e \in Extensions, NEW g \in Functions, AttachThrows(e, g)
        PROVE  layers'[f] = layers[f] /\ grants'[f] = grants[f] /\ env'[f] = env[f]
    BY <2>7 DEF AttachThrows
  <2>8. Rests => layers'[f] = layers[f] /\ grants'[f] = grants[f] /\ env'[f] = env[f]
    BY DEF Rests
  <2>9. /\ Types
        /\ [Next]_vars
    BY <1>1 DEF IInv
  <2> QED BY <2>3, <2>4, <2>5, <2>6, <2>7, <2>8, <2>9, Kinds
<1>2. IInv /\ [Next]_vars =>
         [\A f \in Functions :
             /\ IsPrefix(layers[f], layers'[f])
             /\ grants[f] \subseteq grants'[f]
             /\ DOMAIN env[f] \subseteq DOMAIN env'[f]]_vars
  BY <1>1
<1> QED BY <1>2, Inductive, PTL DEF Spec, Additive
=============================================================================
