---------------------------- MODULE FsWireProofs ----------------------------
(***************************************************************************)
(* Proofs about the wire of the file system, for any requests of the       *)
(* kernel, any names and any sizes that HugeAssumption allows: a success   *)
(* is told only of what the host has done, and the host acts on a call     *)
(* only while it is waited for.                                            *)
(***************************************************************************)
EXTENDS FsWire, SequenceTheorems, FiniteSetTheorems, TLAPS

Ops == {"truncate", "chmod", "stat", "symlink", "unlink", "release", "readdir"}
Requests == [id : Nat, op : Ops, name : Nat]

RequestCalls ==
  [pc : {"idle", "send", "length", "text"}, kind : Kinds \cup {"none", "readdir"}, name : Nat,
   ops : Seq(Ops), asked : Seq(Ops), done : Seq(Ops), own : BOOLEAN]

\* Every word on its way to the guest.
Held == {words[i] : i \in DOMAIN words} \cup {unsent[i] : i \in DOMAIN unsent}

Types ==
  /\ next_id \in Nat \ {0} /\ oversized \in BOOLEAN
  /\ requests \in Seq(Requests) /\ Len(requests) <= Buffer
  /\ words \in Seq(Held) /\ unsent \in Seq(Held) /\ Len(words) <= Buffer
  /\ call \in RequestCalls

\* A request goes through its calls in order and gives up at the first that
\* fails; release, which does not, has only one.
CallIs ==
  /\ call.own
  /\ call.pc = "idle" => call = NoCall
  /\ call.pc # "idle" => call.ops # <<>>
  /\ call.kind = "release" => Len(call.ops) = 1

\* What is left to be done, after the call that is being made has succeeded or
\* has not been carried out.
ToDo(ops) == call.asked = call.done \o ops

Clear == requests = <<>> /\ words = <<>> /\ unsent = <<>>

Awaited ==
  /\ requests = <<[id |-> next_id - 1, op |-> Head(call.ops), name |-> call.name]>>
  /\ words = <<>> /\ unsent = <<>>

\* The response to the call being made, on its way.
Responded(length) ==
  /\ requests = <<>>
  /\ length.type = "length" /\ length.size = 1 /\ length.id = next_id - 1
  /\ length.ok \in BOOLEAN
  /\ \/ words = <<>> /\ unsent = <<length, Text>> /\ call.pc = "length"
     \/ words = <<length>> /\ unsent = <<Text>>
     \/ words = <<length, Text>> /\ unsent = <<>>
  /\ ToDo(IF length.ok THEN Tail(call.ops) ELSE call.ops)

\* In step: there is a call that is being made, or nothing in the stream.
InStep ==
  \/ call.pc \in {"idle", "send"} /\ Clear /\ ToDo(call.ops)
  \/ call.pc = "length" /\ Awaited /\ ToDo(call.ops)
  \/ call.pc \in {"length", "text"} /\ \E length \in Held : Responded(length)

Readable(w) == w.type = "length" /\ w.size # Huge

\* Out of step: each call leaves its request behind and takes one word of the
\* text.  The stream is full of requests before the text has been read, so the
\* file server never gets to them.
OutOfStep ==
  /\ call.pc # "text"
  /\ \A w \in Held : ~ Readable(w)
  /\ Len(words) + Len(unsent) + Len(requests)
       = IF call.pc = "length" THEN Huge + 1 ELSE Huge
  /\ ToDo(call.ops) \/ (call.ops # <<>> /\ ToDo(Tail(call.ops)))

\* The inductive invariant.
IInv == /\ Types /\ CallIs /\ AnswerIsTrue
        /\ IF oversized THEN OutOfStep ELSE InStep

-----------------------------------------------------------------------------
(* A directory that is being listed *)

Listings ==
  [open : BOOLEAN, ended : BOOLEAN, offset : Nat, got : Seq(Names), still : SUBSET Names,
   removals : BOOLEAN, insertions : BOOLEAN]

\* The place a name has, or would have, in a listing of D.
Rank(D, x) == Cardinality({m \in D : m <= x})

Ascending(s) == \A i, j \in DOMAIN s : i < j => s[i] < s[j]
IsListing(s, D) == s \in [1 .. Cardinality(D) -> D] /\ Ascending(s)

\* The offset splits a listing of D into what has been given to the kernel and
\* what has not, as far as it can with names coming and going.
SplitsAt(D) ==
  /\ ~ listing.removals =>
       \A x \in listing.still : Rank(D, x) <= listing.offset => x \in Range(listing.got)
  /\ ~ listing.insertions =>
       \A x \in Range(listing.got) \cap D : Rank(D, x) <= listing.offset

\* D is the directory, now or at some time since it was opened.
Snapshot(D) ==
  /\ ~ listing.removals => listing.still \subseteq D /\ D \subseteq dir
  /\ ~ listing.insertions => dir \subseteq D
  /\ SplitsAt(D)

IsPage(w) == w.type = "length" /\ w.ok

\* A page on its way is of the directory as it was when the host read it.
PageIsSnapshot ==
  ~ oversized /\ call.kind = "readdir" =>
    \A w \in Held : IsPage(w) =>
      \E D \in SUBSET Names : IsListing(w.names, D) /\ Snapshot(D)

\* readdir is one call, and the only request that names no file.
ListsOnly ==
  call.pc # "idle" /\ (call.kind = "readdir" \/ call.name \notin Names) =>
    call.ops = <<"readdir">>

\* What the pages so far say of the directory.
Pages ==
  /\ dir \in SUBSET Names /\ listing \in Listings
  /\ Snapshot(dir)
  /\ ~ listing.insertions => IsInjective(listing.got)
  /\ ListingIsComplete

\* The inductive invariant of the listing, on top of that of the stream.
ListingInv == IInv /\ ListsOnly /\ Pages /\ PageIsSnapshot

-----------------------------------------------------------------------------
(* Sequences *)

USE NamesAssumption, SizesAssumption, HugeAssumption, BoundsAssumption

LEMMA SeqIn ==
  ASSUME NEW S, NEW s \in Seq(S), NEW T, \A i \in DOMAIN s : s[i] \in T PROVE s \in Seq(T)
OBVIOUS

LEMMA SeqOfMore ==
  ASSUME NEW S, NEW T, NEW s \in Seq(S), S \subseteq T PROVE s \in Seq(T)
OBVIOUS

LEMMA Tuples ==
  ASSUME NEW a, NEW b
  PROVE  /\ <<>> # <<a>> /\ <<>> # <<a, b>> /\ Len(<<>>) = 0 /\ Len(<<a>>) = 1 /\ Len(<<a, b>>) = 2
         /\ DOMAIN <<>> = {} /\ DOMAIN <<a>> = {1} /\ DOMAIN <<a, b>> = {1, 2}
         /\ <<a>>[1] = a /\ <<a, b>>[1] = a /\ <<a, b>>[2] = b
         /\ Head(<<a>>) = a /\ Head(<<a, b>>) = a
         /\ Tail(<<a>>) = <<>> /\ Tail(<<a, b>>) = <<b>>
         /\ Append(<<>>, a) = <<a>> /\ Append(<<a>>, b) = <<a, b>>
         /\ SubSeq(<<a, b>>, 3, Len(<<a, b>>)) = <<>>
<1>1. /\ <<>> # <<a>> /\ <<>> # <<a, b>> /\ Len(<<>>) = 0 /\ Len(<<a>>) = 1 /\ Len(<<a, b>>) = 2
      /\ DOMAIN <<>> = {} /\ DOMAIN <<a>> = {1} /\ DOMAIN <<a, b>> = {1, 2}
      /\ <<a>>[1] = a /\ <<a, b>>[1] = a /\ <<a, b>>[2] = b
  OBVIOUS
<1>2. Head(<<a>>) = a /\ Head(<<a, b>>) = a
  OBVIOUS
<1>3. Tail(<<a>>) = <<>> /\ Tail(<<a, b>>) = <<b>>
  <2> DEFINE s == <<a>>
             t == <<a, b>>
             u == <<b>>
  <2>1. s \in Seq({a, b}) /\ t \in Seq({a, b}) /\ s # <<>> /\ t # <<>> /\ u \in Seq({a, b})
        /\ Len(s) = 1 /\ Len(t) = 2 /\ t[2] = b /\ Len(u) = 1 /\ u[1] = b
    OBVIOUS
  <2> HIDE DEF s, t, u
  <2>2. Tail(s) \in Seq({a, b}) /\ Len(Tail(s)) = 0
    BY <2>1, HeadTailProperties
  <2>3. Tail(t) \in Seq({a, b}) /\ Len(Tail(t)) = 1 /\ Tail(t)[1] = b
    BY <2>1, HeadTailProperties
  <2>4. Tail(s) = <<>>
    BY <2>2, EmptySeq
  <2>5. \A i \in 1 .. Len(u) : Tail(t)[i] = u[i]
    BY <2>1, <2>3
  <2>6. Tail(t) = u
    BY <2>1, <2>3, <2>5, SeqEqual
  <2> QED  BY <2>4, <2>6 DEF s, t, u
<1>4. Append(<<>>, a) = <<a>> /\ Append(<<a>>, b) = <<a, b>>
  <2> DEFINE e == <<>>
             s == <<a>>
             t == <<a, b>>
  <2>1. e \in Seq({a, b}) /\ s \in Seq({a, b}) /\ t \in Seq({a, b})
        /\ Len(e) = 0 /\ Len(s) = 1 /\ Len(t) = 2 /\ s[1] = a /\ t[1] = a /\ t[2] = b
    OBVIOUS
  <2> HIDE DEF e, s, t
  <2>2. /\ Append(e, a) \in Seq({a, b}) /\ Len(Append(e, a)) = 1 /\ Append(e, a)[1] = a
        /\ Append(s, b) \in Seq({a, b}) /\ Len(Append(s, b)) = 2 /\ Append(s, b)[2] = b
        /\ Append(s, b)[1] = s[1]
    <3>1. /\ Append(e, a) \in Seq({a, b}) /\ Len(Append(e, a)) = Len(e) + 1
          /\ Append(e, a)[Len(e) + 1] = a
      BY <2>1, AppendProperties
    <3>2. /\ Append(s, b) \in Seq({a, b}) /\ Len(Append(s, b)) = Len(s) + 1
          /\ Append(s, b)[Len(s) + 1] = b
          /\ \A i \in 1 .. Len(s) : Append(s, b)[i] = s[i]
      BY <2>1, AppendProperties
    <3> QED  BY <2>1, <3>1, <3>2
  <2>3. /\ \A i \in 1 .. Len(s) : Append(e, a)[i] = s[i]
        /\ \A i \in 1 .. Len(t) : Append(s, b)[i] = t[i]
    BY <2>1, <2>2
  <2>4. Append(e, a) = s /\ Append(s, b) = t
    BY <2>1, <2>2, <2>3, SeqEqual
  <2> QED  BY <2>4 DEF e, s, t
<1>5. SubSeq(<<a, b>>, 3, 2) = <<>>
  BY SubSeqEmpty
<1> QED  BY <1>1, <1>2, <1>3, <1>4, <1>5

LEMMA AppendIs ==
  ASSUME NEW S, NEW s \in Seq(S), NEW e \in S
  PROVE  /\ Append(s, e) \in Seq(S) /\ Len(s) \in Nat /\ Len(Append(s, e)) = Len(s) + 1
         /\ DOMAIN Append(s, e) = DOMAIN s \cup {Len(s) + 1}
         /\ \A i \in DOMAIN s : Append(s, e)[i] = s[i]
         /\ Append(s, e)[Len(s) + 1] = e
<1>1. /\ Append(s, e) \in Seq(S) /\ Len(Append(s, e)) = Len(s) + 1
      /\ \A i \in 1 .. Len(s) : Append(s, e)[i] = s[i]
      /\ Append(s, e)[Len(s) + 1] = e
  BY AppendProperties
<1>2. Len(s) \in Nat /\ DOMAIN s = 1 .. Len(s)
  OBVIOUS
<1>3. DOMAIN Append(s, e) = 1 .. Len(s) + 1
  BY <1>1
<1> QED  BY <1>1, <1>2, <1>3

LEMMA TailIs ==
  ASSUME NEW S, NEW s \in Seq(S), s # <<>>
  PROVE  /\ Tail(s) \in Seq(S) /\ Len(s) \in Nat /\ Len(s) > 0 /\ Len(Tail(s)) = Len(s) - 1
         /\ \A i \in DOMAIN Tail(s) : i + 1 \in DOMAIN s /\ Tail(s)[i] = s[i + 1]
         /\ 1 \in DOMAIN s /\ Head(s) = s[1] /\ Head(s) \in S
<1>1. Len(s) \in Nat /\ DOMAIN s = 1 .. Len(s) /\ Len(s) # 0
  BY EmptySeq
<1>2. /\ Tail(s) \in Seq(S) /\ Len(Tail(s)) = Len(s) - 1
      /\ \A i \in 1 .. Len(Tail(s)) : Tail(s)[i] = s[i + 1]
  BY HeadTailProperties
<1>3. DOMAIN Tail(s) = 1 .. Len(s) - 1
  BY <1>2
<1>4. Head(s) = s[1] /\ Head(s) \in S
  BY HeadTailProperties
<1> QED  BY <1>1, <1>2, <1>3, <1>4

\* What is done and what is left.
LEMMA OneMoreDone ==
  ASSUME NEW S, NEW d \in Seq(S), NEW t \in Seq(S), t # <<>>
  PROVE  Append(d, Head(t)) \in Seq(S) /\ Append(d, Head(t)) \o Tail(t) = d \o t
<1>1. /\ Head(t) \in S /\ Tail(t) \in Seq(S) /\ Len(Tail(t)) = Len(t) - 1 /\ Head(t) = t[1]
      /\ \A i \in 1 .. Len(Tail(t)) : Tail(t)[i] = t[i + 1]
      /\ Len(t) \in Nat /\ Len(t) > 0 /\ Len(d) \in Nat
  BY TailIs
<1> DEFINE h == Append(d, Head(t))
           u == Tail(t)
<1>2. /\ h \in Seq(S) /\ Len(h) = Len(d) + 1 /\ h[Len(d) + 1] = t[1]
      /\ \A i \in 1 .. Len(d) : h[i] = d[i]
  BY <1>1, AppendProperties
<1>3. u \in Seq(S) /\ Len(u) = Len(t) - 1 /\ \A i \in 1 .. Len(u) : u[i] = t[i + 1]
  BY <1>1
<1> HIDE DEF h, u
<1>4. /\ h \o u \in Seq(S) /\ Len(h \o u) = Len(h) + Len(u)
      /\ \A i \in 1 .. Len(h) + Len(u) :
           (h \o u)[i] = IF i <= Len(h) THEN h[i] ELSE u[i - Len(h)]
  BY <1>2, <1>3, ConcatProperties
<1>5. /\ d \o t \in Seq(S) /\ Len(d \o t) = Len(d) + Len(t)
      /\ \A i \in 1 .. Len(d) + Len(t) :
           (d \o t)[i] = IF i <= Len(d) THEN d[i] ELSE t[i - Len(d)]
  BY ConcatProperties
<1>6. \A i \in 1 .. Len(d) + Len(t) : (h \o u)[i] = (d \o t)[i]
  <2> SUFFICES ASSUME NEW i \in 1 .. Len(d) + Len(t) PROVE (h \o u)[i] = (d \o t)[i]
    OBVIOUS
  <2>l. Len(h) + Len(u) = Len(d) + Len(t) /\ Len(h) = Len(d) + 1
    BY <1>1, <1>2, <1>3
  <2>1. CASE i <= Len(d)
    BY <1>1, <1>2, <1>4, <1>5, <2>1, <2>l
  <2>2. CASE i = Len(d) + 1
    BY <1>1, <1>2, <1>4, <1>5, <2>2, <2>l
  <2>3. CASE i > Len(d) + 1
    <3>1. (h \o u)[i] = u[i - (Len(d) + 1)] /\ (d \o t)[i] = t[i - Len(d)]
      BY <1>1, <1>4, <1>5, <2>3, <2>l
    <3>2. i - (Len(d) + 1) \in 1 .. Len(u)
      BY <1>1, <1>3, <2>3
    <3>3. u[i - (Len(d) + 1)] = t[(i - (Len(d) + 1)) + 1]
      BY <1>3, <3>2
    <3>4. (i - (Len(d) + 1)) + 1 = i - Len(d)
      BY <1>1
    <3> QED  BY <3>1, <3>3, <3>4
  <2>4. i <= Len(d) \/ i = Len(d) + 1 \/ i > Len(d) + 1
    BY <1>1
  <2> QED  BY <2>1, <2>2, <2>3, <2>4
<1>7. Len(h \o u) = Len(d \o t)
  BY <1>1, <1>2, <1>3, <1>4, <1>5
<1>8. h \o u = d \o t
  BY <1>4, <1>5, <1>6, <1>7, SeqEqual
<1> QED  BY <1>2, <1>8 DEF h, u

LEMMA AllDone ==
  ASSUME NEW S, NEW d \in Seq(S) PROVE d \o <<>> = d /\ <<>> \o d = d /\ IsPrefix(d, d)
<1>1. d \o <<>> = d /\ <<>> \o d = d
  BY ConcatEmptySeq
<1>2. Len(d) \in Nat
  OBVIOUS
<1> QED  BY <1>1, <1>2 DEF IsPrefix

LEMMA PartDone ==
  ASSUME NEW S, NEW d \in Seq(S), NEW t \in Seq(S)
  PROVE  IsPrefix(d, d \o t) /\ (t # <<>> => d \o t # d)
<1>1. /\ d \o t \in Seq(S) /\ Len(d \o t) = Len(d) + Len(t) /\ Len(d) \in Nat /\ Len(t) \in Nat
      /\ \A i \in 1 .. Len(d) : (d \o t)[i] = d[i]
  BY ConcatProperties
<1>2. SubSeq(d \o t, 1, Len(d)) = d
  <2>1. /\ SubSeq(d \o t, 1, Len(d)) \in Seq(S)
        /\ Len(SubSeq(d \o t, 1, Len(d))) = Len(d)
        /\ \A i \in 1 .. Len(d) : SubSeq(d \o t, 1, Len(d))[i] = (d \o t)[i]
    BY <1>1
  <2> QED  BY <1>1, <2>1, SeqEqual
<1>3. SubSeq(d, 1, Len(d)) = d
  BY <1>1
<1>4. Len(d) <= Len(d \o t)
  BY <1>1
<1>5. IsPrefix(d, d \o t)
  BY <1>2, <1>3, <1>4 DEF IsPrefix
<1> QED  BY <1>5, ConcatEqualIffEmpty

-----------------------------------------------------------------------------
(* Parts of a step *)

\* What the stream holds is what it has been given.
LEMMA Holds ==
  ASSUME NEW S, words' \in Seq(S), unsent' \in Seq(S)
  PROVE  words' \in Seq(Held') /\ unsent' \in Seq(Held') /\ Held' \subseteq S
<1>1. /\ \A i \in DOMAIN words' : words'[i] \in Held' /\ words'[i] \in S
      /\ \A i \in DOMAIN unsent' : unsent'[i] \in Held' /\ unsent'[i] \in S
  BY DEF Held
<1> PICK T : T = Held'
  OBVIOUS
<1>2. words' \in Seq(T) /\ unsent' \in Seq(T)
  BY <1>1, SeqIn
<1>3. Held' \subseteq S
  BY <1>1 DEF Held
<1> QED  BY <1>2, <1>3

LEMMA HoldsTheSame ==
  ASSUME UNCHANGED <<words, unsent>> PROVE Held' = Held
BY DEF Held

LEMMA HoldsNothing ==
  ASSUME words' = <<>>, unsent' = <<>> PROVE words' \in Seq(Held') /\ unsent' \in Seq(Held')
OBVIOUS

LEMMA NoCallIs ==
  /\ NoCall \in RequestCalls /\ NoCall.pc = "idle" /\ NoCall.own /\ NoCall.kind = "none"
  /\ NoCall.asked = <<>> /\ NoCall.done = <<>> /\ NoCall.ops = <<>>
BY DEF NoCall, RequestCalls

LEMMA Idles ==
  ASSUME call' = NoCall
  PROVE  call' \in RequestCalls /\ call'.pc = "idle" /\ CallIs' /\ ToDo(call.ops)'
<1>1. <<>> \o <<>> = <<>>
  BY AllDone
<1> QED  BY <1>1, NoCallIs DEF CallIs, ToDo

\* A failure is reported as one: something has not been done, or the response
\* was lost in a stream that is out of step.
LEMMA Fails ==
  ASSUME IInv, RpcFails, call.pc # "idle", oversized' = oversized,
         ToDo(call.ops) \/ (oversized /\ ToDo(Tail(call.ops)))
  PROVE  call' = NoCall /\ AnswerIsTrue'
<1>1. /\ call \in RequestCalls /\ call.ops # <<>> /\ call.ops \in Seq(Ops)
      /\ call.done \in Seq(Ops) /\ (call.kind = "release" => Len(call.ops) = 1)
  BY DEF IInv, Types, CallIs, RequestCalls
<1>2. CASE IgnoresErrors
  <2>1. call.kind = "release"
    BY <1>2 DEF IgnoresErrors
  <2>2. Len(call.ops) = 1
    BY <1>1, <2>1
  <2>3. ~ (Len(call.ops) > 1)
    BY ONLY <2>2
  <2>4. NextOperation(TRUE)
    BY <1>2 DEF RpcFails
  <2>5. call' = NoCall /\ answer'.kind = "release"
    BY <2>1, <2>3, <2>4 DEF NextOperation
  <2> QED  BY <2>5 DEF AnswerIsTrue
<1>3. CASE ~ IgnoresErrors
  <2>1. /\ call' = NoCall
        /\ ~ answer'.ok /\ answer'.done = call.done /\ answer'.asked = call.asked
    BY <1>3 DEF RpcFails, Answer
  <2>2. CASE ToDo(call.ops)
    <3>1. IsPrefix(call.done, call.asked) /\ call.asked # call.done
      BY <1>1, <2>2, PartDone DEF ToDo
    <3> QED  BY <2>1, <3>1 DEF AnswerIsTrue
  <2>3. CASE oversized /\ ToDo(Tail(call.ops))
    <3>1. Tail(call.ops) \in Seq(Ops)
      BY <1>1, TailIs
    <3>2. IsPrefix(call.done, call.asked)
      BY <1>1, <2>3, <3>1, PartDone DEF ToDo
    <3> QED  BY <2>1, <2>3, <3>2 DEF AnswerIsTrue
  <2> QED  BY <2>2, <2>3
<1> QED  BY <1>2, <1>3

LEMMA OneOrTwo ==
  ASSUME NEW S, NEW a \in S, NEW b \in S
  PROVE  /\ <<a>> \in Seq(S) /\ <<a>> # <<>> /\ Len(<<a>>) = 1
         /\ <<a, b>> \in Seq(S) /\ <<a, b>> # <<>>
         /\ <<>> \in Seq(S)
OBVIOUS

LEMMA OperationsAre ==
  ASSUME NEW kind \in Kinds \cup {"readdir"}, NEW ops \in Operations(kind)
  PROVE  ops \in Seq(Ops) /\ ops # <<>> /\ (kind = "release" => Len(ops) = 1)
<1>1. CASE kind = "setattr"
  <2>1. PICK size \in BOOLEAN, mode \in BOOLEAN : ops = SetAttr(size, mode)
    BY <1>1 DEF Operations
  <2> DEFINE s == IF size THEN <<"truncate">> ELSE <<>>
             m == IF mode THEN <<"chmod">> ELSE <<>>
             l == <<"stat">>
  <2>2. s \in Seq(Ops) /\ m \in Seq(Ops) /\ l \in Seq(Ops) /\ l # <<>>
    <3>1. "truncate" \in Ops /\ "chmod" \in Ops /\ "stat" \in Ops
      BY DEF Ops
    <3> HIDE DEF Ops
    <3> QED  BY <3>1, OneOrTwo
  <2>3. ops = (s \o m) \o l
    BY <2>1 DEF SetAttr
  <2> HIDE DEF s, m, l
  <2>4. (s \o m) \in Seq(Ops)
    BY <2>2, ConcatProperties
  <2>5. (s \o m) \o l \in Seq(Ops) /\ (s \o m) \o l # <<>>
    BY <2>2, <2>4, ConcatProperties, ConcatEqualIffEmpty
  <2> QED  BY <1>1, <2>3, <2>5
<1>2. CASE kind = "symlink"
  <2>1. ops = <<"symlink", "stat">>
    BY <1>2 DEF Operations
  <2>2. "symlink" \in Ops /\ "stat" \in Ops
    BY DEF Ops
  <2> QED  BY <1>2, <2>1, <2>2, OneOrTwo
<1>3. CASE kind \in {"unlink", "release", "readdir"}
  <2>1. ops = <<kind>> /\ kind \in Ops
    BY <1>3 DEF Operations, Ops
  <2> QED  BY <2>1, OneOrTwo
<1> QED  BY <1>1, <1>2, <1>3 DEF Kinds

\* The words of a response.
IsResponse(frame, size, id, ok, names) ==
  \E length :
    /\ length.type = "length" /\ length.size = size /\ length.id = id /\ length.ok = ok
    /\ length.names = names
    /\ frame \in Seq({length, Text}) /\ Len(frame) = size + 1
    /\ size = 1 => frame = <<length, Text>>

LEMMA FrameIs ==
  ASSUME NEW size \in Nat, NEW r, NEW ok \in BOOLEAN
  PROVE  IsResponse(Frame(size, r, ok), size, r.id, ok,
                    IF r.op = "readdir" /\ ok THEN Listed ELSE <<>>)
<1> DEFINE names == IF r.op = "readdir" /\ ok THEN Listed ELSE <<>>
           length == [Text EXCEPT !.type = "length", !.size = size, !.id = r.id, !.ok = ok,
                                  !.names = names]
           first == <<length>>
           rest == [i \in 1 .. size |-> Text]
<1>1. /\ length.type = "length" /\ length.size = size /\ length.id = r.id /\ length.ok = ok
      /\ length.names = names
  BY DEF Text
<1>2. Frame(size, r, ok) = first \o rest
  BY DEF Frame
<1> HIDE DEF length
<1>3. /\ first \in Seq({length, Text}) /\ Len(first) = 1 /\ first[1] = length
      /\ rest \in Seq({length, Text}) /\ Len(rest) = size /\ \A i \in 1 .. size : rest[i] = Text
  OBVIOUS
<1> HIDE DEF first, rest
<1>4. /\ first \o rest \in Seq({length, Text}) /\ Len(first \o rest) = 1 + size
      /\ \A i \in 1 .. 1 + size :
           (first \o rest)[i] = IF i <= 1 THEN first[i] ELSE rest[i - 1]
  <2>1. /\ first \o rest \in Seq({length, Text}) /\ Len(first \o rest) = Len(first) + Len(rest)
        /\ \A i \in 1 .. Len(first) + Len(rest) :
             (first \o rest)[i] = IF i <= Len(first) THEN first[i] ELSE rest[i - Len(first)]
    BY <1>3, ConcatProperties
  <2>2. Len(first) = 1 /\ Len(rest) = size
    BY <1>3
  <2> QED  BY ONLY <2>1, <2>2
<1>5. size = 1 => first \o rest = <<length, Text>>
  <2> SUFFICES ASSUME size = 1 PROVE first \o rest = <<length, Text>>
    OBVIOUS
  <2> DEFINE t == <<length, Text>>
  <2>1. t \in Seq({length, Text}) /\ Len(t) = 2 /\ t[1] = length /\ t[2] = Text
    OBVIOUS
  <2> HIDE DEF t
  <2>2. (first \o rest)[1] = length /\ (first \o rest)[2] = Text
    BY <1>3, <1>4
  <2>3. \A i \in 1 .. 2 : (first \o rest)[i] = t[i]
    <3> SUFFICES ASSUME NEW i \in 1 .. 2 PROVE (first \o rest)[i] = t[i]
      OBVIOUS
    <3>1. i = 1 \/ i = 2
      OBVIOUS
    <3> QED  BY <2>1, <2>2, <3>1
  <2>4. first \o rest = t
    BY <1>4, <2>1, <2>3, SeqEqual
  <2> QED  BY <2>4 DEF t
<1>6. 1 + size = size + 1
  OBVIOUS
<1> QED  BY <1>1, <1>2, <1>4, <1>5, <1>6 DEF IsResponse

-----------------------------------------------------------------------------
(* The steps *)

\* What a step that concerns neither the call nor the stream leaves alone.
LEMMA Elsewhere ==
  ASSUME IInv, UNCHANGED <<call, socket, answer>> PROVE IInv'
<1>1. Held' = Held
  BY HoldsTheSame DEF socket
<1>2. Types' /\ CallIs' /\ AnswerIsTrue'
  BY <1>1 DEF IInv, Types, CallIs, AnswerIsTrue, socket
<1>3. (OutOfStep' <=> OutOfStep) /\ (InStep' <=> InStep) /\ oversized' = oversized
  BY <1>1 DEF OutOfStep, InStep, ToDo, Clear, Awaited, Responded, socket
<1> QED  BY <1>2, <1>3 DEF IInv

LEMMA BeginStep ==
  ASSUME IInv, NEW kind \in Kinds \cup {"readdir"}, NEW name \in Nat, Begin(kind, name)
  PROVE  IInv'
<1>1. /\ call.pc = "idle" /\ answer' = NoAnswer /\ UNCHANGED socket /\ Held' = Held
  BY HoldsTheSame DEF Begin, socket
<1>2. PICK ops \in Operations(kind) :
        call' = [NoCall EXCEPT !.pc = "send", !.kind = kind, !.name = name, !.ops = ops,
                               !.asked = ops]
  BY DEF Begin
<1>3. ops \in Seq(Ops) /\ ops # <<>> /\ (kind = "release" => Len(ops) = 1)
  BY OperationsAre
<1>4. call' = [pc |-> "send", kind |-> kind, name |-> name, ops |-> ops, asked |-> ops,
               done |-> <<>>, own |-> TRUE]
  BY <1>2 DEF NoCall
<1>5. call' \in RequestCalls /\ CallIs' /\ call'.pc = "send"
  BY <1>3, <1>4 DEF RequestCalls, CallIs
<1>6. ToDo(call.ops)'
  BY <1>3, <1>4, AllDone DEF ToDo
<1>7. Types'
  BY <1>1, <1>5 DEF IInv, Types, socket
<1>8. AnswerIsTrue'
  BY <1>1 DEF AnswerIsTrue, NoAnswer
<1>9. CASE oversized
  <2>1. OutOfStep'
    BY <1>1, <1>5, <1>6, <1>9 DEF IInv, OutOfStep, socket
  <2> QED  BY <1>1, <1>5, <1>7, <1>8, <1>9, <2>1 DEF IInv, socket
<1>10. CASE ~ oversized
  <2>1. Clear
    BY <1>1, <1>10 DEF IInv, InStep
  <2>2. InStep'
    BY <1>1, <1>5, <1>6, <2>1 DEF InStep, Clear, socket
  <2> QED  BY <1>1, <1>5, <1>7, <1>8, <1>10, <2>2 DEF IInv, socket
<1> QED  BY <1>9, <1>10

LEMMA SendStep ==
  ASSUME IInv, Send PROVE IInv'
<1> DEFINE r == [id |-> next_id, op |-> Head(call.ops), name |-> call.name]
<1>1. /\ call.pc = "send" /\ Len(requests) < Buffer /\ requests' = Append(requests, r)
      /\ next_id' = next_id + 1 /\ call' = [call EXCEPT !.pc = "length"]
      /\ UNCHANGED <<words, unsent, oversized, answer>>
      /\ requests \in Seq(Requests) /\ call.ops # <<>> /\ call.ops \in Seq(Ops)
      /\ call.name \in Nat
  BY DEF Send, Write, IInv, Types, CallIs, RequestCalls
<1>2. Held' = Held
  BY <1>1, HoldsTheSame
<1>3. r \in Requests
  <2>1. Head(call.ops) \in Ops
    BY <1>1, TailIs
  <2>2. next_id \in Nat
    BY DEF IInv, Types
  <2> QED  BY <1>1, <2>1, <2>2 DEF Requests
<1>4. call' \in RequestCalls /\ CallIs' /\ call'.pc = "length" /\ (ToDo(call.ops)' <=> ToDo(call.ops))
      /\ (ToDo(Tail(call.ops))' <=> ToDo(Tail(call.ops)))
  BY <1>1 DEF IInv, Types, RequestCalls, CallIs, ToDo
<1>r. r = [id |-> next_id' - 1, op |-> Head(call'.ops), name |-> call'.name]
  BY <1>1 DEF IInv, Types, RequestCalls
<1> HIDE DEF r
<1>5. requests' \in Seq(Requests) /\ Len(requests') = Len(requests) + 1 /\ Len(requests) \in Nat
  BY <1>1, <1>3, AppendIs
<1>6. Types'
  <2>1. Len(requests') <= Buffer
    BY <1>1, <1>5
  <2>2. next_id' \in Nat \ {0}
    BY <1>1 DEF IInv, Types
  <2> QED  BY <1>1, <1>2, <1>4, <1>5, <2>1, <2>2 DEF IInv, Types
<1>7. AnswerIsTrue'
  BY <1>1 DEF IInv, AnswerIsTrue
<1>8. CASE oversized
  <2>1. OutOfStep
    BY <1>8 DEF IInv
  <2>2. Len(words) + Len(unsent) + Len(requests) = Huge /\ Len(words) \in Nat /\ Len(unsent) \in Nat
    BY <1>1, <2>1 DEF OutOfStep, IInv, Types
  <2>3. Len(words') + Len(unsent') + Len(requests') = Huge + 1
    BY <1>1, <1>5, <2>2
  <2>4. (ToDo(call.ops) \/ (call.ops # <<>> /\ ToDo(Tail(call.ops))))'
    BY <1>1, <1>4, <2>1 DEF OutOfStep, RequestCalls, IInv, Types
  <2>5. OutOfStep'
    BY <1>2, <1>4, <2>1, <2>3, <2>4 DEF OutOfStep
  <2> QED  BY <1>1, <1>4, <1>6, <1>7, <1>8, <2>5 DEF IInv
<1>9. CASE ~ oversized
  <2>1. Clear /\ ToDo(call.ops)
    BY <1>1, <1>9 DEF IInv, InStep
  <2>2. requests' = <<r>> /\ words' = <<>> /\ unsent' = <<>>
    BY <1>1, <2>1, Tuples DEF Clear
  <2>3. InStep'
    BY <1>4, <1>r, <2>1, <2>2 DEF InStep, Awaited
  <2> QED  BY <1>1, <1>4, <1>6, <1>7, <1>9, <2>3 DEF IInv
<1> QED  BY <1>8, <1>9

\* The file server reads a request only in step, and it is the one awaited: out
\* of step there are too many words before the next one for the stream to hold.
LEMMA HandleAwaits ==
  ASSUME IInv, unsent = <<>>, requests # <<>>
  PROVE  ~ oversized /\ call.pc = "length" /\ Awaited /\ ToDo(call.ops)
<1>1. ~ oversized
  <2> SUFFICES ASSUME oversized PROVE FALSE
    OBVIOUS
  <2>1. /\ Len(words) + Len(unsent) + Len(requests)
             = IF call.pc = "length" THEN Huge + 1 ELSE Huge
        /\ Len(words) \in Nat /\ Len(words) <= Buffer
        /\ Len(requests) \in Nat /\ Len(requests) <= Buffer
    BY DEF IInv, OutOfStep, Types
  <2>2. Len(unsent) = 0
    OBVIOUS
  <2>3. /\ Len(words) + 0 + Len(requests) >= Huge
        /\ Len(words) + 0 + Len(requests) <= 2 * Buffer
    BY <2>1, <2>2
  <2> QED  BY <2>1, <2>3
<1>2. CASE call.pc = "length" /\ Awaited /\ ToDo(call.ops)
  BY <1>1, <1>2
<1>3. CASE Clear
  BY <1>3 DEF Clear
<1>4. CASE \E length \in Held : Responded(length)
  BY <1>4 DEF Responded
<1>5. InStep
  BY <1>1 DEF IInv
<1> QED  BY <1>2, <1>3, <1>4, <1>5 DEF InStep

LEMMA HandleStep ==
  ASSUME IInv, Handle PROVE IInv'
<1> DEFINE r == Head(requests)
<1>1. /\ ~ oversized /\ call.pc = "length" /\ Awaited /\ ToDo(call.ops)
      /\ call \in RequestCalls /\ CallIs /\ call.ops # <<>> /\ call.ops \in Seq(Ops)
      /\ call.done \in Seq(Ops)
  BY HandleAwaits DEF Handle, IInv, Types, RequestCalls, CallIs
<1>2. r.id = next_id - 1 /\ r.op = Head(call.ops) /\ Tail(requests) = <<>>
  <2> DEFINE q == [id |-> next_id - 1, op |-> Head(call.ops), name |-> call.name]
  <2>1. requests = <<q>>
    BY <1>1 DEF Awaited
  <2>2. q.id = next_id - 1 /\ q.op = Head(call.ops)
    OBVIOUS
  <2> HIDE DEF q
  <2> QED  BY <2>1, <2>2, Tuples
<1>3. ForCurrentCall(r)
  BY <1>1, <1>2 DEF ForCurrentCall
<1>4. PICK ok \in BOOLEAN :
        /\ unsent' = Frame(Size(r, ok), r, ok)
        /\ oversized' = (oversized \/ Size(r, ok) = Huge)
        /\ call' = IF ok THEN [call EXCEPT !.done = Append(@, r.op)] ELSE call
  BY <1>3 DEF Handle
<1>5. /\ requests' = <<>> /\ words' = <<>> /\ UNCHANGED <<next_id, answer>>
  BY <1>1, <1>2 DEF Handle, Awaited
<1> HIDE DEF r
<1>6. /\ Size(r, ok) \in Nat /\ (Size(r, ok) # Huge => Size(r, ok) = 1)
      /\ (Size(r, ok) = Huge => ok)
  BY DEF Size
<1>7. PICK length :
        /\ length.type = "length" /\ length.size = Size(r, ok) /\ length.id = r.id
        /\ length.ok = ok
        /\ unsent' \in Seq({length, Text}) /\ Len(unsent') = Size(r, ok) + 1
        /\ (Size(r, ok) = 1 => unsent' = <<length, Text>>)
  <2>1. PICK n \in Nat : n = Size(r, ok)
    BY <1>6
  <2>2. unsent' = Frame(n, r, ok)
    BY <1>4, <2>1
  <2> DEFINE names == IF r.op = "readdir" /\ ok THEN Listed ELSE <<>>
  <2>3. IsResponse(Frame(n, r, ok), n, r.id, ok, names)
    BY FrameIs
  <2> HIDE DEF names
  <2>4. IsResponse(unsent', n, r.id, ok, names)
    BY ONLY <2>2, <2>3
  <2> QED  BY ONLY <2>1, <2>4 DEF IsResponse
<1>8. /\ words' \in Seq(Held') /\ unsent' \in Seq(Held') /\ Held' \subseteq {length, Text}
      /\ (Size(r, ok) = 1 => length \in Held')
  <2>1. words' \in Seq({length, Text})
    BY <1>5
  <2>2. Size(r, ok) = 1 => length \in Held'
    <3> SUFFICES ASSUME Size(r, ok) = 1 PROVE length \in Held'
      OBVIOUS
    <3>1. 1 \in DOMAIN unsent' /\ unsent'[1] = length
      BY <1>7, Tuples
    <3> QED  BY <3>1 DEF Held
  <2> QED  BY <1>7, <2>1, <2>2, Holds
<1>9. /\ Head(call.ops) \in Ops /\ Tail(call.ops) \in Seq(Ops)
      /\ Append(call.done, Head(call.ops)) \in Seq(Ops)
      /\ Append(call.done, Head(call.ops)) \o Tail(call.ops) = call.done \o call.ops
  <2> PICK S : S = Ops
    OBVIOUS
  <2>1. call.ops \in Seq(S) /\ call.ops # <<>> /\ call.done \in Seq(S)
    BY <1>1
  <2>2. Head(call.ops) \in S /\ Tail(call.ops) \in Seq(S)
    BY <2>1, TailIs
  <2>3. /\ Append(call.done, Head(call.ops)) \in Seq(S)
        /\ Append(call.done, Head(call.ops)) \o Tail(call.ops) = call.done \o call.ops
    BY <2>1, OneMoreDone
  <2> QED  BY <2>2, <2>3
<1>10. /\ call' \in RequestCalls /\ CallIs' /\ call'.pc = "length" /\ call'.ops = call.ops
       /\ call'.asked = call.asked
       /\ call'.done = IF ok THEN Append(call.done, Head(call.ops)) ELSE call.done
  <2>1. CASE ok
    <3>1. call' = [call EXCEPT !.done = Append(call.done, Head(call.ops))]
      BY <1>2, <1>4, <2>1
    <3> QED  BY <1>1, <1>9, <2>1, <3>1 DEF RequestCalls, CallIs
  <2>2. CASE ~ ok
    <3>1. call' = call
      BY <1>4, <2>2
    <3> QED  BY <1>1, <2>2, <3>1 DEF CallIs
  <2> QED  BY <2>1, <2>2
<1>11. IF ok THEN ToDo(Tail(call.ops))' ELSE ToDo(call.ops)'
  <2>1. call.asked = call.done \o call.ops
    BY <1>1 DEF ToDo
  <2> QED  BY <1>9, <1>10, <2>1 DEF ToDo
<1>12. Types'
  <2>1. Len(requests') = 0 /\ Len(words') = 0 /\ requests' \in Seq(Requests)
    BY <1>5
  <2>2. oversized' \in BOOLEAN
    BY <1>1, <1>4
  <2>3. Len(requests') <= Buffer /\ Len(words') <= Buffer
    BY <2>1
  <2>4. next_id' \in Nat \ {0}
    BY <1>5 DEF IInv, Types
  <2> QED  BY <1>8, <1>10, <2>1, <2>2, <2>3, <2>4 DEF Types
<1>13. AnswerIsTrue'
  <2>1. AnswerIsTrue /\ answer' = answer
    BY <1>5 DEF IInv
  <2> QED  BY <1>1, <2>1 DEF AnswerIsTrue
<1>14. CASE Size(r, ok) = Huge
  <2>1. oversized' /\ ok
    BY <1>4, <1>6, <1>14
  <2>2. Len(words') + Len(unsent') + Len(requests') = Huge + 1
    <3>1. Len(words') = 0 /\ Len(requests') = 0 /\ Len(unsent') = Huge + 1
      BY <1>5, <1>7, <1>14
    <3> QED  BY <3>1
  <2>3. \A w \in Held' : ~ Readable(w)
    BY <1>7, <1>8, <1>14 DEF Readable, Text
  <2>4. OutOfStep'
    <3>1. (call.ops # <<>> /\ ToDo(Tail(call.ops)))'
      BY <1>1, <1>10, <1>11, <2>1
    <3>2. (\A w \in Held : ~ Readable(w))'
      BY <2>3 DEF Readable
    <3>3. (call.pc = "length")'
      BY <1>10
    <3> QED  BY <2>2, <3>1, <3>2, <3>3 DEF OutOfStep
  <2> QED  BY <1>10, <1>12, <1>13, <2>1, <2>4 DEF IInv
<1>15. CASE Size(r, ok) # Huge
  <2>1. ~ oversized' /\ Size(r, ok) = 1
    BY <1>1, <1>4, <1>6, <1>15
  <2>2. words' = <<>> /\ unsent' = <<length, Text>> /\ requests' = <<>>
    BY <1>5, <1>7, <2>1
  <2>3. length.size = 1 /\ length.id = next_id' - 1
    BY <1>2, <1>5, <1>7, <2>1
  <2>4. ToDo(IF length.ok THEN Tail(call.ops) ELSE call.ops)'
    BY <1>7, <1>10, <1>11
  <2>5. Responded(length)'
    BY <1>7, <1>10, <2>2, <2>3, <2>4 DEF Responded
  <2>6. length \in Held'
    BY <1>8, <2>1
  <2>7. InStep'
    BY <1>10, <2>5, <2>6 DEF InStep
  <2> QED  BY <1>10, <1>12, <1>13, <2>1, <2>7 DEF IInv
<1> QED  BY <1>14, <1>15

LEMMA WriteResponseStep ==
  ASSUME IInv, WriteResponse PROVE IInv'
<1>1. /\ unsent # <<>> /\ Len(words) < Buffer
      /\ words' = Append(words, Head(unsent)) /\ unsent' = Tail(unsent)
      /\ UNCHANGED <<call, next_id, requests, oversized, answer>>
      /\ words \in Seq(Held) /\ unsent \in Seq(Held)
  BY DEF WriteResponse, IInv, Types
<1>2. /\ Head(unsent) \in Held /\ Tail(unsent) \in Seq(Held)
      /\ Len(Tail(unsent)) = Len(unsent) - 1 /\ Len(unsent) \in Nat
  BY <1>1, TailIs
<1>3. /\ words' \in Seq(Held) /\ Len(words') = Len(words) + 1 /\ Len(words) \in Nat
  BY <1>1, <1>2, AppendIs
<1>4. words' \in Seq(Held') /\ unsent' \in Seq(Held') /\ Held' \subseteq Held
  BY <1>1, <1>2, <1>3, Holds
<1>5. Types'
  <2>1. Len(words') <= Buffer
    BY <1>1, <1>3
  <2> QED  BY <1>1, <1>4, <2>1 DEF IInv, Types
<1>6. CallIs' /\ AnswerIsTrue'
  BY <1>1 DEF IInv, CallIs, AnswerIsTrue
<1>7. CASE oversized
  <2>1. OutOfStep
    BY <1>7 DEF IInv
  <2>2. Len(words') + Len(unsent') + Len(requests') = Len(words) + Len(unsent) + Len(requests)
    <3>1. Len(requests') = Len(requests) /\ Len(requests) \in Nat
      BY <1>1 DEF IInv, Types
    <3>2. Len(unsent') = Len(unsent) - 1
      BY <1>1, <1>2
    <3> QED  BY <1>2, <1>3, <3>1, <3>2
  <2>3. (ToDo(call.ops) \/ (call.ops # <<>> /\ ToDo(Tail(call.ops))))'
    BY <1>1, <2>1 DEF OutOfStep, ToDo
  <2>4. (\A w \in Held : ~ Readable(w))'
    BY <1>4, <2>1 DEF OutOfStep, Readable
  <2>5. OutOfStep'
    BY <1>1, <2>1, <2>2, <2>3, <2>4 DEF OutOfStep
  <2> QED  BY <1>1, <1>5, <1>6, <1>7, <2>5 DEF IInv
<1>8. CASE ~ oversized
  <2>1. InStep
    BY <1>8 DEF IInv
  <2>2. PICK length \in Held : call.pc \in {"length", "text"} /\ Responded(length)
    BY <1>1, <2>1 DEF InStep, Clear, Awaited
  <2>3. CASE words = <<>> /\ unsent = <<length, Text>>
    <3>1. words' = <<length>> /\ unsent' = <<Text>>
      BY <1>1, <2>3, Tuples
    <3>2. length \in Held'
      BY <3>1 DEF Held
    <3>3. Responded(length)'
      BY <1>1, <2>2, <3>1 DEF Responded, ToDo
    <3> QED  BY <1>1, <1>5, <1>6, <1>8, <2>2, <3>2, <3>3 DEF IInv, InStep
  <2>4. CASE words = <<length>> /\ unsent = <<Text>>
    <3>1. words' = <<length, Text>> /\ unsent' = <<>>
      BY <1>1, <2>4, Tuples
    <3>2. length \in Held'
      <4>1. 1 \in DOMAIN words' /\ words'[1] = length
        BY <3>1, Tuples
      <4> QED  BY <4>1 DEF Held
    <3>3. Responded(length)'
      BY <1>1, <2>2, <3>1 DEF Responded, ToDo
    <3> QED  BY <1>1, <1>5, <1>6, <1>8, <2>2, <3>2, <3>3 DEF IInv, InStep
  <2> QED  BY <1>1, <2>2, <2>3, <2>4 DEF Responded
<1> QED  BY <1>7, <1>8

LEMMA RecvLengthStep ==
  ASSUME IInv, RecvLength PROVE IInv'
<1>1. /\ call.pc = "length" /\ words # <<>> /\ words \in Seq(Held) /\ unsent \in Seq(Held)
      /\ UNCHANGED <<next_id, requests, unsent, oversized>>
      /\ call \in RequestCalls
  BY DEF RecvLength, IInv, Types
<1>2. CASE oversized
  <2>1. OutOfStep
    BY <1>2 DEF IInv
  <2>2. /\ Tail(words) \in Seq(Held) /\ Len(words) \in Nat /\ Len(words) > 0
        /\ Len(Tail(words)) = Len(words) - 1 /\ Head(words) \in Held
    BY <1>1, TailIs
  <2>3. RpcFails /\ words' = Tail(words)
    BY <2>1, <2>2 DEF RecvLength, OutOfStep, Readable
  <2>4. call' = NoCall /\ AnswerIsTrue'
    <3>1. ToDo(call.ops) \/ (oversized /\ ToDo(Tail(call.ops)))
      BY <1>2, <2>1 DEF OutOfStep
    <3>2. call.pc # "idle"
      BY <1>1
    <3> QED  BY <1>1, <2>3, <3>1, <3>2, Fails
  <2>5. call' \in RequestCalls /\ call'.pc = "idle" /\ CallIs' /\ ToDo(call.ops)'
    BY <2>4, Idles
  <2>6. words' \in Seq(Held') /\ unsent' \in Seq(Held') /\ Held' \subseteq Held
    BY <1>1, <2>2, <2>3, Holds
  <2>7. Types'
    <3>1. Len(words') <= Buffer
      <4>1. Len(words) <= Buffer /\ Len(words') = Len(words) - 1
        BY <2>2, <2>3 DEF IInv, Types
      <4> QED  BY <2>2, <4>1
    <3> QED  BY <1>1, <2>5, <2>6, <3>1 DEF IInv, Types
  <2>8. Len(words') + Len(unsent') + Len(requests') = Huge
    <3>1. /\ Len(words) + Len(unsent) + Len(requests) = Huge + 1
          /\ Len(unsent) \in Nat /\ Len(requests) \in Nat
      BY <1>1, <2>1 DEF OutOfStep, IInv, Types
    <3>2. Len(words') = Len(words) - 1
      BY <2>2, <2>3
    <3>3. Len(unsent') = Len(unsent) /\ Len(requests') = Len(requests)
      BY <1>1
    <3> QED  BY <2>2, <3>1, <3>2, <3>3
  <2>9. (\A w \in Held : ~ Readable(w))'
    BY <2>1, <2>6 DEF OutOfStep, Readable
  <2>10. OutOfStep'
    BY <2>5, <2>8, <2>9 DEF OutOfStep
  <2> QED  BY <1>1, <1>2, <2>4, <2>5, <2>7, <2>10 DEF IInv
<1>3. CASE ~ oversized
  <2>1. InStep
    BY <1>3 DEF IInv
  <2>2. PICK length \in Held : Responded(length)
    BY <1>1, <2>1 DEF InStep, Awaited
  <2>3. words = <<length>> \/ words = <<length, Text>>
    BY <1>1, <2>2 DEF Responded
  <2>4. Head(words) = length
    BY <2>3, Tuples
  <2>5. length.type = "length" /\ length.size # Huge
    BY <2>2 DEF Responded
  <2>6. call' = [call EXCEPT !.pc = "text"] /\ UNCHANGED <<words, answer>>
    BY <2>4, <2>5 DEF RecvLength
  <2>7. Held' = Held
    BY <1>1, <2>6, HoldsTheSame
  <2>8. /\ call' \in RequestCalls /\ call'.pc = "text" /\ call'.ops = call.ops
        /\ call'.asked = call.asked /\ call'.done = call.done /\ CallIs'
    BY <1>1, <2>6 DEF RequestCalls, CallIs, IInv
  <2>9. Types'
    BY <1>1, <2>6, <2>7, <2>8 DEF IInv, Types
  <2>10. AnswerIsTrue'
    BY <1>1, <2>6 DEF IInv, AnswerIsTrue
  <2>11. Responded(length)'
    BY <1>1, <2>2, <2>3, <2>6, <2>8 DEF Responded, ToDo
  <2>12. InStep'
    BY <2>7, <2>8, <2>11 DEF InStep
  <2> QED  BY <1>1, <1>3, <2>8, <2>9, <2>10, <2>12 DEF IInv
<1> QED  BY <1>2, <1>3

\* Between two remote calls, or at rest.
LEMMA InStepAgain ==
  ASSUME IInv, ~ oversized, requests = <<>>, UNCHANGED <<next_id, requests, oversized>>,
         words' = <<>>, unsent' = <<>>,
         call' \in RequestCalls, call'.pc \in {"idle", "send"}, CallIs', ToDo(call.ops)',
         AnswerIsTrue'
  PROVE  IInv'
<1>1. words' \in Seq(Held') /\ unsent' \in Seq(Held')
  BY HoldsNothing
<1>2. Len(words') <= Buffer
  <2>1. Len(words') = 0
    OBVIOUS
  <2> QED  BY ONLY <2>1, SizesAssumption
<1>3. Types'
  BY <1>1, <1>2 DEF IInv, Types
<1>4. InStep'
  BY DEF InStep, Clear
<1> QED  BY <1>3, <1>4 DEF IInv

LEMMA OneOrMore ==
  \A n \in Nat : /\ n > 1 => n # 1 /\ n - 1 # 0
                 /\ n > 0 /\ ~ (n > 1) => n - 1 = 0
OBVIOUS

LEMMA RecvTextStep ==
  ASSUME IInv, RecvText PROVE IInv'
<1>1. /\ call.pc = "text" /\ Len(words) > 1 /\ words' = SubSeq(words, 3, Len(words))
      /\ UNCHANGED <<next_id, requests, unsent, oversized>>
      /\ IF Head(words).ok THEN NextOperation(Head(words).id = next_id - 1) ELSE RpcFails
      /\ call \in RequestCalls /\ CallIs
  BY DEF RecvText, IInv, Types
<1>2. ~ oversized
  BY <1>1 DEF IInv, OutOfStep
<1>3. PICK length \in Held : Responded(length)
  BY <1>1, <1>2 DEF IInv, InStep
<1>4. words = <<length, Text>> /\ unsent = <<>> /\ requests = <<>>
  <2>1. words # <<length>>
    <3> SUFFICES ASSUME words = <<length>> PROVE FALSE
      OBVIOUS
    <3>1. Len(words) = 1
      BY Tuples
    <3>2. Len(words) > 1
      BY <1>1
    <3> QED  BY ONLY <3>1, <3>2
  <2> QED  BY <1>1, <1>3, <2>1 DEF Responded
<1>5. Head(words) = length /\ words' = <<>>
  BY <1>1, <1>4, Tuples
<1>6. /\ call.ops # <<>> /\ call.ops \in Seq(Ops) /\ Len(call.ops) \in Nat
      /\ Tail(call.ops) \in Seq(Ops) /\ Len(Tail(call.ops)) = Len(call.ops) - 1
      /\ Len(call.ops) > 0
      /\ call.done \in Seq(Ops) /\ call.own /\ (call.kind = "release" => Len(call.ops) = 1)
  <2>1. call.ops # <<>> /\ call.ops \in Seq(Ops)
    BY <1>1 DEF CallIs, RequestCalls
  <2> QED  BY <1>1, <2>1, TailIs DEF CallIs, RequestCalls
<1>7. CASE length.ok /\ Len(call.ops) > 1
  <2>1. ToDo(Tail(call.ops)) /\ length.id = next_id - 1
    BY <1>3, <1>7 DEF Responded
  <2>2. /\ call' = [call EXCEPT !.pc = "send", !.ops = Tail(@), !.own = @ /\ TRUE]
        /\ answer' = answer
    BY <1>1, <1>5, <1>7, <2>1 DEF NextOperation
  <2>3. Tail(call.ops) # <<>> /\ call.kind # "release"
    <3>1. Len(call.ops) > 1 /\ Len(call.ops) \in Nat
      BY <1>6, <1>7
    <3>2. Len(call.ops) # 1 /\ Len(call.ops) - 1 # 0
      BY ONLY <3>1, OneOrMore
    <3>3. Len(Tail(call.ops)) = Len(call.ops) - 1 /\ Len(<<>>) = 0
      BY <1>6
    <3>4. Tail(call.ops) # <<>>
      BY ONLY <3>2, <3>3
    <3> QED  BY <1>6, <3>2, <3>4
  <2>4. /\ call' \in RequestCalls /\ call'.pc = "send" /\ call'.ops = Tail(call.ops)
        /\ call'.own /\ call'.kind = call.kind
        /\ call'.asked = call.asked /\ call'.done = call.done
    BY <1>1, <1>6, <2>2 DEF RequestCalls
  <2>5. CallIs' /\ ToDo(call.ops)'
    BY <2>1, <2>3, <2>4 DEF CallIs, ToDo
  <2>6. AnswerIsTrue'
    BY <1>1, <2>2 DEF IInv, AnswerIsTrue
  <2> QED  BY <1>1, <1>2, <1>4, <1>5, <2>4, <2>5, <2>6, InStepAgain
<1>8. CASE length.ok /\ ~ (Len(call.ops) > 1)
  <2>1. ToDo(Tail(call.ops)) /\ length.id = next_id - 1
    BY <1>3, <1>8 DEF Responded
  <2>2. /\ answer' = [kind |-> call.kind, ok |-> TRUE, asked |-> call.asked,
                      done |-> call.done, own |-> call.own /\ TRUE]
        /\ call' = NoCall
    BY <1>1, <1>5, <1>8, <2>1 DEF NextOperation
  <2>3. Tail(call.ops) = <<>>
    <3>1. /\ Len(call.ops) \in Nat /\ Len(call.ops) > 0 /\ ~ (Len(call.ops) > 1)
          /\ Len(Tail(call.ops)) = Len(call.ops) - 1
      BY <1>6, <1>8
    <3>2. Len(Tail(call.ops)) = 0
      BY ONLY <3>1, OneOrMore
    <3> QED  BY <1>6, <3>2, EmptySeq
  <2>4. call.asked = call.done
    BY <1>6, <2>1, <2>3, AllDone DEF ToDo
  <2>5. AnswerIsTrue'
    BY <1>6, <2>2, <2>4 DEF AnswerIsTrue
  <2>6. call' \in RequestCalls /\ call'.pc = "idle" /\ CallIs' /\ ToDo(call.ops)'
    BY <2>2, Idles
  <2> QED  BY <1>1, <1>2, <1>4, <1>5, <2>5, <2>6, InStepAgain
<1>9. CASE ~ length.ok
  <2>1. ToDo(call.ops)
    BY <1>3, <1>9 DEF Responded
  <2>2. RpcFails /\ call.pc # "idle"
    BY <1>1, <1>5, <1>9
  <2>3. call' = NoCall /\ AnswerIsTrue'
    BY <1>1, <2>1, <2>2, Fails
  <2>4. call' \in RequestCalls /\ call'.pc = "idle" /\ CallIs' /\ ToDo(call.ops)'
    BY <2>3, Idles
  <2> QED  BY <1>1, <1>2, <1>4, <1>5, <2>3, <2>4, InStepAgain
<1> QED  BY <1>7, <1>8, <1>9

LEMMA InitIInv ==
  ASSUME Init PROVE IInv
<1>1. /\ call = NoCall /\ next_id = 2 /\ oversized = FALSE /\ answer = NoAnswer
      /\ requests = <<>> /\ words = <<>> /\ unsent = <<>>
  BY DEF Init
<1>2. call \in RequestCalls /\ CallIs /\ call.pc = "idle" /\ ToDo(call.ops)
  <2>1. <<>> \o <<>> = <<>>
    BY AllDone
  <2> QED  BY <1>1, <2>1, NoCallIs DEF CallIs, ToDo
<1>3. Types
  <2>1. Len(<<>>) = 0
    OBVIOUS
  <2>2. Len(requests) <= Buffer /\ Len(words) <= Buffer
    BY <1>1, <2>1
  <2>3. requests \in Seq(Requests) /\ words \in Seq(Held) /\ unsent \in Seq(Held)
    BY <1>1
  <2>4. next_id \in Nat \ {0} /\ oversized \in BOOLEAN
    <3>1. 2 \in Nat \ {0}
      OBVIOUS
    <3> QED  BY ONLY <1>1, <3>1
  <2> QED  BY <1>2, <2>2, <2>3, <2>4 DEF Types
<1>4. AnswerIsTrue
  BY <1>1 DEF AnswerIsTrue, NoAnswer
<1>5. InStep
  BY <1>1, <1>2 DEF InStep, Clear
<1> QED  BY <1>1, <1>2, <1>3, <1>4, <1>5 DEF IInv

LEMMA NextIInv ==
  ASSUME IInv, [Next]_vars PROVE IInv'
<1>1. ASSUME NEW kind \in Kinds, NEW n \in Names, Begin(kind, n) PROVE IInv'
  <2>1. n \in Nat /\ kind \in Kinds \cup {"readdir"}
    OBVIOUS
  <2> QED  BY <1>1, <2>1, BeginStep
<1>2. CASE OpenDir
  BY <1>2, Elsewhere DEF OpenDir
<1>3. CASE ReadDir
  <2>1. Begin("readdir", 0) /\ 0 \in Nat /\ "readdir" \in Kinds \cup {"readdir"}
    BY <1>3 DEF ReadDir
  <2> QED  BY <2>1, BeginStep
<1>4. CASE ReleaseDir
  BY <1>4, Elsewhere DEF ReleaseDir
<1>5. CASE GuestStep
  BY <1>5, SendStep, RecvLengthStep, RecvTextStep DEF GuestStep
<1>6. CASE ServerStep
  BY <1>6, HandleStep, WriteResponseStep DEF ServerStep
<1>7. CASE HostEdits
  BY <1>7, Elsewhere DEF HostEdits
<1>8. CASE UNCHANGED vars
  BY <1>8, Elsewhere DEF vars
<1> QED  BY <1>1, <1>2, <1>3, <1>4, <1>5, <1>6, <1>7, <1>8 DEF Next

\* IInv holds in every reachable state.
THEOREM Invariance == Spec => []IInv
BY InitIInv, NextIInv, PTL DEF Spec

\* Whatever is asked for, and even once a response that no frame holds has put
\* the stream out of step, a success is told only of what the host has done, all
\* of it and for this very request.
THEOREM SuccessesAreTrue == Spec => []AnswerIsTrue
<1>1. IInv => AnswerIsTrue
  BY DEF IInv
<1> QED  BY Invariance, <1>1, PTL

\* What has been reported as failed does not happen later: the file server takes
\* up a call only while apc-fuse waits for it, in step or out of step.
THEOREM NothingActsLate == Spec => ActsWhileAwaited
<1>1. ASSUME IInv, [Next]_vars, Len(requests') < Len(requests)
      PROVE  ForCurrentCall(Head(requests))
  <2>1. CASE Handle
    <3> DEFINE q == [id |-> next_id - 1, op |-> Head(call.ops), name |-> call.name]
    <3>1. requests = <<q>> /\ call.pc = "length"
      BY <1>1, <2>1, HandleAwaits DEF Handle, Awaited
    <3>2. q.id = next_id - 1
      OBVIOUS
    <3> HIDE DEF q
    <3> QED  BY <3>1, <3>2, Tuples DEF ForCurrentCall
  <2>2. CASE Send
    <3>1. requests' = Append(requests, [id |-> next_id, op |-> Head(call.ops), name |-> call.name])
      BY <2>2 DEF Send, Write
    <3>2. requests \in Seq(Requests)
      BY <1>1 DEF IInv, Types
    <3>3. Len(requests') = Len(requests) + 1 /\ Len(requests) \in Nat
      BY <3>1, <3>2
    <3>4. ~ (Len(requests') < Len(requests))
      BY ONLY <3>3
    <3> QED  BY <1>1, <3>4
  <2>3. CASE requests' = requests
    <3>1. requests \in Seq(Requests)
      BY <1>1 DEF IInv, Types
    <3>2. Len(requests') = Len(requests) /\ Len(requests) \in Nat
      BY <2>3, <3>1
    <3>3. ~ (Len(requests') < Len(requests))
      BY ONLY <3>2
    <3> QED  BY <1>1, <3>3
  <2> QED
    BY <1>1, <2>1, <2>2, <2>3 DEF Next, vars, socket, Begin, OpenDir, ReadDir, ReleaseDir,
       GuestStep, RecvLength, RecvText, ServerStep, WriteResponse, HostEdits
<1>2. IInv /\ [Next]_vars => [Len(requests') < Len(requests) => ForCurrentCall(Head(requests))]_vars
  BY <1>1
<1> QED  BY Invariance, <1>2, PTL DEF Spec, ActsWhileAwaited
-----------------------------------------------------------------------------
(* Listings of a directory *)

LEMMA RankIs ==
  ASSUME NEW D \in SUBSET Nat, IsFiniteSet(D)
  PROVE  /\ \A x \in Nat : Rank(D, x) \in Nat /\ Rank(D, x) <= Cardinality(D)
         /\ \A x \in D : Rank(D, x) >= 1
         /\ \A x, y \in D : x < y => Rank(D, x) < Rank(D, y)
<1> DEFINE To(x) == {m \in D : m <= x}
<1>1. \A x \in Nat : /\ To(x) \in SUBSET D /\ IsFiniteSet(To(x))
                     /\ Cardinality(To(x)) \in Nat /\ Cardinality(To(x)) <= Cardinality(D)
  <2> SUFFICES ASSUME NEW x \in Nat
               PROVE  /\ To(x) \in SUBSET D /\ IsFiniteSet(To(x))
                      /\ Cardinality(To(x)) \in Nat /\ Cardinality(To(x)) <= Cardinality(D)
    OBVIOUS
  <2>1. To(x) \in SUBSET D
    OBVIOUS
  <2> HIDE DEF To
  <2> QED  BY <2>1, FS_Subset, FS_CardinalityType
<1>2. ASSUME NEW x \in D PROVE Cardinality(To(x)) >= 1
  <2>1. x \in To(x) /\ IsFiniteSet(To(x)) /\ Cardinality(To(x)) \in Nat
    BY <1>1
  <2> HIDE DEF To
  <2>2. Cardinality(To(x)) # 0
    BY <2>1, FS_EmptySet
  <2> QED  BY <2>1, <2>2
<1>3. ASSUME NEW x \in D, NEW y \in D, x < y PROVE Cardinality(To(x)) < Cardinality(To(y))
  <2>1. \A m \in D : m \in Nat /\ (m <= x => m <= y)
    BY <1>3
  <2>2. To(x) \in SUBSET To(y)
    BY <2>1
  <2>3. y \in To(y) /\ y \notin To(x)
    BY <1>3, <2>1
  <2>4. IsFiniteSet(To(y)) /\ Cardinality(To(x)) \in Nat /\ Cardinality(To(y)) \in Nat
    BY <1>1
  <2> HIDE DEF To
  <2>5. Cardinality(To(x)) <= Cardinality(To(y)) /\ Cardinality(To(x)) # Cardinality(To(y))
    BY <2>2, <2>3, <2>4, FS_Subset
  <2> QED  BY <2>4, <2>5
<1> QED  BY <1>1, <1>2, <1>3 DEF Rank

LEMMA RankGrows ==
  ASSUME NEW D \in SUBSET Nat, NEW E \in SUBSET D, IsFiniteSet(D), NEW x \in Nat
  PROVE  Rank(E, x) <= Rank(D, x)
<1> DEFINE S == {m \in D : m <= x}
           T == {m \in E : m <= x}
<1>1. S \in SUBSET D /\ T \in SUBSET S
  OBVIOUS
<1> HIDE DEF S, T
<1>2. Cardinality(T) <= Cardinality(S)
  BY <1>1, FS_Subset
<1> QED  BY <1>2 DEF Rank, S, T

\* A finite directory has a listing: the name of each rank, in turn.
LEMMA ListingExists ==
  ASSUME NEW D \in SUBSET Nat, IsFiniteSet(D) PROVE \E s : IsListing(s, D)
<1> DEFINE n == Cardinality(D)
           rank == [x \in D |-> Rank(D, x)]
<1>1. n \in Nat
  BY FS_CardinalityType
<1>2. rank \in [D -> 1 .. n]
  BY <1>1, RankIs
<1>3. \A x, y \in D : x < y => rank[x] < rank[y]
  BY RankIs
<1>4. \A x, y \in D : rank[x] = rank[y] => x = y
  <2> HIDE DEF rank, n
  <2> SUFFICES ASSUME NEW x \in D, NEW y \in D, rank[x] = rank[y] PROVE x = y
    OBVIOUS
  <2>1. rank[x] \in Nat /\ rank[y] \in Nat
    BY <1>1, <1>2
  <2>2. ~ (x < y) /\ ~ (y < x)
    BY <1>3, <2>1
  <2> QED  BY <2>2
<1>5. IsFiniteSet(1 .. n) /\ Cardinality(1 .. n) = n
  <2> HIDE DEF n
  <2> QED  BY <1>1, FS_Interval
<1> HIDE DEF rank
<1>6. rank \in Injection(D, 1 .. n)
  BY <1>2, <1>4 DEF Injection, IsInjective
<1>7. rank \in Surjection(D, 1 .. n)
  BY <1>5, <1>6, FS_Injection
<1>8. \A i \in 1 .. n : \E x \in D : rank[x] = i
  BY <1>7 DEF Surjection
<1> DEFINE s == [i \in 1 .. n |-> CHOOSE x \in D : rank[x] = i]
<1>9. s \in [1 .. n -> D] /\ \A i \in 1 .. n : rank[s[i]] = i
  BY <1>8
<1> HIDE DEF s, n
<1>10. Ascending(s)
  <2> SUFFICES ASSUME NEW i \in 1 .. n, NEW j \in 1 .. n, i < j PROVE s[i] < s[j]
    BY <1>9 DEF Ascending
  <2>1. s[i] \in D /\ s[j] \in D /\ rank[s[i]] = i /\ rank[s[j]] = j
    BY <1>9
  <2>2. i # j /\ ~ (j < i)
    BY <1>1
  <2>3. s[i] # s[j] /\ ~ (s[j] < s[i])
    BY <1>3, <2>1, <2>2
  <2>4. s[i] \in Nat /\ s[j] \in Nat
    BY <2>1
  <2> QED  BY <2>3, <2>4
<1> QED  BY <1>9, <1>10 DEF IsListing, n

\* A listing has every name of the directory, each at its rank.
LEMMA PlaceIsRank ==
  ASSUME NEW D \in SUBSET Nat, IsFiniteSet(D), NEW s, IsListing(s, D)
  PROVE  /\ Cardinality(D) \in Nat /\ s \in Seq(D) /\ Len(s) = Cardinality(D)
         /\ \A i \in 1 .. Len(s) : s[i] \in D /\ Rank(D, s[i]) = i
         /\ \A x \in D : Rank(D, x) \in 1 .. Len(s) /\ s[Rank(D, x)] = x
<1> DEFINE n == Cardinality(D)
<1>1. n \in Nat
  BY FS_CardinalityType
<1>2. s \in [1 .. n -> D] /\ \A i, j \in 1 .. n : i < j => s[i] < s[j]
  BY DEF IsListing, Ascending
<1>3. IsFiniteSet(1 .. n) /\ Cardinality(1 .. n) = n
  <2> HIDE DEF n
  <2> QED  BY <1>1, FS_Interval
<1>4. \A x \in D : \E i \in 1 .. n : s[i] = x
  <2>1. \A i, j \in 1 .. n : s[i] = s[j] => i = j
    <3> HIDE DEF n
    <3> SUFFICES ASSUME NEW i \in 1 .. n, NEW j \in 1 .. n, s[i] = s[j] PROVE i = j
      OBVIOUS
    <3>1. s[i] \in Nat /\ s[j] \in Nat
      BY <1>2
    <3>2. ~ (i < j) /\ ~ (j < i)
      BY <1>2, <3>1
    <3> QED  BY <1>1, <3>2
  <2>2. s \in Injection(1 .. n, D)
    BY <1>2, <2>1 DEF Injection, IsInjective
  <2>3. s \in Surjection(1 .. n, D)
    BY <1>3, <2>2, FS_Injection
  <2> QED  BY <2>3 DEF Surjection
<1>5. ASSUME NEW i \in 1 .. n PROVE Rank(D, s[i]) = i
  <2> DEFINE T == {m \in D : m <= s[i]}
             f == [k \in 1 .. i |-> s[k]]
  <2>0. i \in Nat /\ i <= n /\ \A k \in 1 .. i : k \in 1 .. n
    BY <1>1
  <2>1. \A k \in 1 .. i : s[k] \in T
    <3> SUFFICES ASSUME NEW k \in 1 .. i PROVE s[k] <= s[i]
      BY <1>2, <2>0
    <3>1. k \in 1 .. n /\ (k = i \/ k < i)
      BY <2>0
    <3>2. s[k] \in Nat /\ s[i] \in Nat
      BY <1>2, <3>1
    <3> QED  BY <1>2, <3>1, <3>2
  <2>2. f \in [1 .. i -> T]
    BY <2>1
  <2>3. \A j, k \in 1 .. i : f[j] = f[k] => j = k
    <3> SUFFICES ASSUME NEW j \in 1 .. i, NEW k \in 1 .. i, s[j] = s[k] PROVE j = k
      OBVIOUS
    <3>1. j \in 1 .. n /\ k \in 1 .. n /\ s[j] \in Nat /\ s[k] \in Nat
      BY <1>2, <2>0
    <3>2. ~ (j < k) /\ ~ (k < j)
      BY <1>2, <3>1
    <3> QED  BY <2>0, <3>2
  <2>4. \A m \in T : \E k \in 1 .. i : f[k] = m
    <3> SUFFICES ASSUME NEW m \in D, m <= s[i] PROVE \E k \in 1 .. i : s[k] = m
      OBVIOUS
    <3>1. PICK k \in 1 .. n : s[k] = m
      BY <1>4
    <3>2. ~ (i < k)
      <4> SUFFICES ASSUME i < k PROVE FALSE
        OBVIOUS
      <4>1. s[i] < s[k] /\ s[i] \in Nat /\ s[k] \in Nat
        BY <1>2
      <4> QED  BY <3>1, <4>1
    <3>3. k \in 1 .. i
      BY <2>0, <3>2
    <3> QED  BY <3>1, <3>3
  <2> HIDE DEF f, T
  <2>5. f \in Bijection(1 .. i, T)
    BY <2>2, <2>3, <2>4 DEF Bijection, Injection, Surjection, IsInjective
  <2>6. Cardinality(T) = i
    BY <2>0, <2>5, FS_CountingElements DEF ExistsBijection
  <2> QED  BY <2>6 DEF Rank, T
<1>6. s \in Seq(D) /\ Len(s) = n
  <2> HIDE DEF n
  <2> QED  BY <1>1, <1>2
<1> HIDE DEF n
<1>7. ASSUME NEW x \in D PROVE Rank(D, x) \in 1 .. n /\ s[Rank(D, x)] = x
  <2>1. PICK i \in 1 .. n : s[i] = x
    BY <1>4
  <2> QED  BY <1>5, <2>1
<1> QED  BY <1>1, <1>2, <1>5, <1>6, <1>7 DEF n

LEMMA ListedIs ==
  ASSUME dir \in SUBSET Nat, IsFiniteSet(dir) PROVE IsListing(Listed, dir)
<1>1. \E s \in [1 .. Cardinality(dir) -> dir] : Ascending(s)
  BY ListingExists DEF IsListing
<1> QED  BY <1>1 DEF Listed, Ascending, IsListing

-----------------------------------------------------------------------------
(* A page *)

\* What is left of a listing from an offset on, and the entries of it that a
\* page holds.
Rest(names, o) == SubSeq(names, o + 1, Len(names))
Fit(rest) == IF Len(rest) < Page THEN Len(rest) ELSE Page
PageOf(rest) == SubSeq(rest, 1, Fit(rest))

LEMMA PageIs ==
  ASSUME NEW S, NEW rest \in Seq(S)
  PROVE  /\ Fit(rest) \in Nat /\ Fit(rest) <= Len(rest) /\ (rest # <<>> => Fit(rest) > 0)
         /\ PageOf(rest) \in Seq(S) /\ Len(PageOf(rest)) = Fit(rest)
         /\ \A k \in 1 .. Fit(rest) : PageOf(rest)[k] = rest[k]
<1>1. Len(rest) \in Nat /\ (rest # <<>> => Len(rest) > 0)
  <2>1. Len(rest) \in Nat
    OBVIOUS
  <2> QED  BY <2>1, EmptySeq
<1>2. Fit(rest) \in Nat /\ Fit(rest) <= Len(rest) /\ (rest # <<>> => Fit(rest) > 0)
  BY <1>1 DEF Fit
<1>3. /\ SubSeq(rest, 1, Fit(rest)) \in Seq(S) /\ Len(SubSeq(rest, 1, Fit(rest))) = Fit(rest)
      /\ \A k \in 1 .. Fit(rest) : SubSeq(rest, 1, Fit(rest))[k] = rest[k]
  BY <1>1, <1>2
<1> QED  BY <1>2, <1>3 DEF PageOf

LEMMA RestIs ==
  ASSUME NEW S, NEW names \in Seq(S), NEW o \in Nat
  PROVE  /\ Rest(names, o) \in Seq(S) /\ Len(names) \in Nat
         /\ Rest(names, o) = <<>> <=> Len(names) <= o
         /\ \A k \in 1 .. Len(Rest(names, o)) :
              o + k \in 1 .. Len(names) /\ Rest(names, o)[k] = names[o + k]
<1> DEFINE n == Len(names)
           rest == SubSeq(names, o + 1, n)
<1>1. n \in Nat /\ \A i \in 1 .. n : names[i] \in S
  OBVIOUS
<1>2. CASE n <= o
  <2>1. rest = <<>>
    BY <1>1, <1>2, SubSeqEmpty
  <2> HIDE DEF rest
  <2>2. rest \in Seq(S) /\ Len(rest) = 0
    BY ONLY <2>1, EmptySeq
  <2> QED  BY <1>1, <1>2, <2>1, <2>2 DEF Rest, rest
<1>3. CASE ~ (n <= o)
  <2>1. /\ rest \in Seq(S) /\ Len(rest) = n - o
        /\ \A k \in 1 .. n - o : rest[k] = names[o + k] /\ o + k \in 1 .. n
    BY <1>1, <1>3
  <2> HIDE DEF rest
  <2>2. rest # <<>>
    <3>1. Len(rest) # 0
      BY <1>1, <1>3, <2>1
    <3> QED  BY ONLY <3>1, EmptySeq
  <2> QED  BY <1>1, <1>3, <2>1, <2>2 DEF Rest, rest
<1> QED  BY <1>2, <1>3

\* u is s followed by t, element by element.
Joins(u, s, t) ==
  /\ Len(s) \in Nat /\ Len(t) \in Nat /\ Len(u) = Len(s) + Len(t)
  /\ \A i \in 1 .. Len(s) : u[i] = s[i] /\ s[i] \in Range(s)
  /\ \A k \in 1 .. Len(t) : u[Len(s) + k] = t[k]
  /\ \A i \in 1 .. Len(s) + Len(t) : i \in 1 .. Len(s) \/ i - Len(s) \in 1 .. Len(t)
  /\ Range(s) \subseteq Range(u)
  /\ \A k \in 1 .. Len(t) : t[k] \in Range(u)
  /\ \A x \in Range(u) : x \in Range(s) \/ \E k \in 1 .. Len(t) : x = t[k]

LEMMA RangeOfConcat ==
  ASSUME NEW S, NEW s \in Seq(S), NEW t \in Seq(S)
  PROVE  s \o t \in Seq(S) /\ Joins(s \o t, s, t)
<1> DEFINE u == s \o t
<1>1. /\ u \in Seq(S) /\ Len(s) \in Nat /\ Len(t) \in Nat /\ Len(u) = Len(s) + Len(t)
      /\ \A i \in 1 .. Len(s) + Len(t) : u[i] = IF i <= Len(s) THEN s[i] ELSE t[i - Len(s)]
  BY ConcatProperties
<1> HIDE DEF u
<1>2. \A i \in 1 .. Len(s) : i \in 1 .. Len(u) /\ u[i] = s[i] /\ s[i] \in Range(s)
  BY <1>1 DEF Range
<1>3. \A k \in 1 .. Len(t) : Len(s) + k \in 1 .. Len(u) /\ u[Len(s) + k] = t[k]
  <2> SUFFICES ASSUME NEW k \in 1 .. Len(t)
               PROVE  Len(s) + k \in 1 .. Len(u) /\ u[Len(s) + k] = t[k]
    OBVIOUS
  <2>1. Len(s) + k \in 1 .. Len(s) + Len(t) /\ ~ (Len(s) + k <= Len(s)) /\ (Len(s) + k) - Len(s) = k
    BY <1>1
  <2> QED  BY <1>1, <2>1
<1>4. \A i \in 1 .. Len(s) + Len(t) : i \in 1 .. Len(s) \/ i - Len(s) \in 1 .. Len(t)
  BY <1>1
<1>5. DOMAIN s = 1 .. Len(s) /\ DOMAIN u = 1 .. Len(u)
  BY <1>1
<1>6. Range(s) \subseteq Range(u) /\ \A k \in 1 .. Len(t) : t[k] \in Range(u)
  BY <1>2, <1>3, <1>5 DEF Range
<1>7. \A x \in Range(u) : x \in Range(s) \/ \E k \in 1 .. Len(t) : x = t[k]
  <2> SUFFICES ASSUME NEW i \in 1 .. Len(u)
               PROVE  u[i] \in Range(s) \/ \E k \in 1 .. Len(t) : u[i] = t[k]
    BY <1>5 DEF Range
  <2>1. CASE i \in 1 .. Len(s)
    BY <1>2, <2>1
  <2>2. CASE i - Len(s) \in 1 .. Len(t)
    <3>1. i = Len(s) + (i - Len(s))
      BY <1>1
    <3> QED  BY <1>3, <2>2, <3>1
  <2> QED  BY <1>1, <1>4, <2>1, <2>2
<1> QED  BY <1>1, <1>2, <1>3, <1>4, <1>6, <1>7 DEF Joins, u

\* Names are finitely many numbers, and so are those of any directory.
LEMMA DirectoryIs ==
  ASSUME NEW D \in SUBSET Names PROVE D \in SUBSET Nat /\ IsFiniteSet(D)
<1>1. D \in SUBSET Nat
  OBVIOUS
<1>2. IsFiniteSet(Names)
  OBVIOUS
<1> QED  BY <1>1, <1>2, FS_Subset

\* A page of a snapshot D of the directory is added to those before.
LEMMA PageShown ==
  ASSUME Pages, NEW D \in SUBSET Names, NEW names, IsListing(names, D), Snapshot(D),
         ShowPage(names), dir' = dir
  PROVE  Pages'
<1> DEFINE got == listing.got
           o == listing.offset
           rest == Rest(names, o)
           fit == Fit(rest)
           page == PageOf(rest)
<1>1. /\ dir \in SUBSET Names /\ listing \in Listings
      /\ got \in Seq(Names) /\ o \in Nat /\ listing.still \in SUBSET Names
  BY DEF Pages, Listings
<1>2. /\ D \in SUBSET Nat /\ IsFiniteSet(D) /\ dir \in SUBSET Nat /\ IsFiniteSet(dir)
  BY <1>1, DirectoryIs
<1>3. /\ names \in Seq(D)
      /\ \A i \in 1 .. Len(names) : names[i] \in D /\ Rank(D, names[i]) = i
      /\ \A x \in D : Rank(D, x) \in 1 .. Len(names) /\ names[Rank(D, x)] = x
  BY <1>2, PlaceIsRank
<1>4. listing' = [listing EXCEPT !.offset = o + fit, !.got = got \o page, !.ended = (rest = <<>>)]
  BY DEF ShowPage, Advance, Rest, Fit, PageOf
<1>5. /\ fit \in Nat /\ page \in Seq(D) /\ Len(page) = fit
      /\ \A k \in 1 .. fit : o + k \in 1 .. Len(names) /\ page[k] = names[o + k]
      /\ rest = <<>> => Len(names) <= o /\ fit = 0
  <2>1. /\ rest \in Seq(D) /\ Len(names) \in Nat /\ (rest = <<>> <=> Len(names) <= o)
        /\ \A k \in 1 .. Len(rest) : o + k \in 1 .. Len(names) /\ rest[k] = names[o + k]
    BY <1>1, <1>3, RestIs
  <2> HIDE DEF rest
  <2>2. /\ fit \in Nat /\ fit <= Len(rest) /\ page \in Seq(D) /\ Len(page) = fit
        /\ \A k \in 1 .. fit : page[k] = rest[k]
    BY <2>1, PageIs
  <2> HIDE DEF fit, page, o
  <2>3. Len(rest) \in Nat
    BY <2>1
  <2>4. \A k \in 1 .. fit : k \in 1 .. Len(rest)
    BY <2>2, <2>3
  <2>5. rest = <<>> => Len(rest) = 0
    BY ONLY EmptySeq
  <2>6. rest = <<>> => fit = 0
    BY <2>2, <2>5
  <2> QED  BY <2>1, <2>2, <2>4, <2>6
<1> HIDE DEF page, fit, rest
<1>6. page \in Seq(Names)
  <2>1. PICK S : S = Names
    OBVIOUS
  <2>2. page \in Seq(D) /\ D \subseteq S
    BY <1>5, <2>1
  <2>3. page \in Seq(S)
    BY ONLY <2>2, SeqOfMore
  <2> QED  BY <2>1, <2>3
<1> HIDE DEF got, o
<1>7. /\ listing' \in Listings /\ listing'.got = got \o page /\ listing'.offset = o + fit
      /\ listing'.ended = (rest = <<>>)
      /\ listing'.still = listing.still
      /\ listing'.removals = listing.removals /\ listing'.insertions = listing.insertions
  <2>1. got \o page \in Seq(Names) /\ o + fit \in Nat
    BY <1>1, <1>5, <1>6, ConcatProperties
  <2> QED  BY <1>1, <1>4, <2>1 DEF Listings
<1>8. /\ Len(got) \in Nat
      /\ got \o page \in Seq(Names) /\ Len(got \o page) = Len(got) + fit
      /\ \A i \in 1 .. Len(got) : (got \o page)[i] = got[i] /\ got[i] \in Range(got)
      /\ \A k \in 1 .. fit : (got \o page)[Len(got) + k] = page[k]
      /\ \A i \in 1 .. Len(got) + fit : i \in 1 .. Len(got) \/ i - Len(got) \in 1 .. fit
      /\ Range(got) \subseteq Range(got \o page)
      /\ \A k \in 1 .. fit : page[k] \in Range(got \o page)
      /\ \A x \in Range(got \o page) : x \in Range(got) \/ \E k \in 1 .. fit : x = page[k]
  <2>1. PICK S : S = Names
    OBVIOUS
  <2>2. got \in Seq(S) /\ page \in Seq(S) /\ Len(page) = fit
    BY <1>1, <1>5, <1>6, <2>1
  <2>3. got \o page \in Seq(S) /\ Joins(got \o page, got, page)
    BY ONLY <2>2, RangeOfConcat
  <2> QED  BY ONLY <2>1, <2>2, <2>3 DEF Joins
<1>9. /\ ~ listing.removals =>
           /\ listing.still \subseteq D /\ D \subseteq dir
           /\ \A x \in listing.still : Rank(D, x) <= o => x \in Range(got)
      /\ ~ listing.insertions =>
           /\ dir \subseteq D
           /\ \A x \in Range(got) \cap D : Rank(D, x) <= o
  BY DEF Snapshot, SplitsAt, got, o
<1>10. ASSUME NEW k \in 1 .. fit PROVE page[k] \in D /\ Rank(D, page[k]) = o + k
  BY <1>3, <1>5
<1>11. ASSUME ~ listing.removals, NEW x \in listing.still, Rank(dir, x) <= o + fit
       PROVE  x \in Range(got \o page)
  <2>1. x \in D /\ x \in Nat /\ D \in SUBSET dir
    BY <1>2, <1>9, <1>11
  <2>2. Rank(D, x) <= Rank(dir, x) /\ Rank(D, x) \in Nat /\ Rank(dir, x) \in Nat
    BY <1>2, <2>1, RankGrows, RankIs
  <2>3. CASE Rank(D, x) <= o
    BY <1>8, <1>9, <1>11, <2>3
  <2>4. CASE Rank(D, x) > o
    <3>1. PICK k \in 1 .. fit : Rank(D, x) = o + k
      <4>1. Rank(D, x) - o \in 1 .. fit /\ Rank(D, x) = o + (Rank(D, x) - o)
        BY <1>1, <1>5, <1>11, <2>2, <2>4
      <4> QED  BY <4>1
    <3>2. page[k] = x
      BY <1>3, <1>5, <2>1, <3>1
    <3> QED  BY <1>8, <3>2
  <2> QED  BY <1>1, <2>2, <2>3, <2>4
<1>12. ASSUME ~ listing.insertions, NEW x \in Range(got \o page) \cap dir
       PROVE  Rank(dir, x) <= o + fit
  <2>1. dir \in SUBSET D /\ x \in D /\ x \in Nat
    BY <1>2, <1>9, <1>12
  <2>2. Rank(dir, x) <= Rank(D, x) /\ Rank(D, x) \in Nat /\ Rank(dir, x) \in Nat
    BY <1>2, <2>1, RankGrows, RankIs
  <2>3. Rank(D, x) <= o + fit
    <3>1. CASE x \in Range(got)
      <4>1. Rank(D, x) <= o
        BY <1>9, <1>12, <2>1, <3>1
      <4> QED  BY <1>1, <1>5, <2>2, <4>1
    <3>2. CASE \E k \in 1 .. fit : x = page[k]
      <4>1. PICK k \in 1 .. fit : x = page[k]
        BY <3>2
      <4>2. Rank(D, x) = o + k
        BY <1>10, <4>1
      <4> QED  BY <1>1, <1>5, <4>2
    <3> QED  BY <1>8, <1>12, <3>1, <3>2
  <2> QED  BY <1>1, <1>5, <2>2, <2>3
<1>13. ASSUME ~ listing.insertions PROVE IsInjective(got \o page)
  <2> DEFINE u == got \o page
  <2>1. \A i, j \in 1 .. Len(got) : u[i] = u[j] => i = j
    <3>1. IsInjective(got) /\ DOMAIN got = 1 .. Len(got)
      BY <1>1, <1>13 DEF Pages, got
    <3> QED  BY <1>8, <3>1 DEF IsInjective
  <2>2. \A i \in 1 .. Len(got), k \in 1 .. fit : u[i] # u[Len(got) + k]
    <3> SUFFICES ASSUME NEW i \in 1 .. Len(got), NEW k \in 1 .. fit, got[i] = page[k] PROVE FALSE
      BY <1>8
    <3>1. page[k] \in Range(got) \cap D /\ Rank(D, page[k]) = o + k
      BY <1>8, <1>10
    <3>2. o + k <= o
      BY <1>9, <1>13, <3>1
    <3> QED  BY <1>1, <1>5, <3>2
  <2>3. \A k, l \in 1 .. fit : u[Len(got) + k] = u[Len(got) + l] => k = l
    <3>1. \A k \in 1 .. fit : u[Len(got) + k] = page[k]
      BY <1>8
    <3> HIDE DEF u
    <3> SUFFICES ASSUME NEW k \in 1 .. fit, NEW l \in 1 .. fit, page[k] = page[l] PROVE k = l
      BY <3>1
    <3>2. o + k = o + l
      BY <1>10
    <3> QED  BY <1>1, <1>5, <3>2
  <2>4. DOMAIN u = 1 .. Len(got) + fit
    BY <1>8
  <2> SUFFICES ASSUME NEW i \in 1 .. Len(got) + fit, NEW j \in 1 .. Len(got) + fit, u[i] = u[j]
               PROVE  i = j
    BY <2>4 DEF IsInjective
  <2>5. /\ i \in 1 .. Len(got) \/ \E k \in 1 .. fit : i = Len(got) + k
        /\ j \in 1 .. Len(got) \/ \E k \in 1 .. fit : j = Len(got) + k
    <3>1. i = Len(got) + (i - Len(got)) /\ j = Len(got) + (j - Len(got))
      BY <1>8
    <3> QED  BY <1>8, <3>1
  <2> HIDE DEF u
  <2> QED  BY <2>1, <2>2, <2>3, <2>5
<1>14. ASSUME rest = <<>>, ~ listing.removals PROVE listing.still \subseteq Range(got \o page)
  <2> SUFFICES ASSUME NEW x \in listing.still PROVE x \in Range(got \o page)
    OBVIOUS
  <2>1. Rank(D, x) \in 1 .. Len(names)
    BY <1>3, <1>9, <1>14
  <2>2. Len(names) \in Nat /\ Len(names) <= o
    BY <1>3, <1>5, <1>14
  <2>3. Rank(D, x) <= o
    BY <1>1, <2>1, <2>2
  <2> QED  BY <1>8, <1>9, <1>14, <2>3
<1>15. Snapshot(dir)'
  <2>1. SplitsAt(dir)'
    BY <1>7, <1>11, <1>12 DEF SplitsAt
  <2>2. ~ listing.removals => listing.still \subseteq dir
    BY <1>9
  <2> QED  BY <1>7, <2>1, <2>2 DEF Snapshot
<1>16. ListingIsComplete'
  BY <1>7, <1>13, <1>14 DEF ListingIsComplete
<1> QED  BY <1>1, <1>7, <1>13, <1>15, <1>16 DEF Pages

-----------------------------------------------------------------------------
(* The steps of a listing *)

LEMMA SnapshotStays ==
  ASSUME UNCHANGED <<dir, listing>>
  PROVE  /\ Pages => Pages'
         /\ \A D \in SUBSET Names : Snapshot(D) => Snapshot(D)'
<1>1. \A D \in SUBSET Names : Snapshot(D) => Snapshot(D)'
  BY DEF Snapshot, SplitsAt
<1>2. Snapshot(dir) => Snapshot(dir)'
  BY DEF Snapshot, SplitsAt
<1> QED  BY <1>1, <1>2 DEF Pages, ListingIsComplete

\* What has been a snapshot remains one when the directory changes.
LEMMA Changes ==
  ASSUME Pages, NEW new \in SUBSET Names, Change(new)
  PROVE  /\ Pages'
         /\ \A D \in SUBSET Names : Snapshot(D) => Snapshot(D)'
<1>1. /\ dir \in SUBSET Names /\ listing \in Listings /\ dir' = new
      /\ listing' = [listing EXCEPT !.still = @ \cap new,
                                    !.removals = @ \/ ~ (dir \subseteq new),
                                    !.insertions = @ \/ ~ (new \subseteq dir)]
  BY DEF Pages, Change
<1>2. /\ listing' \in Listings /\ listing'.got = listing.got /\ listing'.offset = listing.offset
      /\ listing'.ended = listing.ended /\ listing'.still = listing.still \cap new
      /\ ~ listing'.removals => ~ listing.removals /\ dir \subseteq new
      /\ ~ listing'.insertions => ~ listing.insertions /\ new \subseteq dir
  BY <1>1 DEF Listings
<1>3. ASSUME NEW D \in SUBSET Names, Snapshot(D) PROVE Snapshot(D)'
  BY <1>1, <1>2, <1>3 DEF Snapshot, SplitsAt
<1>4. /\ dir \in SUBSET Nat /\ IsFiniteSet(dir) /\ new \in SUBSET Nat /\ IsFiniteSet(new)
      /\ listing.still \in SUBSET Nat /\ listing.offset \in Nat
  BY <1>1, DirectoryIs DEF Listings
<1>5. ASSUME ~ listing'.removals, NEW x \in listing'.still, Rank(new, x) <= listing'.offset
      PROVE  x \in Range(listing'.got)
  <2>1. Rank(dir, x) <= Rank(new, x) /\ Rank(dir, x) \in Nat /\ Rank(new, x) \in Nat
    BY <1>2, <1>4, <1>5, RankGrows, RankIs
  <2>2. Rank(dir, x) <= listing.offset
    BY <1>2, <1>4, <1>5, <2>1
  <2> QED  BY <1>2, <1>5, <2>2 DEF Pages, Snapshot, SplitsAt
<1>6. ASSUME ~ listing'.insertions, NEW x \in Range(listing'.got) \cap new
      PROVE  Rank(new, x) <= listing'.offset
  <2>1. x \in dir /\ x \in Nat
    BY <1>2, <1>4, <1>6
  <2>2. Rank(new, x) <= Rank(dir, x) /\ Rank(dir, x) \in Nat /\ Rank(new, x) \in Nat
    BY <1>2, <1>4, <1>6, <2>1, RankGrows, RankIs
  <2>3. Rank(dir, x) <= listing.offset
    BY <1>2, <1>6, <2>1 DEF Pages, Snapshot, SplitsAt
  <2> QED  BY <1>2, <1>4, <2>2, <2>3
<1>7. Snapshot(dir)'
  <2>1. SplitsAt(dir)'
    BY <1>1, <1>5, <1>6 DEF SplitsAt
  <2> QED  BY <1>1, <1>2, <2>1 DEF Snapshot
<1>8. ListingIsComplete'
  BY <1>2 DEF Pages, ListingIsComplete
<1>9. ~ listing'.insertions => IsInjective(listing'.got)
  BY <1>2 DEF Pages
<1> QED  BY <1>1, <1>2, <1>3, <1>7, <1>8, <1>9 DEF Pages

\* No page is on its way, or none but those that were, in the same directory.
LEMMA NothingNew ==
  ASSUME ListingInv, oversized' = oversized, call'.kind \in {call.kind, "none"}, Held' \subseteq Held,
         \A D \in SUBSET Names : Snapshot(D) => Snapshot(D)'
  PROVE  PageIsSnapshot'
<1>1. CASE call'.kind = "readdir" /\ ~ oversized
  <2>1. call.kind = "readdir"
    BY <1>1
  <2>2. ASSUME NEW w \in Held', IsPage(w)
        PROVE  \E D \in SUBSET Names : IsListing(w.names, D) /\ Snapshot(D)'
    <3>1. PICK D \in SUBSET Names : IsListing(w.names, D) /\ Snapshot(D)
      BY <1>1, <2>1, <2>2 DEF ListingInv, PageIsSnapshot
    <3> QED  BY <3>1
  <2> QED  BY <2>2 DEF PageIsSnapshot, IsPage, IsListing, Ascending
<1>2. CASE ~ (call'.kind = "readdir" /\ ~ oversized)
  BY <1>2 DEF PageIsSnapshot
<1> QED  BY <1>1, <1>2

\* The host reads the directory: the page that sets out is of the directory as
\* it is now.
LEMMA HandleLists ==
  ASSUME ListingInv, Handle PROVE (ListsOnly /\ Pages /\ PageIsSnapshot)'
<1> DEFINE r == Head(requests)
<1>1. /\ ~ oversized /\ Awaited /\ call \in RequestCalls /\ words = <<>>
      /\ call.pc = "length" /\ dir \in SUBSET Names
  BY HandleAwaits DEF Handle, ListingInv, IInv, Types, Awaited, Pages
<1>2. r.op = Head(call.ops) /\ r.name = call.name
  <2> DEFINE q == [id |-> next_id - 1, op |-> Head(call.ops), name |-> call.name]
  <2>1. requests = <<q>>
    BY <1>1 DEF Awaited
  <2>2. q.op = Head(call.ops) /\ q.name = call.name
    OBVIOUS
  <2> HIDE DEF q
  <2> QED  BY <2>1, <2>2, Tuples
<1>3. PICK ok \in BOOLEAN :
        /\ Dispatch(r, ok)
        /\ unsent' = Frame(Size(r, ok), r, ok)
        /\ oversized' = (oversized \/ Size(r, ok) = Huge)
        /\ call' \in {call, [call EXCEPT !.done = Append(@, r.op)]}
        /\ words' = words
  BY DEF Handle
<1> HIDE DEF r
<1>4. call'.kind = call.kind /\ call'.ops = call.ops /\ call'.name = call.name /\ call'.pc = call.pc
  BY <1>1, <1>3 DEF RequestCalls
<1>5. ListsOnly'
  BY <1>4 DEF ListingInv, ListsOnly
<1>6. PICK new \in SUBSET Names : Change(new) /\ (r.op = "readdir" => new = dir)
  <2>1. Change(CASE ok /\ r.op = "symlink" -> dir \cup {r.name}
                 [] ok /\ r.op = "unlink"  -> dir \ {r.name}
                 [] OTHER -> dir)
    BY <1>3 DEF Dispatch
  <2>2. CASE ok /\ r.op = "symlink"
    <3>1. r.name \in Names
      <4> SUFFICES ASSUME r.name \notin Names PROVE FALSE
        OBVIOUS
      <4>1. call.ops = <<"readdir">>
        BY <1>1, <1>2 DEF ListingInv, ListsOnly
      <4> QED  BY <1>2, <2>2, <4>1, Tuples
    <3> QED  BY <1>1, <2>1, <2>2, <3>1
  <2>3. CASE ok /\ r.op = "unlink"
    BY <1>1, <2>1, <2>3
  <2>4. CASE ~ ok \/ r.op \notin {"symlink", "unlink"}
    BY <1>1, <2>1, <2>4
  <2> QED  BY <2>2, <2>3, <2>4
<1>7. Pages' /\ \A D \in SUBSET Names : Snapshot(D) => Snapshot(D)'
  BY <1>6, Changes DEF ListingInv
<1>8. PageIsSnapshot'
  <2> SUFFICES ASSUME ~ oversized', call'.kind = "readdir", NEW w \in Held', IsPage(w)
               PROVE  \E D \in SUBSET Names : IsListing(w.names, D) /\ Snapshot(D)'
    BY DEF PageIsSnapshot, IsPage, IsListing, Ascending
  <2>1. call.kind = "readdir" /\ call.ops = <<"readdir">>
    BY <1>1, <1>4 DEF ListingInv, ListsOnly
  <2>2. r.op = "readdir"
    BY <1>2, <2>1, Tuples
  <2>3. PICK n \in Nat : n = Size(r, ok)
    BY DEF Size
  <2> DEFINE names == IF r.op = "readdir" /\ ok THEN Listed ELSE <<>>
  <2>4. IsResponse(Frame(n, r, ok), n, r.id, ok, names)
    BY FrameIs
  <2>5. PICK length :
          /\ length.ok = ok /\ length.names = names
          /\ unsent' \in Seq({length, Text})
    <3> HIDE DEF names
    <3>1. IsResponse(unsent', n, r.id, ok, names)
      BY <1>3, <2>3, <2>4
    <3> QED  BY ONLY <3>1 DEF IsResponse
  <2>6. w = length
    <3>1. words' \in Seq({length, Text})
      BY <1>1, <1>3
    <3>2. Held' \subseteq {length, Text}
      BY <2>5, <3>1, Holds
    <3>3. w # Text
      BY DEF IsPage, Text
    <3> QED  BY <3>2, <3>3
  <2>7. w.names = Listed
    BY <2>2, <2>5, <2>6 DEF IsPage
  <2>8. IsListing(Listed, dir)
    BY <1>1, DirectoryIs, ListedIs
  <2>9. PICK D : D = dir
    OBVIOUS
  <2>10. D \in SUBSET Names /\ Snapshot(D) /\ IsListing(w.names, D)
    BY <1>1, <2>7, <2>8, <2>9 DEF ListingInv, Pages, Snapshot, SplitsAt
  <2> QED  BY <1>7, <2>10
<1> QED  BY <1>5, <1>7, <1>8

\* A request goes on, or ends.
LEMMA ListsOnlyStays ==
  ASSUME ListsOnly,
         \/ call' = NoCall
         \/ /\ call'.kind = call.kind /\ call'.name = call.name /\ call.pc # "idle"
            /\ call'.ops = call.ops \/ Len(call.ops) > 1
  PROVE  ListsOnly'
<1>1. CASE call' = NoCall
  BY <1>1, NoCallIs DEF ListsOnly
<1>2. CASE call' # NoCall
  <2> SUFFICES ASSUME call'.kind = "readdir" \/ call'.name \notin Names
               PROVE  call'.ops = <<"readdir">>
    BY DEF ListsOnly
  <2>1. call.ops = <<"readdir">> /\ (call'.ops = call.ops \/ Len(call.ops) > 1)
    BY <1>2 DEF ListsOnly
  <2>2. Len(call.ops) = 1
    BY <2>1, Tuples
  <2>3. ~ (Len(call.ops) > 1)
    BY ONLY <2>2
  <2> QED  BY <2>1, <2>3
<1> QED  BY <1>1, <1>2

\* apc-fuse reads a page.
LEMMA RecvTextLists ==
  ASSUME ListingInv, RecvText PROVE (ListsOnly /\ Pages /\ PageIsSnapshot)'
<1>1. /\ call.pc = "text" /\ Len(words) > 1 /\ words' = SubSeq(words, 3, Len(words))
      /\ UNCHANGED <<dir, unsent, oversized>>
      /\ call \in RequestCalls /\ call.ops # <<>>
      /\ ListsOnly /\ Pages /\ PageIsSnapshot
  BY DEF RecvText, ListingInv, IInv, Types, CallIs
<1>2. ~ oversized
  BY <1>1 DEF ListingInv, IInv, OutOfStep
<1>3. PICK length \in Held : Responded(length)
  BY <1>1, <1>2 DEF ListingInv, IInv, InStep
<1>4. words = <<length, Text>> /\ unsent = <<>>
  <2>1. words # <<length>>
    <3> SUFFICES ASSUME words = <<length>> PROVE FALSE
      OBVIOUS
    <3>1. Len(words) = 1
      BY Tuples
    <3>2. Len(words) > 1
      BY <1>1
    <3> QED  BY ONLY <3>1, <3>2
  <2> QED  BY <1>1, <1>3, <2>1 DEF Responded
<1>5. Head(words) = length /\ words' = <<>> /\ unsent' = <<>>
  BY <1>1, <1>4, Tuples
<1>6. Held' = {}
  BY <1>5 DEF Held
<1>7. PageIsSnapshot'
  BY <1>6 DEF PageIsSnapshot
<1>8. ListsOnly'
  <2>1. \/ call' = NoCall
        \/ call'.kind = call.kind /\ call'.name = call.name /\ Len(call.ops) > 1
    BY <1>1, <1>5 DEF RecvText, NextOperation, RpcFails, Answer, RequestCalls
  <2> QED  BY <1>1, <2>1, ListsOnlyStays
<1>9. CASE length.ok /\ call.kind = "readdir"
  <2>1. ShowPage(length.names)
    BY <1>5, <1>9 DEF RecvText
  <2>2. PICK D \in SUBSET Names : IsListing(length.names, D) /\ Snapshot(D)
    BY <1>1, <1>2, <1>3, <1>9 DEF PageIsSnapshot, IsPage, Responded
  <2>3. Pages'
    BY <1>1, <2>1, <2>2, PageShown
  <2> QED  BY <1>7, <1>8, <2>3
<1>10. CASE ~ (length.ok /\ call.kind = "readdir")
  <2>1. listing' = listing
    BY <1>5, <1>10 DEF RecvText
  <2> QED  BY <1>1, <1>7, <1>8, <2>1, SnapshotStays
<1> QED  BY <1>9, <1>10

LEMMA BeginLists ==
  ASSUME ListingInv, NEW kind, NEW name, kind = "readdir" \/ name \in Names,
         Begin(kind, name)
  PROVE  (ListsOnly /\ Pages /\ PageIsSnapshot)'
<1>1. /\ call.pc = "idle" /\ UNCHANGED <<dir, socket, listing>> /\ Held' = Held
  BY HoldsTheSame DEF Begin, socket
<1>2. PICK ops \in Operations(kind) :
        call' = [NoCall EXCEPT !.pc = "send", !.kind = kind, !.name = name, !.ops = ops,
                               !.asked = ops]
  BY DEF Begin
<1>3. call'.kind = kind /\ call'.ops = ops /\ call'.name = name
  BY <1>2 DEF NoCall
<1>4. ListsOnly'
  BY <1>3 DEF ListsOnly, Operations
<1>5. ~ oversized => Held = {}
  BY <1>1 DEF ListingInv, IInv, InStep, Clear, Held
<1>6. PageIsSnapshot'
  BY <1>1, <1>5 DEF PageIsSnapshot, socket
<1> QED  BY <1>1, <1>4, <1>6, SnapshotStays DEF ListingInv

LEMMA SendLists ==
  ASSUME ListingInv, Send \/ RecvLength \/ WriteResponse \/ UNCHANGED vars
  PROVE  (ListsOnly /\ Pages /\ PageIsSnapshot)'
<1>1. /\ UNCHANGED <<dir, listing, oversized>> /\ call \in RequestCalls
      /\ ListsOnly /\ Pages /\ words \in Seq(Held) /\ unsent \in Seq(Held)
  BY DEF Send, RecvLength, WriteResponse, vars, socket, ListingInv, IInv, Types
<1>2. Held' \subseteq Held
  <2>1. CASE UNCHANGED <<words, unsent>>
    BY <2>1, HoldsTheSame
  <2>2. CASE words # <<>> /\ words' = Tail(words) /\ unsent' = unsent
    <3>1. Tail(words) \in Seq(Held)
      BY <1>1, <2>2, TailIs
    <3> QED  BY <1>1, <2>2, <3>1, Holds
  <2>3. CASE unsent # <<>> /\ words' = Append(words, Head(unsent)) /\ unsent' = Tail(unsent)
    <3>1. Head(unsent) \in Held /\ Tail(unsent) \in Seq(Held)
      BY <1>1, <2>3, TailIs
    <3>2. words' \in Seq(Held)
      BY <1>1, <2>3, <3>1, AppendIs
    <3> QED  BY <2>3, <3>1, <3>2, Holds
  <2> QED  BY <2>1, <2>2, <2>3 DEF Send, RecvLength, WriteResponse, vars, socket
<1>3. \/ call' = call \/ call' = NoCall
      \/ /\ call'.kind = call.kind /\ call'.name = call.name /\ call.pc # "idle"
         /\ call'.ops = call.ops \/ Len(call.ops) > 1
  BY <1>1
     DEF Send, Write, RecvLength, WriteResponse, vars, RpcFails, NextOperation, Answer, RequestCalls
<1>4. ListsOnly'
  <2>1. CASE call' = call
    BY <1>1, <2>1 DEF ListsOnly
  <2> QED  BY <1>1, <1>3, <2>1, ListsOnlyStays
<1>5. Pages' /\ \A D \in SUBSET Names : Snapshot(D) => Snapshot(D)'
  BY <1>1, SnapshotStays
<1>6. PageIsSnapshot'
  BY <1>1, <1>2, <1>3, <1>5, NoCallIs, NothingNew
<1> QED  BY <1>4, <1>5, <1>6

\* A program of the guest opens or closes the directory between two calls.
LEMMA OpenLists ==
  ASSUME ListingInv, OpenDir \/ ReleaseDir PROVE (ListsOnly /\ Pages /\ PageIsSnapshot)'
<1>1. /\ call.pc = "idle" /\ UNCHANGED <<dir, call>>
      /\ call.kind = "none" /\ dir \in SUBSET Names
      /\ listing' \in {NoListing, [NoListing EXCEPT !.open = TRUE, !.still = dir]}
  BY NoCallIs DEF OpenDir, ReleaseDir, ListingInv, IInv, CallIs, Pages
<1>2. ListsOnly' /\ PageIsSnapshot'
  BY <1>1 DEF ListsOnly, PageIsSnapshot
<1>3. /\ listing' \in Listings /\ listing'.got = <<>> /\ listing'.offset = 0
      /\ listing'.still \subseteq dir /\ ~ listing'.ended
  <2>1. PICK open \in BOOLEAN, still \in SUBSET Names :
          /\ still \subseteq dir
          /\ listing' = [open |-> open, ended |-> FALSE, offset |-> 0, got |-> <<>>,
                         still |-> still, removals |-> FALSE, insertions |-> FALSE]
    BY <1>1 DEF NoListing
  <2>2. <<>> \in Seq(Names)
    OBVIOUS
  <2> QED  BY <2>1, <2>2 DEF Listings
<1>4. Range(listing'.got) = {} /\ IsInjective(listing'.got)
  BY <1>3 DEF Range, IsInjective
<1>5. SplitsAt(dir)'
  <2>1. ASSUME NEW x \in listing'.still PROVE ~ (Rank(dir, x) <= 0)
    <3>1. x \in dir /\ x \in Nat /\ dir \in SUBSET Nat /\ IsFiniteSet(dir)
      BY <1>1, <1>3, <2>1, DirectoryIs
    <3>2. Rank(dir, x) >= 1 /\ Rank(dir, x) \in Nat
      BY <3>1, RankIs
    <3> QED  BY <3>2
  <2> QED  BY <1>1, <1>3, <1>4, <2>1 DEF SplitsAt
<1>6. Snapshot(dir)' /\ ListingIsComplete'
  BY <1>1, <1>3, <1>5 DEF Snapshot, ListingIsComplete
<1> QED  BY <1>1, <1>2, <1>3, <1>4, <1>6 DEF Pages

LEMMA HostEditsLists ==
  ASSUME ListingInv, HostEdits PROVE (ListsOnly /\ Pages /\ PageIsSnapshot)'
<1>1. PICK new \in SUBSET Names : Change(new)
  BY DEF HostEdits, ListingInv, Pages
<1>2. Pages' /\ \A D \in SUBSET Names : Snapshot(D) => Snapshot(D)'
  BY <1>1, Changes DEF ListingInv
<1>3. UNCHANGED <<call, oversized>> /\ Held' = Held
  BY HoldsTheSame DEF HostEdits, socket
<1>4. PageIsSnapshot'
  BY <1>2, <1>3, NothingNew
<1>5. ListsOnly'
  BY <1>3 DEF ListingInv, ListsOnly
<1> QED  BY <1>2, <1>4, <1>5

LEMMA InitListingInv ==
  ASSUME Init PROVE ListingInv
<1>1. IInv
  BY InitIInv
<1>2. /\ dir \in SUBSET Names /\ call = NoCall /\ listing = NoListing
  BY DEF Init
<1>3. ListsOnly /\ PageIsSnapshot
  BY <1>2, NoCallIs DEF ListsOnly, PageIsSnapshot
<1>4. /\ listing \in Listings /\ listing.got = <<>> /\ listing.still = {} /\ ~ listing.ended
  BY <1>2 DEF NoListing, Listings
<1>5. Range(listing.got) = {} /\ IsInjective(listing.got)
  BY <1>4 DEF Range, IsInjective
<1>6. Snapshot(dir) /\ ListingIsComplete
  BY <1>4, <1>5 DEF Snapshot, SplitsAt, ListingIsComplete
<1> QED  BY <1>1, <1>2, <1>3, <1>4, <1>5, <1>6 DEF ListingInv, Pages

LEMMA NextListingInv ==
  ASSUME ListingInv, [Next]_vars PROVE ListingInv'
<1>1. IInv'
  BY NextIInv DEF ListingInv
<1>2. ASSUME NEW kind \in Kinds, NEW n \in Names, Begin(kind, n)
      PROVE  (ListsOnly /\ Pages /\ PageIsSnapshot)'
  <2>1. kind # "readdir"
    BY DEF Kinds
  <2> QED  BY <1>2, <2>1, BeginLists
<1>3. CASE ReadDir
  <2>1. Begin("readdir", 0)
    BY <1>3 DEF ReadDir
  <2> QED  BY <1>1, <2>1, BeginLists DEF ListingInv
<1>4. CASE OpenDir \/ ReleaseDir
  BY <1>1, <1>4, OpenLists DEF ListingInv
<1>5. CASE Send \/ RecvLength \/ WriteResponse \/ UNCHANGED vars
  BY <1>1, <1>5, SendLists DEF ListingInv
<1>6. CASE RecvText
  BY <1>1, <1>6, RecvTextLists DEF ListingInv
<1>7. CASE Handle
  BY <1>1, <1>7, HandleLists DEF ListingInv
<1>8. CASE HostEdits
  BY <1>1, <1>8, HostEditsLists DEF ListingInv
<1> QED
  BY <1>1, <1>2, <1>3, <1>4, <1>5, <1>6, <1>7, <1>8 DEF ListingInv, Next, GuestStep, ServerStep

\* Whatever the directory and the size of a page, and however programs of the
\* guest and of the host change the one between two of the other: a file that
\* stays is missing from a listing only if another was removed meanwhile, and
\* is in it twice only if another was added.
THEOREM ListingsAreComplete == Spec => []ListingIsComplete
<1>1. Spec => []ListingInv
  BY InitListingInv, NextListingInv, PTL DEF Spec
<1>2. ListingInv => ListingIsComplete
  BY DEF ListingInv, Pages
<1> QED  BY <1>1, <1>2, PTL

-----------------------------------------------------------------------------
(* What EveryCallEnds rests on *)

\* The guards of GuestStep and ServerStep.
GuestCanMove ==
  \/ call.pc = "send" /\ Len(requests) < Buffer
  \/ call.pc = "length" /\ words # <<>>
  \/ call.pc = "text" /\ Len(words) > 1

ServerCanMove ==
  \/ unsent = <<>> /\ requests # <<>>
  \/ unsent # <<>> /\ Len(words) < Buffer

\* The steps the two processes take before the call ends. An operation takes six:
\* send it, handle it, write the two words of its response, read the length, read
\* the text.
Later == 6 * (Len(call.ops) - 1)
Owed == 3 * Len(requests) + Len(unsent)

StepsLeft ==
  IF call.pc = "idle" THEN 0
  ELSE Later + (IF call.pc = "send" THEN 6
                ELSE (IF call.pc = "length" THEN 2 ELSE 1) + Owed)

\* FsConnection::rpc and handle_client: while a call is in step, one of the guest
\* and the server can act; they never wait for each other.
SomebodyCanMove == call.pc # "idle" /\ ~ oversized => GuestCanMove \/ ServerCanMove

\* Each step of either process brings the end of the call nearer, and no other
\* step moves it away: a call that stays in step ends after at most six of theirs
\* for each of its operations.
EveryStepCounts ==
  [][call.pc # "idle" /\ ~ oversized' =>
       StepsLeft' < StepsLeft \/ UNCHANGED <<call, socket>>]_vars

LEMMA CallCanGoOn ==
  ASSUME IInv, call.pc # "idle", ~ oversized PROVE GuestCanMove \/ ServerCanMove
<1>1. InStep /\ call \in RequestCalls /\ Buffer > 1 /\ Buffer \in Nat
  BY DEF IInv, Types
<1>2. CASE call.pc = "send" /\ Clear
  <2>1. Len(requests) = 0
    BY <1>2 DEF Clear
  <2> QED  BY <1>1, <1>2, <2>1 DEF GuestCanMove
<1>3. CASE Awaited
  BY <1>3, Tuples DEF Awaited, ServerCanMove
<1>4. CASE call.pc \in {"length", "text"} /\ \E length \in Held : Responded(length)
  <2>1. PICK length \in Held : Responded(length)
    BY <1>4
  <2>2. CASE words = <<>> /\ unsent = <<length, Text>>
    <3>1. Len(words) = 0 /\ unsent # <<>>
      BY <2>2, Tuples
    <3> QED  BY <1>1, <3>1 DEF ServerCanMove
  <2>3. CASE words = <<length>> /\ unsent = <<Text>>
    <3>1. Len(words) = 1 /\ unsent # <<>>
      BY <2>3, Tuples
    <3> QED  BY <1>1, <3>1 DEF ServerCanMove
  <2>4. CASE words = <<length, Text>>
    <3>1. Len(words) = 2 /\ words # <<>>
      BY <2>4, Tuples
    <3> QED  BY <1>4, <3>1 DEF GuestCanMove
  <2> QED  BY <2>1, <2>2, <2>3, <2>4 DEF Responded
<1> QED  BY <1>1, <1>2, <1>3, <1>4 DEF InStep

\* While a call is in step, nobody waits for a process that is waiting too.
THEOREM NobodyWaitsForEver == Spec => []SomebodyCanMove
<1>1. IInv => SomebodyCanMove
  BY CallCanGoOn DEF SomebodyCanMove
<1> QED  BY Invariance, <1>1, PTL

LEMMA OpsAre ==
  ASSUME IInv, call.pc # "idle"
  PROVE  /\ Len(call.ops) \in Nat /\ Len(call.ops) > 0
         /\ Len(Tail(call.ops)) = Len(call.ops) - 1
         /\ Later \in Nat /\ Owed \in Nat
<1>1. call.ops \in Seq(Ops) /\ call.ops # <<>>
  BY DEF IInv, Types, CallIs, RequestCalls
<1>2. /\ Len(call.ops) \in Nat /\ Len(call.ops) > 0
      /\ Len(Tail(call.ops)) = Len(call.ops) - 1
  BY <1>1, TailIs
<1>3. Len(requests) \in Nat /\ Len(unsent) \in Nat
  BY DEF IInv, Types
<1>4. Later \in Nat
  BY <1>2 DEF Later
<1>5. Owed \in Nat
  BY <1>3 DEF Owed
<1> QED  BY <1>2, <1>4, <1>5

LEMMA GuestStepCounts ==
  ASSUME IInv, GuestStep, ~ oversized' PROVE StepsLeft' < StepsLeft
<1>1. call \in RequestCalls /\ ~ oversized /\ InStep /\ call.pc # "idle"
  BY DEF GuestStep, Send, Write, RecvLength, RecvText, IInv, Types
<1>2. /\ Len(call.ops) \in Nat /\ Len(Tail(call.ops)) = Len(call.ops) - 1
      /\ Later \in Nat /\ Owed \in Nat
  BY <1>1, OpsAre
<1>3. CASE Send
  <2> DEFINE r == [id |-> next_id, op |-> Head(call.ops), name |-> call.name]
  <2>1. /\ call.pc = "send" /\ call' = [call EXCEPT !.pc = "length"]
        /\ requests' = Append(requests, r) /\ unsent' = unsent
    BY <1>3 DEF Send, Write
  <2> HIDE DEF r
  <2>2. Clear
    BY <1>1, <2>1 DEF InStep
  <2>3. Len(requests') = 1 /\ Len(unsent') = 0
    BY <2>1, <2>2, Tuples DEF Clear
  <2>4. call'.pc = "length" /\ call'.ops = call.ops
    BY <1>1, <2>1 DEF RequestCalls
  <2>5. Later' = Later /\ Owed' = 3
    BY <2>3, <2>4 DEF Later, Owed
  <2>6. StepsLeft = Later + 6 /\ StepsLeft' = Later + 5
    BY <1>2, <2>1, <2>4, <2>5 DEF StepsLeft
  <2> QED  BY <1>2, <2>6
<1>4. CASE RecvLength
  <2>1. call.pc = "length" /\ words # <<>> /\ UNCHANGED <<requests, unsent>>
    BY <1>4 DEF RecvLength
  <2>2. PICK length \in Held : Responded(length)
    BY <1>1, <2>1 DEF InStep, Awaited
  <2>3. Head(words) = length /\ length.type = "length" /\ length.size # Huge
    BY <2>1, <2>2, Tuples DEF Responded
  <2>4. call' = [call EXCEPT !.pc = "text"]
    BY <1>4, <2>3 DEF RecvLength
  <2>5. call'.pc = "text" /\ call'.ops = call.ops
    BY <1>1, <2>4 DEF RequestCalls
  <2>6. Later' = Later /\ Owed' = Owed
    BY <2>1, <2>5 DEF Later, Owed
  <2>7. StepsLeft = Later + (2 + Owed) /\ StepsLeft' = Later + (1 + Owed)
    BY <2>1, <2>5, <2>6 DEF StepsLeft
  <2> QED  BY <1>2, <2>7
<1>5. CASE RecvText
  <2>1. /\ call.pc = "text" /\ UNCHANGED <<requests, unsent>>
        /\ IF Head(words).ok THEN NextOperation(Head(words).id = next_id - 1) ELSE RpcFails
    BY <1>5 DEF RecvText
  <2>2. StepsLeft = Later + (1 + Owed)
    BY <2>1 DEF StepsLeft
  <2>3. StepsLeft \in Nat /\ StepsLeft > Later
    BY <1>2, <2>2
  <2>4. CASE call' = NoCall
    <3>1. StepsLeft' = 0
      BY <2>4, NoCallIs DEF StepsLeft
    <3> QED  BY <1>2, <2>3, <3>1
  <2>5. CASE call'.pc = "send" /\ call'.ops = Tail(call.ops)
    <3>1. Later' = Later - 6
      BY <1>2, <2>5 DEF Later
    <3>2. StepsLeft' = Later
      BY <1>2, <2>5, <3>1 DEF StepsLeft
    <3> QED  BY <1>2, <2>3, <3>2
  <2>6. call' = NoCall \/ (call'.pc = "send" /\ call'.ops = Tail(call.ops))
    BY <1>1, <2>1 DEF NextOperation, RpcFails, Answer, RequestCalls
  <2> QED  BY <2>4, <2>5, <2>6
<1> QED  BY <1>3, <1>4, <1>5 DEF GuestStep

LEMMA ServerStepCounts ==
  ASSUME IInv, ServerStep, ~ oversized', call.pc # "idle" PROVE StepsLeft' < StepsLeft
<1>1. Later \in Nat /\ Owed \in Nat
  BY OpsAre
<1>2. /\ call \in RequestCalls /\ requests \in Seq(Requests) /\ unsent \in Seq(Held)
      /\ Len(requests) \in Nat /\ Len(unsent) \in Nat
  BY DEF IInv, Types
<1>3. CASE WriteResponse
  <2>1. unsent # <<>> /\ unsent' = Tail(unsent) /\ UNCHANGED <<call, requests>> /\ ~ oversized
    BY <1>3 DEF WriteResponse
  <2>2. Len(unsent') = Len(unsent) - 1
    BY <1>2, <2>1, TailIs
  <2>3. call.pc # "send"
    BY <2>1 DEF IInv, InStep, Clear
  <2>4. Later' = Later /\ Owed' = Owed - 1
    BY <1>2, <2>1, <2>2 DEF Later, Owed
  <2>5. PICK p \in {1, 2} : StepsLeft = Later + (p + Owed) /\ StepsLeft' = Later + (p + Owed')
    BY <2>1, <2>3, <2>4 DEF StepsLeft
  <2> QED  BY <1>1, <2>4, <2>5
<1>4. CASE Handle
  <2> DEFINE r == Head(requests)
  <2>1. unsent = <<>> /\ requests # <<>> /\ Awaited /\ call.pc = "length"
    BY <1>4, HandleAwaits DEF Handle
  <2>2. PICK ok \in BOOLEAN :
          /\ unsent' = Frame(Size(r, ok), r, ok)
          /\ oversized' = (oversized \/ Size(r, ok) = Huge)
          /\ call' \in {call, [call EXCEPT !.done = Append(@, r.op)]}
    BY <1>4 DEF Handle
  <2>3. Size(r, ok) = 1
    BY <2>2 DEF Size
  <2>4. Len(unsent') = 2
    <3> DEFINE names == IF r.op = "readdir" /\ ok THEN Listed ELSE <<>>
    <3>1. IsResponse(Frame(1, r, ok), 1, r.id, ok, names)
      BY FrameIs
    <3> HIDE DEF names
    <3>2. IsResponse(unsent', 1, r.id, ok, names)
      BY <2>2, <2>3, <3>1
    <3> QED  BY ONLY <3>2 DEF IsResponse
  <2>5. Len(requests) = 1 /\ requests' = Tail(requests) /\ Len(unsent) = 0
    BY <1>4, <2>1, Tuples DEF Awaited, Handle
  <2>6. Len(requests') = 0
    BY <1>2, <2>1, <2>5, TailIs
  <2>7. call'.pc = "length" /\ call'.ops = call.ops
    BY <1>2, <2>1, <2>2 DEF RequestCalls
  <2>8. Later' = Later /\ Owed = 3 /\ Owed' = 2
    <3>1. Len(requests) = 1 /\ Len(unsent) = 0
      BY <2>5
    <3>2. Owed = 3
      BY ONLY <3>1 DEF Owed
    <3>3. Owed' = 2
      BY ONLY <2>4, <2>6 DEF Owed
    <3>4. Later' = Later
      BY ONLY <2>7 DEF Later
    <3> QED  BY <3>2, <3>3, <3>4
  <2>9. StepsLeft = Later + 5 /\ StepsLeft' = Later + 4
    BY <1>1, <2>1, <2>7, <2>8 DEF StepsLeft
  <2> QED  BY <1>1, <2>9
<1> QED  BY <1>3, <1>4 DEF ServerStep

\* Whatever else happens, each step of either process brings the end of the call
\* nearer, and no other step moves it away.
THEOREM EveryStepBringsTheEndNearer == Spec => EveryStepCounts
<1>1. ASSUME IInv, [Next]_vars, call.pc # "idle", ~ oversized'
      PROVE  StepsLeft' < StepsLeft \/ UNCHANGED <<call, socket>>
  <2>1. CASE GuestStep
    BY <1>1, <2>1, GuestStepCounts
  <2>2. CASE ServerStep
    BY <1>1, <2>2, ServerStepCounts
  <2> QED  BY <1>1, <2>1, <2>2 DEF Next, Begin, OpenDir, ReadDir, ReleaseDir, HostEdits, vars
<1>2. IInv /\ [Next]_vars =>
        [call.pc # "idle" /\ ~ oversized' =>
           StepsLeft' < StepsLeft \/ UNCHANGED <<call, socket>>]_vars
  BY <1>1
<1> QED  BY Invariance, <1>2, PTL DEF Spec, EveryStepCounts
=============================================================================
