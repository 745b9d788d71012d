---------------------------- MODULE McpHttpProofs ----------------------------
(***************************************************************************)
(* Proofs about the HTTP transport and its guest, for any clients, any     *)
(* bodies and any buffering: a 200 has one answer for each message that    *)
(* has an id, in their order, and what the event loop runs for a POST      *)
(* takes effect in the order of its messages.                              *)
(***************************************************************************)
EXTENDS McpHttp, SequenceTheorems, TLAPS

Texts == {"error", "local", "ok", "timeout", "frame", "scheduled", "failed", "already"}
LineSet == [n : Nat, id : Nat, kind : MessageKinds, json : {TRUE}]
CallSet == {v \in [c : Conns, n : Nat, kind : ToolKinds] : v.n = v.c[2]}
RunByLoop(v) == v.kind \in {"tool", "capture"}
PassedOn == {v \in CallSet : ~ RunByLoop(v)}
Origins == {NoCall} \cup (Conns \X Nat)
ReplySet == [n : Nat, id : Nat, body : Texts, of : Origins]
Threads == [pc : {"none", "pending", "read", "wait", "closed"}, line : LineSet \cup {NoLine}]

GuestTypes ==
  /\ inbox \in [Conns -> Seq(LineSet)]
  /\ outbox \in [Conns -> Seq(ReplySet)]
  /\ conn \in [Conns -> Threads]
  /\ cmds \in Seq(CallSet) /\ applied \in Seq(CallSet)
  /\ browserq \in Seq(PassedOn) /\ workers \subseteq PassedOn
  /\ replies \subseteq [channel : Origins, of : Origins]

HttpTypes ==
  /\ body \in [Clients -> Batches \cup {<<>>}]
  /\ http \in [Clients -> [pc : {"idle", "message", "await", "done"}, i : Nat]]
  /\ answers \in [Clients -> Seq(ReplySet)]
  /\ status \in [Clients -> Nat]

-----------------------------------------------------------------------------
(* Connections *)

Entries(s) == {s[i] : i \in DOMAIN s}
Handed == Entries(cmds) \cup Entries(browserq) \cup workers \cup Entries(applied)

\* The client's thread has come to the message of connection c, and has perhaps
\* forwarded it.
Begun(c) ==
  /\ c[2] \in DOMAIN body[c[1]]
  /\ http[c[1]].i > c[2] \/ (http[c[1]].i = c[2] /\ http[c[1]].pc # "message")

\* The message of connection c has an id.
Asks(c) == c[2] \in DOMAIN body[c[1]] /\ body[c[1]][c[2]].hasId

\* A connection has one line, that of its message, and a reply only when the
\* line has been read; a client goes on from a message with an id only then.
LineOf(c) ==
  /\ conn[c].pc = "none" => inbox[c] = <<>> /\ outbox[c] = <<>>
  /\ conn[c].pc # "none" => Begun(c)
  /\ Len(inbox[c]) <= 1 /\ \A j \in DOMAIN inbox[c] : inbox[c][j].n = c[2]
  /\ \A j \in DOMAIN outbox[c] : outbox[c][j].n = c[2]
  /\ Waiting(c) => conn[c].line.n = c[2]
  /\ outbox[c] # <<>> \/ Waiting(c) => inbox[c] = <<>>
  /\ Asks(c) /\ c[2] < http[c[1]].i => inbox[c] = <<>>

OneLineEach == \A c \in Conns : LineOf(c)

HandedAreRead == \A v \in Handed : inbox[v.c] = <<>> /\ conn[v.c].pc # "none"

-----------------------------------------------------------------------------
(* Clients *)

AnswersSoFar(h, upto) ==
  /\ {answers[h][k].n : k \in DOMAIN answers[h]} = {i \in Expected(h) : i < upto}
  /\ \A k, l \in DOMAIN answers[h] : k < l => answers[h][k].n < answers[h][l].n

ClientAt(h) ==
  /\ http[h].pc = "idle" => http[h].i = 0 /\ answers[h] = <<>>
  /\ http[h].pc # "done" => status[h] = 0
  /\ http[h].pc \in {"message", "await"} => http[h].i > 0 /\ AnswersSoFar(h, http[h].i)
  /\ http[h].pc = "await" => http[h].i \in Expected(h)

Places == \A h \in Clients : ClientAt(h)

-----------------------------------------------------------------------------
(* The event loop *)

Before(v, w) ==
  (v.c[1] = w.c[1] /\ RunByLoop(v) /\ RunByLoop(w) /\ Asks(w.c)) => v.n < w.n

\* Also what has yet to be run is in order, among itself and after the rest.
TakenInOrder ==
  /\ \A p, q \in DOMAIN applied : p < q => Before(applied[p], applied[q])
  /\ \A p \in DOMAIN applied, q \in DOMAIN cmds : Before(applied[p], cmds[q])
  /\ \A p, q \in DOMAIN cmds : p < q => Before(cmds[p], cmds[q])

\* The inductive invariant.
IInv ==
  /\ GuestTypes /\ HttpTypes
  /\ OneLineEach /\ HandedAreRead
  /\ Places /\ BatchAnswersMatch
  /\ TakenInOrder

-----------------------------------------------------------------------------
(* Sequences *)

LEMMA AppendIs ==
  ASSUME NEW S, NEW s \in Seq(S), NEW e \in S
  PROVE  /\ Append(s, e) \in Seq(S) /\ Len(s) \in Nat /\ Len(Append(s, e)) = Len(s) + 1
         /\ DOMAIN Append(s, e) = DOMAIN s \cup {Len(s) + 1}
         /\ \A i \in DOMAIN s : Append(s, e)[i] = s[i] /\ s[i] \in S /\ i < Len(s) + 1
         /\ Append(s, e)[Len(s) + 1] = e
         /\ Entries(Append(s, e)) = Entries(s) \cup {e}
<1>1. /\ Append(s, e) \in Seq(S) /\ Len(Append(s, e)) = Len(s) + 1
      /\ \A i \in 1 .. Len(s) : Append(s, e)[i] = s[i]
      /\ Append(s, e)[Len(s) + 1] = e
  BY AppendProperties
<1>2. Len(s) \in Nat /\ DOMAIN s = 1 .. Len(s)
  OBVIOUS
<1>3. DOMAIN Append(s, e) = 1 .. Len(s) + 1
  BY <1>1
<1>4. DOMAIN Append(s, e) = DOMAIN s \cup {Len(s) + 1}
  BY <1>2, <1>3
<1>5. \A i \in DOMAIN s : Append(s, e)[i] = s[i] /\ s[i] \in S /\ i < Len(s) + 1
  BY <1>1, <1>2
<1>6. Entries(Append(s, e)) = Entries(s) \cup {e}
  BY <1>1, <1>4, <1>5 DEF Entries
<1> QED  BY <1>1, <1>2, <1>4, <1>5, <1>6

LEMMA TailIs ==
  ASSUME NEW S, NEW s \in Seq(S), s # <<>>
  PROVE  /\ Tail(s) \in Seq(S) /\ Len(s) \in Nat /\ Len(s) > 0 /\ Len(Tail(s)) = Len(s) - 1
         /\ \A i \in DOMAIN Tail(s) :
              i \in Nat /\ i + 1 \in DOMAIN s /\ 1 < i + 1 /\ Tail(s)[i] = s[i + 1]
         /\ 1 \in DOMAIN s /\ Head(s) = s[1] /\ Head(s) \in S
         /\ Entries(Tail(s)) \subseteq Entries(s) /\ Head(s) \in Entries(s)
         /\ Len(s) <= 1 => Tail(s) = <<>>
<1>1. Len(s) \in Nat /\ DOMAIN s = 1 .. Len(s) /\ Len(s) # 0
  BY EmptySeq
<1>2. /\ Tail(s) \in Seq(S) /\ Len(Tail(s)) = Len(s) - 1
      /\ \A i \in 1 .. Len(Tail(s)) : Tail(s)[i] = s[i + 1]
  BY HeadTailProperties
<1>3. DOMAIN Tail(s) = 1 .. Len(s) - 1
  BY <1>2
<1>4. \A i \in DOMAIN Tail(s) :
        i \in Nat /\ i + 1 \in DOMAIN s /\ 1 < i + 1 /\ Tail(s)[i] = s[i + 1]
  BY <1>1, <1>2, <1>3
<1>5. Head(s) = s[1] /\ Head(s) \in S
  BY HeadTailProperties
<1>6. 1 \in DOMAIN s
  BY <1>1
<1>7. Entries(Tail(s)) \subseteq Entries(s) /\ Head(s) \in Entries(s)
  BY <1>4, <1>5, <1>6 DEF Entries
<1>8. Len(s) <= 1 => Tail(s) = <<>>
  <2> SUFFICES ASSUME Len(s) <= 1 PROVE Tail(s) = <<>>
    OBVIOUS
  <2>1. Len(Tail(s)) = 0
    BY <1>1, <1>2
  <2> QED  BY <1>2, <2>1, EmptySeq
<1> QED  BY <1>1, <1>2, <1>4, <1>5, <1>6, <1>7, <1>8

-----------------------------------------------------------------------------
(* The guest's connection threads *)

USE ConnsAssumption, BatchesAssumption

\* What a step of the guest on one connection leaves as it was.
OnlyConnection(c) ==
  \A d \in Conns \ {c} : inbox'[d] = inbox[d] /\ outbox'[d] = outbox[d] /\ conn'[d] = conn[d]

\* A thread's next state, as a record, is of its type.
LEMMA NoLineIs == NoLine.n = 0 /\ NoLine \in LineSet \cup {NoLine}
BY DEF NoLine

LEMMA ThreadIs ==
  ASSUME conn \in [Conns -> Threads], NEW c \in Conns,
         NEW pc \in {"none", "pending", "read", "wait", "closed"}, NEW l \in LineSet \cup {NoLine},
         conn' = [conn EXCEPT ![c] = [pc |-> pc, line |-> l]]
  PROVE  /\ conn' \in [Conns -> Threads] /\ conn'[c].pc = pc /\ conn'[c].line = l
         /\ \A d \in Conns \ {c} : conn'[d] = conn[d]
<1> DEFINE t == [pc |-> pc, line |-> l]
<1>1. t \in Threads /\ t.pc = pc /\ t.line = l
  BY DEF Threads
<1>2. conn' = [conn EXCEPT ![c] = t]
  OBVIOUS
<1> HIDE DEF t
<1> QED  BY <1>1, <1>2

\* Whatever becomes of a reply, it is the only thing on its connection.
LEMMA WriteIs ==
  ASSUME GuestTypes, NEW c \in Conns, NEW r \in ReplySet, r.n = c[2], Write(c, r),
         \A j \in DOMAIN outbox[c] : outbox[c][j].n = c[2]
  PROVE  /\ conn' \in [Conns -> Threads] /\ outbox' \in [Conns -> Seq(ReplySet)]
         /\ conn'[c].pc # "none" /\ ~ Waiting(c)'
         /\ \A d \in Conns \ {c} : outbox'[d] = outbox[d] /\ conn'[d] = conn[d]
         /\ \A j \in DOMAIN outbox'[c] : outbox'[c][j].n = c[2]
<1>1. /\ outbox[c] \in Seq(ReplySet) /\ outbox \in [Conns -> Seq(ReplySet)]
      /\ conn \in [Conns -> Threads]
  BY DEF GuestTypes
<1>2. /\ Append(outbox[c], r) \in Seq(ReplySet)
      /\ \A j \in DOMAIN Append(outbox[c], r) : Append(outbox[c], r)[j].n = c[2]
  BY <1>1, AppendIs
<1>3. outbox' = [outbox EXCEPT ![c] = Append(outbox[c], r)] \/ outbox' = outbox
  BY DEF Write
<1>4. \/ conn' = [conn EXCEPT ![c] = [pc |-> "read", line |-> NoLine]]
      \/ conn' = [conn EXCEPT ![c] = [pc |-> "closed", line |-> NoLine]]
  BY DEF Write
<1>5. /\ outbox' \in [Conns -> Seq(ReplySet)]
      /\ \A d \in Conns \ {c} : outbox'[d] = outbox[d]
      /\ \A j \in DOMAIN outbox'[c] : outbox'[c][j].n = c[2]
  BY <1>1, <1>2, <1>3
<1>6. /\ conn' \in [Conns -> Threads] /\ conn'[c].pc \in {"read", "closed"}
      /\ \A d \in Conns \ {c} : conn'[d] = conn[d]
  BY <1>1, <1>4, ThreadIs, NoLineIs
<1>7. conn'[c].pc # "none" /\ ~ Waiting(c)'
  BY <1>6 DEF Waiting
<1> QED  BY <1>5, <1>6, <1>7

\* A connection that has been read, with whatever has been written to it.
LEMMA LineIsRead ==
  ASSUME NEW c \in Conns, LineOf(c), conn[c].pc # "none", UNCHANGED transport,
         inbox'[c] = <<>>, conn'[c].pc # "none",
         \A j \in DOMAIN outbox'[c] : outbox'[c][j].n = c[2],
         Waiting(c)' => conn'[c].line.n = c[2]
  PROVE  LineOf(c)'
<1>1. Begun(c)'
  BY DEF LineOf, Begun, transport
<1>2. Len(<<>>) = 0 /\ DOMAIN <<>> = {}
  OBVIOUS
<1>3. Len(inbox'[c]) <= 1
  BY <1>2
<1> QED  BY <1>1, <1>2, <1>3 DEF LineOf

LEMMA OtherLines ==
  ASSUME NEW c \in Conns, OneLineEach, OnlyConnection(c), UNCHANGED transport, LineOf(c)'
  PROVE  OneLineEach'
<1> SUFFICES ASSUME NEW d \in Conns \ {c} PROVE LineOf(d)'
  BY DEF OneLineEach
<1>1. LineOf(d)
  BY DEF OneLineEach
<1>2. /\ inbox'[d] = inbox[d] /\ outbox'[d] = outbox[d] /\ conn'[d] = conn[d]
      /\ UNCHANGED <<body, http>>
  BY DEF OnlyConnection, transport
<1> QED  BY <1>1, <1>2 DEF LineOf, Begun, Asks, Waiting

\* A thread takes the line of its connection.
LEMMA ReadingIs ==
  ASSUME GuestTypes, NEW c \in Conns, LineOf(c), NEW kinds, Reading(c, kinds)
  PROVE  /\ conn[c].pc = "read" /\ inbox' \in [Conns -> Seq(LineSet)] /\ inbox'[c] = <<>>
         /\ inbox[c] # <<>> /\ Head(inbox[c]) \in LineSet /\ Head(inbox[c]).n = c[2]
         /\ Head(inbox[c]).kind \in kinds
         /\ \A d \in Conns \ {c} : inbox'[d] = inbox[d]
<1>1. /\ conn[c].pc = "read" /\ inbox[c] # <<>> /\ Head(inbox[c]).kind \in kinds
      /\ inbox' = [inbox EXCEPT ![c] = Tail(inbox[c])]
      /\ inbox \in [Conns -> Seq(LineSet)] /\ inbox[c] \in Seq(LineSet)
      /\ Len(inbox[c]) <= 1 /\ \A j \in DOMAIN inbox[c] : inbox[c][j].n = c[2]
  BY DEF Reading, GuestTypes, LineOf
<1>2. /\ Tail(inbox[c]) \in Seq(LineSet) /\ Tail(inbox[c]) = <<>>
      /\ Head(inbox[c]) \in LineSet /\ 1 \in DOMAIN inbox[c] /\ Head(inbox[c]) = inbox[c][1]
  BY <1>1, TailIs
<1> QED  BY <1>1, <1>2

\* What a step on connection c does to the types and the connections.
Kept(c) ==
  /\ inbox' \in [Conns -> Seq(LineSet)] /\ outbox' \in [Conns -> Seq(ReplySet)]
  /\ conn' \in [Conns -> Threads]
  /\ conn[c].pc # "none" /\ conn'[c].pc # "none"
  /\ inbox'[c] = <<>> \/ inbox'[c] = inbox[c]
  /\ OnlyConnection(c) /\ LineOf(c)'

LEMMA ReplyIs ==
  ASSUME NEW l \in LineSet, NEW id \in Nat, NEW text \in Texts, NEW of \in Origins
  PROVE  Reply(l, id, text, of) \in ReplySet /\ Reply(l, id, text, of).n = l.n
BY DEF Reply, ReplySet, LineSet

LEMMA ReadSilentlyKept ==
  ASSUME GuestTypes, NEW c \in Conns, LineOf(c), ReadSilently(c), UNCHANGED transport
  PROVE  Kept(c)
<1>1. UNCHANGED <<outbox, conn>> /\ Reading(c, {"blank", "initialized"})
  BY DEF ReadSilently
<1>2. /\ conn[c].pc = "read" /\ inbox' \in [Conns -> Seq(LineSet)] /\ inbox'[c] = <<>>
      /\ \A d \in Conns \ {c} : inbox'[d] = inbox[d]
  BY <1>1, ReadingIs
<1>3. conn[c].pc # "none" /\ conn'[c].pc # "none" /\ ~ Waiting(c)'
  BY <1>1, <1>2 DEF Waiting
<1>4. \A j \in DOMAIN outbox'[c] : outbox'[c][j].n = c[2]
  BY <1>1 DEF LineOf
<1>5. LineOf(c)'
  BY <1>2, <1>3, <1>4, LineIsRead
<1> QED  BY <1>1, <1>2, <1>3, <1>5 DEF Kept, OnlyConnection, GuestTypes

LEMMA AnswerLocallyKept ==
  ASSUME GuestTypes, NEW c \in Conns, LineOf(c), AnswerLocally(c), UNCHANGED transport
  PROVE  Kept(c)
<1> DEFINE l == Head(inbox[c])
<1>1. Reading(c, {"garbage", "local"})
  BY DEF AnswerLocally
<1>2. /\ conn[c].pc = "read" /\ inbox' \in [Conns -> Seq(LineSet)] /\ inbox'[c] = <<>>
      /\ l \in LineSet /\ l.n = c[2]
      /\ \A d \in Conns \ {c} : inbox'[d] = inbox[d]
  BY <1>1, ReadingIs
<1>3. \E r \in ReplySet : r.n = c[2] /\ Write(c, r)
  <2>1. /\ NoId \in Nat /\ l.id \in Nat /\ "error" \in Texts /\ "local" \in Texts
        /\ NoCall \in Origins
    BY <1>2 DEF NoId, LineSet, Texts, Origins
  <2>2. /\ Reply(l, NoId, "error", NoCall) \in ReplySet
        /\ Reply(l, NoId, "error", NoCall).n = c[2]
        /\ Reply(l, l.id, "local", NoCall) \in ReplySet
        /\ Reply(l, l.id, "local", NoCall).n = c[2]
    BY <1>2, <2>1, ReplyIs
  <2>3. Write(c, Reply(l, NoId, "error", NoCall)) \/ Write(c, Reply(l, l.id, "local", NoCall))
    BY DEF AnswerLocally
  <2> QED  BY <2>2, <2>3
<1>4. PICK r \in ReplySet : r.n = c[2] /\ Write(c, r)
  BY <1>3
<1>5. /\ conn' \in [Conns -> Threads] /\ outbox' \in [Conns -> Seq(ReplySet)]
      /\ conn'[c].pc # "none" /\ ~ Waiting(c)'
      /\ \A d \in Conns \ {c} : outbox'[d] = outbox[d] /\ conn'[d] = conn[d]
      /\ \A j \in DOMAIN outbox'[c] : outbox'[c][j].n = c[2]
  <2>1. \A j \in DOMAIN outbox[c] : outbox[c][j].n = c[2]
    BY DEF LineOf
  <2> QED  BY <1>4, <2>1, WriteIs
<1>6. conn[c].pc # "none"
  BY <1>2
<1>7. LineOf(c)'
  BY <1>2, <1>5, <1>6, LineIsRead
<1> QED  BY <1>2, <1>5, <1>6, <1>7 DEF Kept, OnlyConnection

LEMMA DispatchKept ==
  ASSUME GuestTypes, NEW c \in Conns, LineOf(c), Dispatch(c), UNCHANGED transport
  PROVE  /\ Kept(c) /\ inbox[c] # <<>> /\ inbox'[c] = <<>>
         /\ Call(c, Head(inbox[c])) \in CallSet /\ cmds' = Append(cmds, Call(c, Head(inbox[c])))
<1> DEFINE l == Head(inbox[c])
<1>1. Reading(c, ToolKinds) /\ UNCHANGED outbox /\ cmds' = Append(cmds, Call(c, l))
      /\ conn' = [conn EXCEPT ![c] = [pc |-> "wait", line |-> l]]
  BY DEF Dispatch
<1>2. /\ conn[c].pc = "read" /\ inbox' \in [Conns -> Seq(LineSet)] /\ inbox'[c] = <<>>
      /\ inbox[c] # <<>> /\ l \in LineSet /\ l.n = c[2] /\ l.kind \in ToolKinds
      /\ \A d \in Conns \ {c} : inbox'[d] = inbox[d]
  BY <1>1, ReadingIs
<1>3. Call(c, l) \in CallSet
  BY <1>2 DEF Call, CallSet, LineSet
<1>4. /\ conn' \in [Conns -> Threads] /\ conn'[c].pc # "none" /\ conn'[c].line = l
      /\ \A d \in Conns \ {c} : conn'[d] = conn[d]
  BY <1>1, <1>2 DEF GuestTypes, Threads
<1>5. \A j \in DOMAIN outbox'[c] : outbox'[c][j].n = c[2]
  BY <1>1 DEF LineOf
<1>6. LineOf(c)'
  BY <1>2, <1>4, <1>5, LineIsRead
<1> QED  BY <1>1, <1>2, <1>3, <1>4, <1>6 DEF Kept, OnlyConnection, GuestTypes

LEMMA WaitKept ==
  ASSUME GuestTypes, NEW c \in Conns, LineOf(c), Receive(c) \/ Timeout(c), UNCHANGED transport
  PROVE  Kept(c)
<1> DEFINE l == conn[c].line
<1>1. Waiting(c) /\ inbox' = inbox
  BY DEF Receive, Timeout
<1>2. /\ l.n = c[2] /\ inbox[c] = <<>> /\ conn[c].pc # "none"
      /\ \A j \in DOMAIN outbox[c] : outbox[c][j].n = c[2]
  BY <1>1 DEF LineOf, Waiting
<1>3. l \in LineSet
  <2>1. l \in LineSet \cup {NoLine}
    BY DEF GuestTypes, Threads
  <2>2. c[2] \in Nat \ {0}
    OBVIOUS
  <2> QED  BY <1>2, <2>1, <2>2, NoLineIs
<1>4. \E r \in ReplySet : r.n = c[2] /\ Write(c, r)
  <2>1. l.id \in Nat /\ "ok" \in Texts /\ "timeout" \in Texts /\ NoCall \in Origins
    BY <1>3 DEF LineSet, Texts, Origins
  <2>2. CASE Receive(c)
    <3>1. PICK a \in Arrived(c) : Write(c, Reply(l, l.id, "ok", a.of))
      BY <2>2 DEF Receive
    <3>2. a.of \in Origins
      BY DEF Arrived, GuestTypes
    <3> QED  BY <1>2, <1>3, <2>1, <3>1, <3>2, ReplyIs
  <2>3. CASE Timeout(c)
    <3>1. Write(c, Reply(l, l.id, "timeout", NoCall))
      BY <2>3 DEF Timeout
    <3> QED  BY <1>2, <1>3, <2>1, <3>1, ReplyIs
  <2> QED  BY <2>2, <2>3
<1>5. PICK r \in ReplySet : r.n = c[2] /\ Write(c, r)
  BY <1>4
<1>6. /\ conn' \in [Conns -> Threads] /\ outbox' \in [Conns -> Seq(ReplySet)]
      /\ conn'[c].pc # "none" /\ ~ Waiting(c)'
      /\ \A d \in Conns \ {c} : outbox'[d] = outbox[d] /\ conn'[d] = conn[d]
      /\ \A j \in DOMAIN outbox'[c] : outbox'[c][j].n = c[2]
  BY <1>2, <1>5, WriteIs
<1>7. LineOf(c)'
  BY <1>1, <1>2, <1>6, LineIsRead
<1> QED  BY <1>1, <1>2, <1>6, <1>7 DEF Kept, OnlyConnection, GuestTypes

LEMMA EndOrAcceptKept ==
  ASSUME GuestTypes, NEW c \in Conns, LineOf(c), EndOfFile(c) \/ Accept(c), UNCHANGED transport
  PROVE  Kept(c)
<1>1. /\ UNCHANGED <<inbox, outbox>>
      /\ conn[c].pc \in {"read", "pending"}
      /\ \/ conn' = [conn EXCEPT ![c].pc = "closed"]
         \/ conn' = [conn EXCEPT ![c].pc = "read"]
  BY DEF EndOfFile, Accept
<1>2. conn \in [Conns -> Threads] /\ conn[c].line \in LineSet \cup {NoLine}
      /\ conn[c] = [pc |-> conn[c].pc, line |-> conn[c].line]
  BY DEF GuestTypes, Threads
<1>3. \/ conn' = [conn EXCEPT ![c] = [pc |-> "closed", line |-> conn[c].line]]
      \/ conn' = [conn EXCEPT ![c] = [pc |-> "read", line |-> conn[c].line]]
  BY <1>1, <1>2
<1>4. /\ conn' \in [Conns -> Threads] /\ conn'[c].pc \in {"read", "closed"}
      /\ \A d \in Conns \ {c} : conn'[d] = conn[d]
  BY <1>2, <1>3, ThreadIs
<1>5. conn[c].pc # "none" /\ conn'[c].pc # "none" /\ ~ Waiting(c)'
  BY <1>1, <1>4 DEF Waiting
<1>6. LineOf(c)'
  BY <1>1, <1>5 DEF LineOf, Begun, Asks, transport
<1> QED  BY <1>1, <1>4, <1>5, <1>6 DEF Kept, OnlyConnection, GuestTypes

-----------------------------------------------------------------------------
(* The guest's steps *)

LEMMA HandedIs == GuestTypes => Handed \subseteq CallSet
<1> SUFFICES ASSUME GuestTypes, NEW v \in Handed PROVE v \in CallSet
  OBVIOUS
<1>1. /\ \A i \in DOMAIN cmds : cmds[i] \in CallSet
      /\ \A i \in DOMAIN applied : applied[i] \in CallSet
      /\ \A i \in DOMAIN browserq : browserq[i] \in PassedOn
      /\ workers \subseteq PassedOn
  BY DEF GuestTypes
<1> QED  BY <1>1 DEF Handed, Entries, PassedOn

LEMMA CallIs ==
  ASSUME NEW v \in CallSet
  PROVE  /\ v.c \in Conns /\ v.c[1] \in Clients /\ v.c[2] \in Nat \ {0}
         /\ v.c = <<v.c[1], v.c[2]>> /\ v.n = v.c[2] /\ v.n \in Nat
BY DEF CallSet

\* Calls are taken from where they wait and not made up: they stay read.
LEMMA HandedStayRead ==
  ASSUME GuestTypes, HandedAreRead, NEW c \in Conns, Kept(c), Handed' \subseteq Handed
  PROVE  HandedAreRead'
<1> SUFFICES ASSUME NEW v \in Handed PROVE inbox'[v.c] = <<>> /\ conn'[v.c].pc # "none"
  BY DEF HandedAreRead
<1>1. inbox[v.c] = <<>> /\ conn[v.c].pc # "none" /\ v.c \in Conns
  BY HandedIs, CallIs DEF HandedAreRead
<1> QED  BY <1>1 DEF Kept, OnlyConnection

\* A step of one thread that hands over no call.
LEMMA ThreadKeeps ==
  ASSUME IInv, NEW c \in Conns, Kept(c), UNCHANGED transport,
         UNCHANGED <<cmds, workers, browserq, applied>>, replies' \subseteq replies
  PROVE  IInv'
<1>1. GuestTypes'
  BY DEF IInv, GuestTypes, Kept
<1>2. HttpTypes' /\ Places' /\ BatchAnswersMatch'
  BY DEF IInv, HttpTypes, Places, ClientAt, AnswersSoFar, BatchAnswersMatch, Expected, transport
<1>3. OneLineEach'
  BY OtherLines DEF IInv, Kept
<1>4. HandedAreRead'
  <2>1. Handed' = Handed
    BY DEF Handed, Entries
  <2> QED  BY <2>1, HandedStayRead DEF IInv
<1>5. TakenInOrder'
  BY DEF IInv, TakenInOrder, Before, Asks, RunByLoop, transport
<1> QED  BY <1>1, <1>2, <1>3, <1>4, <1>5 DEF IInv

\* When a thread takes a line and its message has an id, whatever was handed
\* over for the same client belongs to an earlier message.
LEMMA EarlierHanded ==
  ASSUME GuestTypes, HttpTypes, HandedAreRead, OneLineEach,
         NEW c \in Conns, inbox[c] # <<>>, NEW w \in CallSet, w.c = c,
         NEW v \in Handed
  PROVE  Before(v, w)
<1> SUFFICES ASSUME v.c[1] = w.c[1], Asks(w.c) PROVE v.n < w.n
  BY DEF Before
<1> DEFINE h == c[1]
<1>1. v \in CallSet
  BY HandedIs
<1>2. /\ v.c \in Conns /\ v.c = <<h, v.c[2]>> /\ v.n = v.c[2] /\ v.n \in Nat
      /\ c = <<h, c[2]>> /\ w.n = c[2] /\ w.n \in Nat /\ h \in Clients
  BY <1>1, CallIs
<1>3. inbox[v.c] = <<>> /\ conn[v.c].pc # "none"
  BY DEF HandedAreRead
<1>4. http[h].i \in Nat
  BY <1>2 DEF HttpTypes
<1>5. v.n <= http[h].i
  BY <1>2, <1>3, <1>4 DEF OneLineEach, LineOf, Begun
<1>6. ~ (w.n < http[h].i)
  BY <1>2 DEF OneLineEach, LineOf
<1>7. v.n # w.n
  BY <1>2, <1>3
<1> QED  BY <1>2, <1>4, <1>5, <1>6, <1>7

LEMMA DispatchKeeps ==
  ASSUME IInv, NEW c \in Conns, Dispatch(c), UNCHANGED transport
  PROVE  IInv'
<1> DEFINE w == Call(c, Head(inbox[c]))
<1>1. /\ Kept(c) /\ inbox[c] # <<>> /\ inbox'[c] = <<>>
      /\ w \in CallSet /\ cmds' = Append(cmds, w)
  BY DispatchKept DEF IInv, OneLineEach
<1>2. UNCHANGED <<workers, browserq, applied, replies>>
  BY DEF Dispatch
<1>3. w.c = c
  BY DEF Call
<1> HIDE DEF w
<1>4. /\ cmds' \in Seq(CallSet) /\ DOMAIN cmds' = DOMAIN cmds \cup {Len(cmds) + 1}
      /\ \A i \in DOMAIN cmds : cmds'[i] = cmds[i] /\ i < Len(cmds) + 1
      /\ cmds'[Len(cmds) + 1] = w /\ Len(cmds) \in Nat
      /\ Entries(cmds') = Entries(cmds) \cup {w}
  <2>1. cmds \in Seq(CallSet)
    BY DEF IInv, GuestTypes
  <2> QED  BY <1>1, <2>1, AppendIs
<1>5. GuestTypes'
  BY <1>1, <1>2, <1>4 DEF IInv, GuestTypes, Kept
<1>6. HttpTypes' /\ Places' /\ BatchAnswersMatch'
  BY DEF IInv, HttpTypes, Places, ClientAt, AnswersSoFar, BatchAnswersMatch, Expected, transport
<1>7. OneLineEach'
  BY <1>1, OtherLines DEF IInv, Kept
<1>8. HandedAreRead'
  <2>1. Handed' = Handed \cup {w}
    BY <1>2, <1>4 DEF Handed, Entries
  <2> SUFFICES ASSUME NEW v \in Handed \cup {w} PROVE inbox'[v.c] = <<>> /\ conn'[v.c].pc # "none"
    BY <2>1 DEF HandedAreRead
  <2>2. CASE v = w
    BY <1>1, <1>3, <2>2 DEF Kept
  <2>3. CASE v \in Handed
    <3>1. inbox[v.c] = <<>> /\ conn[v.c].pc # "none" /\ v.c \in Conns
      BY <2>3, HandedIs, CallIs DEF HandedAreRead, IInv
    <3> QED  BY <1>1, <3>1 DEF Kept, OnlyConnection
  <2> QED  BY <2>2, <2>3
<1>9. TakenInOrder'
  <2>1. \A v \in Handed : Before(v, w)
    BY <1>1, <1>3, EarlierHanded DEF IInv
  <2>2. \A v, u : Before(v, u)' <=> Before(v, u)
    BY DEF Before, Asks, RunByLoop, transport
  <2>3. /\ \A p \in DOMAIN applied : applied[p] \in Handed
        /\ \A p \in DOMAIN cmds : cmds[p] \in Handed
    BY DEF Handed, Entries
  <2>4. /\ \A p, q \in DOMAIN applied : p < q => Before(applied[p], applied[q])
        /\ \A p \in DOMAIN applied, q \in DOMAIN cmds : Before(applied[p], cmds[q])
        /\ \A p, q \in DOMAIN cmds : p < q => Before(cmds[p], cmds[q])
    BY DEF IInv, TakenInOrder
  <2>5. \A p \in DOMAIN applied, q \in DOMAIN cmds' : Before(applied[p], cmds'[q])
    BY <1>4, <2>1, <2>3, <2>4
  <2>6. \A p, q \in DOMAIN cmds' : p < q => Before(cmds'[p], cmds'[q])
    <3> SUFFICES ASSUME NEW p \in DOMAIN cmds', NEW q \in DOMAIN cmds', p < q
                 PROVE  Before(cmds'[p], cmds'[q])
      OBVIOUS
    <3>1. p \in DOMAIN cmds
      <4>1. q \in Nat /\ q <= Len(cmds) + 1
        BY <1>4
      <4> QED  BY <1>4, <4>1
    <3> QED  BY <1>4, <2>1, <2>3, <2>4, <3>1
  <2> QED  BY <1>2, <2>2, <2>4, <2>5, <2>6 DEF TakenInOrder
<1> QED  BY <1>5, <1>6, <1>7, <1>8, <1>9 DEF IInv

\* The event loop and the threads behind it leave the connections alone.
LoopKeeps == UNCHANGED <<inbox, outbox, conn, transport>>

LEMMA SendReplyIs ==
  ASSUME GuestTypes, NEW v \in CallSet, SendReply(v)
  PROVE  replies' \subseteq [channel : Origins, of : Origins]
<1>1. <<v.c, v.n>> \in Origins
  BY CallIs DEF Origins
<1>2. ReplyChannel(v.c, v.n) \in Origins
  BY <1>1 DEF ReplyChannel
<1>3. [channel |-> ReplyChannel(v.c, v.n), of |-> <<v.c, v.n>>]
        \in [channel : Origins, of : Origins]
  BY <1>1, <1>2
<1>4. \/ replies' = replies
      \/ replies' = replies \cup {[channel |-> ReplyChannel(v.c, v.n), of |-> <<v.c, v.n>>]}
  BY DEF SendReply
<1>5. replies \subseteq [channel : Origins, of : Origins]
  BY DEF GuestTypes
<1> QED  BY <1>3, <1>4, <1>5

LEMMA LoopKeepsRest ==
  ASSUME IInv, LoopKeeps, Handed' \subseteq Handed
  PROVE  HttpTypes' /\ OneLineEach' /\ HandedAreRead' /\ Places' /\ BatchAnswersMatch'
<1>1. HttpTypes' /\ Places' /\ BatchAnswersMatch'
  BY DEF IInv, HttpTypes, Places, ClientAt, AnswersSoFar, BatchAnswersMatch, Expected, transport,
         LoopKeeps
<1>2. OneLineEach'
  BY DEF IInv, OneLineEach, LineOf, Begun, Asks, Waiting, LoopKeeps, transport
<1>3. HandedAreRead'
  BY DEF IInv, HandedAreRead, LoopKeeps
<1> QED  BY <1>1, <1>2, <1>3

LEMMA BeforeKept ==
  ASSUME UNCHANGED transport
  PROVE  \A v, w : Before(v, w)' <=> Before(v, w)
BY DEF Before, Asks, RunByLoop, transport

\* A call that the event loop does not carry out itself is before and after
\* anything.
LEMMA PassedOnIs ==
  ASSUME NEW v \in PassedOn
  PROVE  v \in CallSet /\ \A w : Before(v, w) /\ Before(w, v)
BY DEF PassedOn, Before

LEMMA AppliedInOrder ==
  ASSUME GuestTypes, TakenInOrder, NEW v \in CallSet, Apply(v), UNCHANGED transport,
         \A p \in DOMAIN applied : Before(applied[p], v),
         NEW s \in Seq(CallSet), cmds' = s,
         \A i \in DOMAIN s : i \in Nat /\ Before(v, s[i]),
         \A i \in DOMAIN s : \E j \in DOMAIN cmds : s[i] = cmds[j],
         \A i, j \in DOMAIN s : i < j => Before(s[i], s[j])
  PROVE  TakenInOrder' /\ applied' \in Seq(CallSet)
<1>1. /\ applied' \in Seq(CallSet) /\ DOMAIN applied' = DOMAIN applied \cup {Len(applied) + 1}
      /\ \A i \in DOMAIN applied : applied'[i] = applied[i] /\ i < Len(applied) + 1
      /\ applied'[Len(applied) + 1] = v /\ Len(applied) \in Nat
      /\ DOMAIN applied = 1 .. Len(applied)
  <2>1. applied \in Seq(CallSet)
    BY DEF GuestTypes
  <2> QED  BY <2>1, AppendIs DEF Apply
<1>2. /\ \A p, q \in DOMAIN applied : p < q => Before(applied[p], applied[q])
      /\ \A p \in DOMAIN applied, q \in DOMAIN cmds : Before(applied[p], cmds[q])
  BY DEF TakenInOrder
<1>3. \A p, q \in DOMAIN applied' : p < q => Before(applied'[p], applied'[q])
  <2> SUFFICES ASSUME NEW p \in DOMAIN applied', NEW q \in DOMAIN applied', p < q
               PROVE  Before(applied'[p], applied'[q])
    OBVIOUS
  <2>1. p \in DOMAIN applied
    BY <1>1
  <2> QED  BY <1>1, <1>2, <2>1
<1>4. \A p \in DOMAIN applied', q \in DOMAIN s : Before(applied'[p], s[q])
  BY <1>1, <1>2
<1>5. \A u, w : Before(u, w)' <=> Before(u, w)
  BY BeforeKept
<1> QED  BY <1>1, <1>3, <1>4, <1>5 DEF TakenInOrder

LEMMA LoopStepKeeps ==
  ASSUME IInv, LoopStep, UNCHANGED transport
  PROVE  IInv'
<1> DEFINE v == Head(cmds)
<1>1. /\ cmds # <<>> /\ cmds' = Tail(cmds) /\ UNCHANGED <<inbox, outbox, conn>>
      /\ cmds \in Seq(CallSet) /\ browserq \in Seq(PassedOn) /\ GuestTypes
  BY DEF LoopStep, IInv, GuestTypes
<1>2. /\ Tail(cmds) \in Seq(CallSet) /\ v \in CallSet /\ v \in Entries(cmds)
      /\ Entries(Tail(cmds)) \subseteq Entries(cmds) /\ 1 \in DOMAIN cmds /\ v = cmds[1]
      /\ \A i \in DOMAIN Tail(cmds) :
           i \in Nat /\ i + 1 \in DOMAIN cmds /\ 1 < i + 1 /\ Tail(cmds)[i] = cmds[i + 1]
  BY <1>1, TailIs
<1>3. /\ \A p, q \in DOMAIN applied : p < q => Before(applied[p], applied[q])
      /\ \A p \in DOMAIN applied, q \in DOMAIN cmds : Before(applied[p], cmds[q])
      /\ \A p, q \in DOMAIN cmds : p < q => Before(cmds[p], cmds[q])
  BY DEF IInv, TakenInOrder
<1>4. /\ \A i \in DOMAIN Tail(cmds) : Before(v, Tail(cmds)[i])
      /\ \A i, j \in DOMAIN Tail(cmds) : i < j => Before(Tail(cmds)[i], Tail(cmds)[j])
  BY <1>2, <1>3
<1>5. CASE RunByLoop(v)
  <2>1. Apply(v) /\ SendReply(v) /\ UNCHANGED <<workers, browserq>>
    BY <1>5 DEF LoopStep, RunByLoop
  <2> HIDE DEF v
  <2>2. TakenInOrder' /\ applied' \in Seq(CallSet)
    <3>1. \A p \in DOMAIN applied : Before(applied[p], v)
      BY <1>2, <1>3
    <3>2. \A i \in DOMAIN Tail(cmds) : \E j \in DOMAIN cmds : Tail(cmds)[i] = cmds[j]
      BY <1>2
    <3> QED  BY <1>1, <1>2, <1>4, <2>1, <3>1, <3>2, AppliedInOrder DEF IInv
  <2>3. Entries(applied') = Entries(applied) \cup {v}
    BY <1>2, <2>1, AppendIs DEF Apply, IInv, GuestTypes
  <2>4. GuestTypes'
    BY <1>1, <1>2, <2>1, <2>2, SendReplyIs DEF GuestTypes
  <2>5. Handed' \subseteq Handed
    <3>1. Entries(browserq)' = Entries(browserq) /\ Entries(cmds)' = Entries(Tail(cmds))
      BY <1>1, <2>1 DEF Entries
    <3>2. Entries(applied)' = Entries(applied')
      BY DEF Entries
    <3> QED  BY <1>2, <2>1, <2>3, <3>1, <3>2 DEF Handed
  <2>6. LoopKeeps
    BY <1>1 DEF LoopKeeps
  <2> QED  BY <2>2, <2>4, <2>5, <2>6, LoopKeepsRest DEF IInv
<1>6. CASE ~ RunByLoop(v)
  <2>1. UNCHANGED <<replies, applied>>
    BY <1>6 DEF LoopStep, RunByLoop
  <2>2. \/ workers' = workers \cup {v} /\ UNCHANGED browserq
        \/ browserq' = Append(browserq, v) /\ UNCHANGED workers
    BY <1>6 DEF LoopStep, RunByLoop
  <2>3. v \in PassedOn
    BY <1>2, <1>6 DEF PassedOn
  <2> HIDE DEF v
  <2>4. /\ workers' \subseteq PassedOn /\ browserq' \in Seq(PassedOn)
        /\ workers' \subseteq workers \cup {v}
        /\ Entries(browserq') \subseteq Entries(browserq) \cup {v}
    <3>1. /\ Append(browserq, v) \in Seq(PassedOn)
          /\ Entries(Append(browserq, v)) = Entries(browserq) \cup {v}
      BY <1>1, <2>3, AppendIs
    <3>2. workers \subseteq PassedOn
      BY <1>1 DEF GuestTypes
    <3>3. CASE workers' = workers \cup {v} /\ UNCHANGED browserq
      BY <1>1, <2>3, <3>2, <3>3 DEF Entries
    <3>4. CASE browserq' = Append(browserq, v) /\ UNCHANGED workers
      BY <3>1, <3>2, <3>4
    <3> QED  BY <2>2, <3>3, <3>4
  <2>5. GuestTypes'
    BY <1>1, <1>2, <2>1, <2>4 DEF GuestTypes
  <2>6. Handed' \subseteq Handed
    <3>1. Entries(applied)' = Entries(applied) /\ Entries(cmds') = Entries(cmds)'
          /\ Entries(browserq') = Entries(browserq)'
      BY <2>1 DEF Entries
    <3> QED  BY <1>1, <1>2, <2>1, <2>4, <3>1 DEF Handed
  <2>7. TakenInOrder'
    BY <1>1, <1>2, <1>3, <1>4, <2>1, BeforeKept DEF TakenInOrder
  <2>8. LoopKeeps
    BY <1>1 DEF LoopKeeps
  <2> QED  BY <2>5, <2>6, <2>7, <2>8, LoopKeepsRest DEF IInv
<1> QED  BY <1>5, <1>6

\* A call that ends outside the event loop.
LEMMA DoneKeeps ==
  ASSUME IInv, NEW v \in PassedOn, v \in Handed, Apply(v), SendReply(v), LoopKeeps, UNCHANGED cmds,
         browserq' \in Seq(PassedOn), Entries(browserq') \subseteq Entries(browserq),
         workers' \subseteq workers
  PROVE  IInv'
<1>1. v \in CallSet /\ \A w : Before(v, w) /\ Before(w, v)
  BY PassedOnIs
<1>2. GuestTypes /\ TakenInOrder /\ cmds \in Seq(CallSet) /\ applied \in Seq(CallSet)
  BY DEF IInv, GuestTypes
<1>3. \A i \in DOMAIN cmds : i \in Nat
  BY <1>2
<1>4. TakenInOrder' /\ applied' \in Seq(CallSet)
  <2>1. \A i, j \in DOMAIN cmds : i < j => Before(cmds[i], cmds[j])
    BY <1>2 DEF TakenInOrder
  <2>2. UNCHANGED transport
    BY DEF LoopKeeps
  <2> QED  BY <1>1, <1>2, <1>3, <2>1, <2>2, AppliedInOrder
<1>5. GuestTypes'
  BY <1>1, <1>2, <1>4, SendReplyIs DEF GuestTypes, LoopKeeps
<1>6. Handed' \subseteq Handed
  <2>1. Entries(applied') = Entries(applied) \cup {v}
    BY <1>1, <1>2, AppendIs DEF Apply
  <2> QED  BY <2>1 DEF Handed, Entries
<1> QED  BY <1>4, <1>5, <1>6, LoopKeepsRest DEF IInv

LEMMA BehindLoopKeeps ==
  ASSUME IInv, BrowserDone \/ \E v \in workers : WorkerDone(v), UNCHANGED transport
  PROVE  IInv'
<1>1. workers \subseteq PassedOn /\ browserq \in Seq(PassedOn)
  BY DEF IInv, GuestTypes
<1>2. CASE BrowserDone
  <2>1. /\ browserq # <<>> /\ browserq' = Tail(browserq) /\ UNCHANGED <<cmds, workers>>
        /\ Apply(Head(browserq)) /\ SendReply(Head(browserq)) /\ LoopKeeps
    BY <1>2 DEF BrowserDone, LoopKeeps
  <2>2. /\ Tail(browserq) \in Seq(PassedOn) /\ Head(browserq) \in PassedOn
        /\ Entries(Tail(browserq)) \subseteq Entries(browserq)
        /\ Head(browserq) \in Entries(browserq)
    BY <1>1, <2>1, TailIs
  <2>3. Head(browserq) \in Handed
    BY <2>2 DEF Handed
  <2> QED  BY <2>1, <2>2, <2>3, DoneKeeps
<1>3. CASE \E v \in workers : WorkerDone(v)
  <2>1. PICK v \in workers : WorkerDone(v)
    BY <1>3
  <2>2. /\ workers' \subseteq workers /\ UNCHANGED <<cmds, browserq>>
        /\ Apply(v) /\ SendReply(v) /\ LoopKeeps
    BY <2>1 DEF WorkerDone, LoopKeeps
  <2>3. v \in Handed /\ v \in PassedOn
    BY <1>1, <2>1 DEF Handed
  <2>4. Entries(browserq') = Entries(browserq)
    BY <2>2 DEF Entries
  <2> QED  BY <1>1, <2>2, <2>3, <2>4, DoneKeeps
<1> QED  BY <1>2, <1>3

LEMMA RestartKeeps ==
  ASSUME IInv, CompositorRestarts, UNCHANGED transport
  PROVE  IInv'
<1>1. /\ conn' = [c \in Conns |-> IF c \in Connections
                                  THEN [pc |-> "closed", line |-> NoLine] ELSE conn[c]]
      /\ inbox' = [c \in Conns |-> <<>>]
      /\ cmds' = <<>> /\ browserq' = <<>> /\ replies' = {}
      /\ UNCHANGED <<outbox, workers, applied>>
  BY DEF CompositorRestarts
<1>2. GuestTypes /\ TakenInOrder /\ HandedAreRead /\ OneLineEach
  BY DEF IInv
<1>3. \A c \in Conns : /\ inbox'[c] = <<>> /\ outbox'[c] = outbox[c] /\ conn'[c] \in Threads
                       /\ conn'[c].pc = "none" <=> conn[c].pc = "none"
                       /\ ~ Waiting(c)'
  <2> SUFFICES ASSUME NEW c \in Conns
               PROVE  /\ inbox'[c] = <<>> /\ outbox'[c] = outbox[c] /\ conn'[c] \in Threads
                      /\ conn'[c].pc = "none" <=> conn[c].pc = "none"
                      /\ ~ Waiting(c)'
    OBVIOUS
  <2>1. inbox'[c] = <<>> /\ outbox'[c] = outbox[c]
    BY <1>1
  <2>2. CASE c \in Connections
    <3>1. conn'[c] = [pc |-> "closed", line |-> NoLine]
      BY <1>1, <2>2
    <3>2. conn'[c] \in Threads
      BY <3>1, NoLineIs DEF Threads
    <3>3. conn'[c].pc = "closed"
      BY <3>1
    <3>4. conn[c].pc # "none"
      BY <2>2 DEF Connections
    <3> QED  BY <2>1, <3>2, <3>3, <3>4 DEF Waiting
  <2>3. CASE c \notin Connections
    <3>1. conn'[c] = conn[c]
      BY <1>1, <2>3
    <3>2. conn[c].pc # "wait"
      BY <2>3 DEF Connections
    <3>3. conn[c] \in Threads
      BY <1>2 DEF GuestTypes
    <3> QED  BY <2>1, <3>1, <3>2, <3>3 DEF Waiting
  <2> QED  BY <2>2, <2>3
<1>4. GuestTypes'
  <2>1. <<>> \in Seq(LineSet) /\ <<>> \in Seq(CallSet) /\ <<>> \in Seq(PassedOn)
    OBVIOUS
  <2>2. conn' \in [Conns -> Threads]
    BY <1>1, <1>3
  <2>3. inbox' \in [Conns -> Seq(LineSet)]
    BY <1>1, <2>1
  <2> QED  BY <1>1, <1>2, <2>1, <2>2, <2>3 DEF GuestTypes
<1>5. HttpTypes' /\ Places' /\ BatchAnswersMatch'
  BY DEF IInv, HttpTypes, Places, ClientAt, AnswersSoFar, BatchAnswersMatch, Expected, transport
<1>6. OneLineEach'
  <2> SUFFICES ASSUME NEW c \in Conns PROVE LineOf(c)'
    BY DEF OneLineEach
  <2>1. LineOf(c)
    BY <1>2 DEF OneLineEach
  <2>2. Len(<<>>) = 0 /\ DOMAIN <<>> = {}
    OBVIOUS
  <2>3. Len(inbox'[c]) <= 1
    BY <1>3, <2>2
  <2>4. Begun(c)' <=> Begun(c)
    BY DEF Begun, transport
  <2> QED  BY <1>3, <2>1, <2>2, <2>3, <2>4 DEF LineOf
<1>7. HandedAreRead'
  <2>1. DOMAIN <<>> = {}
    OBVIOUS
  <2>2. Handed' \subseteq Handed
    BY <1>1, <2>1 DEF Handed, Entries
  <2>3. \A v \in Handed : v.c \in Conns
    BY <1>2, HandedIs, CallIs
  <2> QED  BY <1>2, <1>3, <2>2, <2>3 DEF HandedAreRead
<1>8. TakenInOrder'
  <2>1. DOMAIN <<>> = {}
    OBVIOUS
  <2> QED  BY <1>1, <1>2, <2>1, BeforeKept DEF TakenInOrder
<1> QED  BY <1>4, <1>5, <1>6, <1>7, <1>8 DEF IInv

LEMMA GuestStepKeeps ==
  ASSUME IInv, GuestStep, UNCHANGED transport
  PROVE  IInv'
<1>1. CASE \E c \in Conns : ThreadStep(c) \/ Accept(c)
  <2>1. PICK c \in Conns : ThreadStep(c) \/ Accept(c)
    BY <1>1
  <2>2. GuestTypes /\ LineOf(c)
    BY DEF IInv, OneLineEach
  <2>3. CASE Dispatch(c)
    BY <2>3, DispatchKeeps
  <2>4. CASE ReadSilently(c)
    BY <2>2, <2>4, ReadSilentlyKept, ThreadKeeps DEF ReadSilently
  <2>5. CASE AnswerLocally(c)
    BY <2>2, <2>5, AnswerLocallyKept, ThreadKeeps DEF AnswerLocally
  <2>6. CASE Receive(c)
    <3>1. UNCHANGED <<cmds, workers, browserq, applied>> /\ replies' \subseteq replies
      BY <2>6 DEF Receive
    <3> QED  BY <2>2, <2>6, <3>1, WaitKept, ThreadKeeps
  <2>7. CASE Timeout(c)
    BY <2>2, <2>7, WaitKept, ThreadKeeps DEF Timeout
  <2>8. CASE EndOfFile(c)
    BY <2>2, <2>8, EndOrAcceptKept, ThreadKeeps DEF EndOfFile
  <2>9. CASE Accept(c)
    BY <2>2, <2>9, EndOrAcceptKept, ThreadKeeps DEF Accept
  <2> QED  BY <2>1, <2>3, <2>4, <2>5, <2>6, <2>7, <2>8, <2>9 DEF ThreadStep
<1> QED  BY <1>1, LoopStepKeeps, BehindLoopKeeps, RestartKeeps DEF GuestStep

-----------------------------------------------------------------------------
(* The transport's steps *)

LEMMA EntryIs ==
  ASSUME NEW S, NEW s \in Seq(S)
  PROVE  /\ DOMAIN s = 1 .. Len(s) /\ Len(s) \in Nat
         /\ \A i \in DOMAIN s : s[i] \in S /\ i \in Nat \ {0}
OBVIOUS

LEMMA PairIs ==
  ASSUME NEW c \in Conns
  PROVE  c[1] \in Clients /\ c[2] \in Nat \ {0} /\ c = <<c[1], c[2]>>
OBVIOUS

\* BatchAnswersMatch, of one client.
Matches(h) ==
  /\ status[h] = 200 =>
       /\ {answers[h][k].n : k \in DOMAIN answers[h]} = Expected(h)
       /\ \A k, l \in DOMAIN answers[h] : k < l => answers[h][k].n < answers[h][l].n
  /\ status[h] = 202 => Expected(h) = {}

\* The connection of the message that a client is at.
Current(h) == <<h, http[h].i>>

LEMMA BodyIs ==
  ASSUME HttpTypes, NEW h \in Clients
  PROVE  /\ body[h] \in Seq([kind : MessageKinds, hasId : BOOLEAN])
         /\ DOMAIN body[h] = 1 .. Len(body[h]) /\ Len(body[h]) \in Nat
         /\ \A i \in DOMAIN body[h] : Message(h, i) \in LineSet /\ Message(h, i).n = i
                                      /\ (Message(h, i).id # NoId <=> i \in Expected(h))
                                      /\ <<h, i>> \in Conns
         /\ Expected(h) \subseteq DOMAIN body[h]
<1>1. body[h] \in Batches \cup {<<>>}
  BY DEF HttpTypes
<1>2. body[h] \in Seq([kind : MessageKinds, hasId : BOOLEAN])
  <2>1. Batches \subseteq Seq([kind : MessageKinds, hasId : BOOLEAN])
    BY BatchesAssumption
  <2>2. <<>> \in Seq([kind : MessageKinds, hasId : BOOLEAN])
    OBVIOUS
  <2> QED  BY ONLY <1>1, <2>1, <2>2
<1>3. /\ DOMAIN body[h] = 1 .. Len(body[h]) /\ Len(body[h]) \in Nat
      /\ \A i \in DOMAIN body[h] : /\ body[h][i] \in [kind : MessageKinds, hasId : BOOLEAN]
                                   /\ i \in Nat \ {0}
  BY <1>2, EntryIs
<1>4. ASSUME NEW i \in DOMAIN body[h]
      PROVE  /\ Message(h, i) \in LineSet /\ Message(h, i).n = i
             /\ Message(h, i).id # NoId <=> i \in Expected(h)
             /\ <<h, i>> \in Conns
  <2>1. body[h][i].kind \in MessageKinds /\ i \in Nat /\ i # 0
    BY <1>3
  <2>2. Message(h, i) \in LineSet /\ Message(h, i).n = i
    BY <2>1 DEF Message, LineSet, NoId
  <2>3. Message(h, i).id # NoId <=> i \in Expected(h)
    BY <2>1 DEF Message, Expected, NoId
  <2>4. body[h] \in Batches
    <3>1. DOMAIN <<>> = {}
      OBVIOUS
    <3> QED  BY <1>1, <3>1
  <2> QED  BY <2>2, <2>3, <2>4
<1> QED  BY <1>2, <1>3, <1>4 DEF Expected

LEMMA HttpIs ==
  ASSUME HttpTypes, NEW h \in Clients
  PROVE  http[h].i \in Nat /\ http[h] = [pc |-> http[h].pc, i |-> http[h].i]
BY DEF HttpTypes

\* What a step on client h does to the others.
OnlyClient(h) ==
  \A g \in Clients \ {h} : /\ body'[g] = body[g] /\ http'[g] = http[g]
                           /\ answers'[g] = answers[g] /\ status'[g] = status[g]

LEMMA OtherClients ==
  ASSUME Places, BatchAnswersMatch, NEW h \in Clients, OnlyClient(h), ClientAt(h)', Matches(h)'
  PROVE  Places' /\ BatchAnswersMatch'
<1>1. \A g \in Clients : ClientAt(g)'
  <2> SUFFICES ASSUME NEW g \in Clients \ {h} PROVE ClientAt(g)'
    OBVIOUS
  <2> QED  BY DEF Places, ClientAt, AnswersSoFar, Expected, OnlyClient
<1>2. \A g \in Clients : Matches(g)'
  <2> SUFFICES ASSUME NEW g \in Clients \ {h} PROVE Matches(g)'
    OBVIOUS
  <2>1. Matches(g)
    BY DEF BatchAnswersMatch, Matches
  <2> QED  BY <2>1 DEF Matches, Expected, OnlyClient
<1> QED  BY <1>1, <1>2 DEF Places, BatchAnswersMatch, Matches

\* The client's thread stays at its message, or goes on to the next one.
Moves(h) ==
  /\ UNCHANGED body /\ \A g \in Clients \ {h} : http'[g] = http[g]
  /\ \/ http'[h].i = http[h].i /\ http'[h].pc # "message"
     \/ http'[h].i = http[h].i + 1 /\ http'[h].pc = "message"

LEMMA BegunStays ==
  ASSUME HttpTypes, NEW h \in Clients, Moves(h), NEW c \in Conns, Begun(c)
  PROVE  Begun(c)'
<1>1. c[1] \in Clients /\ c[2] \in Nat /\ http[h].i \in Nat
  BY HttpIs
<1>2. CASE c[1] = h
  BY <1>1, <1>2 DEF Begun, Moves
<1>3. CASE c[1] # h
  BY <1>1, <1>3 DEF Begun, Moves
<1> QED  BY <1>2, <1>3

LEMMA LinesMove ==
  ASSUME HttpTypes, OneLineEach, NEW h \in Clients, Moves(h),
         NEW c, c = Current(h), OnlyConnection(c), c \in Conns => LineOf(c)'
  PROVE  OneLineEach'
<1> SUFFICES ASSUME NEW d \in Conns, d # c PROVE LineOf(d)'
  BY DEF OneLineEach
<1>1. LineOf(d)
  BY DEF OneLineEach
<1>2. inbox'[d] = inbox[d] /\ outbox'[d] = outbox[d] /\ conn'[d] = conn[d] /\ body' = body
  BY DEF OnlyConnection, Moves
<1>3. Begun(d) => Begun(d)'
  BY BegunStays
<1>4. ASSUME Asks(d)', d[2] < http'[d[1]].i PROVE inbox'[d] = <<>>
  <2>1. Asks(d) /\ d[1] \in Clients /\ d[2] \in Nat /\ http[h].i \in Nat /\ d = <<d[1], d[2]>>
    <3>1. Asks(d)
      BY <1>2, <1>4 DEF Asks
    <3> QED  BY <3>1, HttpIs, PairIs
  <2>2. d[2] < http[d[1]].i
    <3>1. CASE d[1] = h
      <4>1. d[2] # http[h].i
        BY <2>1, <3>1 DEF Current
      <4> QED  BY <1>4, <2>1, <3>1, <4>1 DEF Moves
    <3>2. CASE d[1] # h
      BY <1>4, <2>1, <3>2 DEF Moves
    <3> QED  BY <3>1, <3>2
  <2> QED  BY <1>1, <1>2, <2>1, <2>2 DEF LineOf
<1> QED  BY <1>1, <1>2, <1>3, <1>4 DEF LineOf, Waiting

\* A step that leaves the guest's lines alone and does not go past a request
\* whose line is unread.
LEMMA LinesStay ==
  ASSUME HttpTypes, OneLineEach, NEW h \in Clients, Moves(h), UNCHANGED <<inbox, outbox, conn>>,
         Current(h) \in Conns /\ http'[h].pc = "message" => inbox[Current(h)] = <<>>
  PROVE  OneLineEach'
<1> PICK c : c = Current(h)
  OBVIOUS
<1>1. OnlyConnection(c)
  BY DEF OnlyConnection
<1>2. ASSUME c \in Conns PROVE LineOf(c)'
  <2>1. LineOf(c)
    BY <1>2 DEF OneLineEach
  <2>2. Begun(c) => Begun(c)'
    BY <1>2, BegunStays
  <2>3. c[1] = h /\ c[2] = http[h].i /\ http[h].i \in Nat
    BY HttpIs DEF Current
  <2>4. c[2] < http'[c[1]].i => inbox[c] = <<>>
    BY <1>2, <2>3 DEF Moves
  <2> QED  BY <2>1, <2>2, <2>4 DEF LineOf, Waiting
<1> QED  BY <1>1, <1>2, LinesMove

\* A client that has not sent its message has no line in the guest.
LEMMA NotBegun ==
  ASSUME HttpTypes, OneLineEach, NEW h \in Clients, http[h].pc = "message", Current(h) \in Conns
  PROVE  /\ inbox[Current(h)] = <<>> /\ outbox[Current(h)] = <<>> /\ conn[Current(h)].pc = "none"
<1>1. ~ Begun(Current(h))
  BY HttpIs DEF Begun, Current
<1> QED  BY <1>1 DEF OneLineEach, LineOf

\* Calls that stay where they are stay read and in order.
LEMMA CallsStay ==
  ASSUME HandedAreRead, TakenInOrder, UNCHANGED <<cmds, workers, browserq, applied, body>>,
         \A v \in Handed : inbox'[v.c] = <<>> /\ conn'[v.c].pc # "none"
  PROVE  HandedAreRead' /\ TakenInOrder'
<1>1. HandedAreRead'
  BY DEF HandedAreRead, Handed, Entries
<1>2. TakenInOrder'
  BY DEF TakenInOrder, Before, Asks, RunByLoop
<1> QED  BY <1>1, <1>2

\* A step of client h within the transport, but for what it does to h.
LEMMA ClientKeeps ==
  ASSUME IInv, NEW h \in Clients, Moves(h), OnlyClient(h),
         UNCHANGED <<inbox, outbox, conn, cmds, workers, browserq, replies, applied>>,
         http'[h].pc = "message" => Current(h) \notin Conns \/ inbox[Current(h)] = <<>>,
         HttpTypes', ClientAt(h)', Matches(h)'
  PROVE  IInv'
<1>1. GuestTypes'
  BY DEF IInv, GuestTypes
<1>2. Places' /\ BatchAnswersMatch'
  BY OtherClients DEF IInv
<1>3. OneLineEach'
  BY LinesStay DEF IInv
<1>4. HandedAreRead' /\ TakenInOrder'
  BY CallsStay DEF IInv, HandedAreRead, Moves
<1> QED  BY <1>1, <1>2, <1>3, <1>4 DEF IInv

\* What all steps on client h have to show of the transport.
ClientDone(h) == HttpTypes' /\ Moves(h) /\ OnlyClient(h) /\ ClientAt(h)' /\ Matches(h)'

LEMMA GoesOn ==
  ASSUME HttpTypes, NEW h \in Clients, NextMessage(h)
  PROVE  /\ http' \in [Clients -> [pc : {"idle", "message", "await", "done"}, i : Nat]]
         /\ http'[h].pc = "message" /\ http'[h].i = http[h].i + 1
         /\ \A g \in Clients \ {h} : http'[g] = http[g]
<1> DEFINE t == [pc |-> "message", i |-> http[h].i + 1]
<1>1. /\ http[h].i + 1 \in Nat
      /\ http \in [Clients -> [pc : {"idle", "message", "await", "done"}, i : Nat]]
  BY HttpIs DEF HttpTypes
<1>2. t \in [pc : {"idle", "message", "await", "done"}, i : Nat]
  BY <1>1
<1>3. t.pc = "message" /\ t.i = http[h].i + 1 /\ http' = [http EXCEPT ![h] = t]
  BY DEF NextMessage
<1> HIDE DEF t
<1> QED  BY <1>1, <1>2, <1>3

\* The thread keeps its message and changes its place only.
LEMMA StaysAt ==
  ASSUME HttpTypes, NEW h \in Clients, NEW pc \in {"await", "done"},
         http' = [http EXCEPT ![h].pc = pc]
  PROVE  /\ http' \in [Clients -> [pc : {"idle", "message", "await", "done"}, i : Nat]]
         /\ http'[h].pc = pc /\ http'[h].i = http[h].i
         /\ \A g \in Clients \ {h} : http'[g] = http[g]
<1> DEFINE t == [pc |-> pc, i |-> http[h].i]
<1>1. /\ http[h].i \in Nat /\ http[h] = [pc |-> http[h].pc, i |-> http[h].i]
      /\ http \in [Clients -> [pc : {"idle", "message", "await", "done"}, i : Nat]]
  BY HttpIs DEF HttpTypes
<1>2. t \in [pc : {"idle", "message", "await", "done"}, i : Nat]
  BY <1>1
<1>3. t.pc = pc /\ t.i = http[h].i
  OBVIOUS
<1>4. [http[h] EXCEPT !.pc = pc] = t
  BY <1>1
<1>5. http' = [http EXCEPT ![h] = t]
  BY <1>4
<1> HIDE DEF t
<1> QED  BY <1>1, <1>2, <1>3, <1>5

\* A message with an id is answered.
LEMMA Collects ==
  ASSUME HttpTypes, Places, NEW h \in Clients, http[h].pc \in {"message", "await"},
         http[h].i \in Expected(h), NEW r \in ReplySet, r.n = http[h].i,
         answers' = [answers EXCEPT ![h] = Append(answers[h], r)],
         NextMessage(h), UNCHANGED <<body, status>>
  PROVE  ClientDone(h)
<1> PICK i, s : i = http[h].i /\ s = answers[h]
  OBVIOUS
<1>1. /\ i \in Nat /\ i > 0 /\ status[h] = 0 /\ AnswersSoFar(h, i) /\ s \in Seq(ReplySet)
      /\ answers \in [Clients -> Seq(ReplySet)] /\ i \in Expected(h) /\ r.n = i
  BY HttpIs DEF HttpTypes, Places, ClientAt
<1>2. /\ http' \in [Clients -> [pc : {"idle", "message", "await", "done"}, i : Nat]]
      /\ http'[h].pc = "message" /\ http'[h].i = i + 1
      /\ \A g \in Clients \ {h} : http'[g] = http[g]
  BY GoesOn
<1>3. /\ Append(s, r) \in Seq(ReplySet) /\ Len(s) \in Nat
      /\ DOMAIN Append(s, r) = DOMAIN s \cup {Len(s) + 1}
      /\ \A k \in DOMAIN s : Append(s, r)[k] = s[k] /\ s[k] \in ReplySet /\ k < Len(s) + 1
      /\ Append(s, r)[Len(s) + 1] = r
  BY <1>1, AppendIs
<1>4. /\ answers' \in [Clients -> Seq(ReplySet)] /\ answers'[h] = Append(s, r)
      /\ \A g \in Clients \ {h} : answers'[g] = answers[g]
  BY <1>1, <1>3
<1>5. /\ {s[k].n : k \in DOMAIN s} = {j \in Expected(h) : j < i}
      /\ \A k, l \in DOMAIN s : k < l => s[k].n < s[l].n
  BY <1>1 DEF AnswersSoFar
<1>6. Expected(h)' = Expected(h) /\ Expected(h) \subseteq Nat /\ status'[h] = 0
  <2>1. Expected(h) \subseteq Nat
    BY BodyIs
  <2> QED  BY <1>1, <2>1 DEF Expected
<1>7. AnswersSoFar(h, i + 1)'
  <2>1. {answers'[h][k].n : k \in DOMAIN answers'[h]} = {s[k].n : k \in DOMAIN s} \cup {i}
    <3> PICK t : t = Append(s, r)
      OBVIOUS
    <3>1. \A k \in DOMAIN s : t[k].n = s[k].n
      BY <1>3
    <3>2. DOMAIN t = DOMAIN s \cup {Len(s) + 1} /\ t[Len(s) + 1].n = i
      BY <1>1, <1>3
    <3>3. {t[k].n : k \in DOMAIN t} = {s[k].n : k \in DOMAIN s} \cup {i}
      BY ONLY <3>1, <3>2
    <3> QED  BY <1>4, <3>3
  <2>2. {j \in Expected(h) : j < i} \cup {i} = {j \in Expected(h) : j < i + 1}
    BY <1>1, <1>6
  <2>3. ASSUME NEW k \in DOMAIN answers'[h], NEW l \in DOMAIN answers'[h], k < l
        PROVE  answers'[h][k].n < answers'[h][l].n
    <3>1. k \in DOMAIN s
      <4>1. DOMAIN s = 1 .. Len(s)
        BY <1>1
      <4> QED  BY <1>3, <1>4, <2>3, <4>1
    <3>2. s[k].n < i
      BY <1>5, <3>1
    <3> QED  BY <1>1, <1>3, <1>4, <1>5, <2>3, <3>1, <3>2
  <2> QED  BY <1>5, <1>6, <2>1, <2>2, <2>3 DEF AnswersSoFar
<1> QED  BY <1>1, <1>2, <1>4, <1>6, <1>7
         DEF ClientDone, HttpTypes, Moves, OnlyClient, ClientAt, Matches

\* A message without an id is passed.
LEMMA Passes ==
  ASSUME HttpTypes, Places, NEW h \in Clients, http[h].pc = "message",
         http[h].i \notin Expected(h), NextMessage(h), UNCHANGED <<body, answers, status>>
  PROVE  ClientDone(h)
<1> PICK i : i = http[h].i
  OBVIOUS
<1>1. i \in Nat /\ i > 0 /\ status[h] = 0 /\ AnswersSoFar(h, i) /\ i \notin Expected(h)
  BY HttpIs DEF Places, ClientAt
<1>2. /\ http' \in [Clients -> [pc : {"idle", "message", "await", "done"}, i : Nat]]
      /\ http'[h].pc = "message" /\ http'[h].i = i + 1
      /\ \A g \in Clients \ {h} : http'[g] = http[g]
  BY GoesOn
<1>3. Expected(h)' = Expected(h) /\ Expected(h) \subseteq Nat
  <2>1. Expected(h) \subseteq Nat
    BY BodyIs
  <2> QED  BY <2>1 DEF Expected
<1>4. AnswersSoFar(h, i + 1)'
  <2>1. {j \in Expected(h) : j < i} = {j \in Expected(h) : j < i + 1}
    BY <1>1, <1>3
  <2> QED  BY <1>1, <1>3, <2>1 DEF AnswersSoFar
<1> QED  BY <1>1, <1>2, <1>3, <1>4 DEF ClientDone, HttpTypes, Moves, OnlyClient, ClientAt, Matches

LEMMA Codes ==
  /\ 0 \in Nat /\ 0 # 200 /\ 0 # 202 /\ 502 \in Nat /\ 502 # 200 /\ 502 # 202
  /\ 200 \in Nat /\ 202 \in Nat /\ 200 # 202
OBVIOUS

\* The thread ends, with or without a status.
LEMMA Ends ==
  ASSUME HttpTypes, NEW h \in Clients, http' = [http EXCEPT ![h].pc = "done"],
         NEW s \in Nat, status' = [status EXCEPT ![h] = s], UNCHANGED <<body, answers>>,
         s = 200 => /\ {answers[h][k].n : k \in DOMAIN answers[h]} = Expected(h)
                    /\ \A k, l \in DOMAIN answers[h] : k < l => answers[h][k].n < answers[h][l].n,
         s = 202 => Expected(h) = {}
  PROVE  ClientDone(h) /\ http'[h].pc = "done"
<1>1. /\ http' \in [Clients -> [pc : {"idle", "message", "await", "done"}, i : Nat]]
      /\ http'[h].pc = "done" /\ http'[h].i = http[h].i
      /\ \A g \in Clients \ {h} : http'[g] = http[g]
  BY StaysAt
<1>2. /\ status' \in [Clients -> Nat] /\ status'[h] = s
      /\ \A g \in Clients \ {h} : status'[g] = status[g]
  BY DEF HttpTypes
<1>3. Expected(h)' = Expected(h)
  BY DEF Expected
<1>4. HttpTypes' /\ Moves(h) /\ OnlyClient(h)
  BY <1>1, <1>2 DEF HttpTypes, Moves, OnlyClient
<1>5. ClientAt(h)'
  BY <1>1 DEF ClientAt
<1>6. Matches(h)'
  BY <1>2, <1>3 DEF Matches
<1> QED  BY <1>1, <1>4, <1>5, <1>6 DEF ClientDone

LEMMA Drops ==
  ASSUME HttpTypes, NEW h \in Clients, Fail(h), UNCHANGED <<body, answers>>
  PROVE  ClientDone(h) /\ http'[h].pc = "done"
<1>1. http' = [http EXCEPT ![h].pc = "done"] /\ status' = [status EXCEPT ![h] = 502]
  BY DEF Fail
<1> PICK s : s = 502
  OBVIOUS
<1>2. s \in Nat /\ s # 200 /\ s # 202
  BY Codes
<1>3. status' = [status EXCEPT ![h] = s]
  BY <1>1
<1> QED  BY ONLY HttpTypes, <1>1, <1>2, <1>3, UNCHANGED <<body, answers>>, Ends

LEMMA AtMessageIs ==
  ASSUME HttpTypes, NEW h \in Clients, NEW kinds, AtMessage(h, kinds)
  PROVE  /\ http[h].pc = "message" /\ http[h].i \in DOMAIN body[h] /\ Current(h) \in Conns
         /\ Message(h, http[h].i) \in LineSet /\ Message(h, http[h].i).n = http[h].i
         /\ Message(h, http[h].i).id # NoId <=> http[h].i \in Expected(h)
BY BodyIs DEF AtMessage, Current

LEMMA EndStepKeeps ==
  ASSUME IInv, NEW h \in Clients,
         \/ Unreadable(h) \/ Refuse(h) \/ CaptureFails(h)
         \/ ConnectFails(h) \/ NoAnswer(h) \/ Respond(h)
  PROVE  IInv'
<1>1. /\ HttpTypes /\ Places /\ status \in [Clients -> Nat]
      /\ UNCHANGED <<inbox, outbox, conn, cmds, workers, browserq, replies, applied>>
      /\ UNCHANGED <<body, answers>>
  BY DEF IInv, HttpTypes, Unreadable, Refuse, CaptureFails, ConnectFails, NoAnswer, Respond, guest
<1>2. ClientDone(h) /\ http'[h].pc = "done"
  <2>1. CASE Unreadable(h)
    <3>1. http[h].pc = "idle" /\ http' = [http EXCEPT ![h].pc = "done"] /\ status' = status
      BY <2>1 DEF Unreadable
    <3> PICK s : s = 0
      OBVIOUS
    <3>2. status' = [status EXCEPT ![h] = s]
      BY <1>1, <3>1 DEF Places, ClientAt
    <3>3. s \in Nat /\ s # 200 /\ s # 202
      BY Codes
    <3> QED  BY <1>1, <3>1, <3>2, <3>3, Ends
  <2>2. CASE Refuse(h)
    <3>1. http' = [http EXCEPT ![h].pc = "done"]
      BY <2>2 DEF Refuse
    <3>2. PICK s \in Refusals : status' = [status EXCEPT ![h] = s]
      BY <2>2 DEF Refuse
    <3>3. s \in Nat /\ s # 200 /\ s # 202
      BY DEF Refusals
    <3> QED  BY <1>1, <3>1, <3>2, <3>3, Ends
  <2>3. CASE CaptureFails(h) \/ ConnectFails(h) \/ NoAnswer(h)
    <3>1. Fail(h)
      BY <2>3 DEF CaptureFails, ConnectFails, NoAnswer
    <3> QED  BY <1>1, <3>1, Drops
  <2>4. CASE Respond(h)
    <3> PICK i, s : i = http[h].i /\ s = answers[h]
      OBVIOUS
    <3>1. /\ http[h].pc = "message" /\ i \notin DOMAIN body[h]
          /\ http' = [http EXCEPT ![h].pc = "done"]
          /\ status' = [status EXCEPT ![h] = IF s = <<>> THEN 202 ELSE 200]
      BY <2>4 DEF Respond
    <3>2. /\ i \in Nat /\ i > 0 /\ s \in Seq(ReplySet)
          /\ {s[k].n : k \in DOMAIN s} = {j \in Expected(h) : j < i}
          /\ \A k, l \in DOMAIN s : k < l => s[k].n < s[l].n
      BY <1>1, <3>1, HttpIs DEF HttpTypes, Places, ClientAt, AnswersSoFar
    <3>3. {j \in Expected(h) : j < i} = Expected(h)
      <4>1. /\ DOMAIN body[h] = 1 .. Len(body[h]) /\ Len(body[h]) \in Nat
            /\ Expected(h) \subseteq DOMAIN body[h]
        BY <1>1, BodyIs
      <4>2. \A j \in DOMAIN body[h] : j < i
        BY <3>1, <3>2, <4>1
      <4> QED  BY <4>1, <4>2
    <3>4. CASE s = <<>>
      <4>1. Expected(h) = {}
        <5>1. DOMAIN s = {}
          BY <3>4
        <5> QED  BY <3>2, <3>3, <5>1
      <4> PICK w : w = 202
        OBVIOUS
      <4>2. w \in Nat /\ w # 200 /\ status' = [status EXCEPT ![h] = w]
        BY <3>1, <3>4, Codes
      <4>3. http' = [http EXCEPT ![h].pc = "done"]
        BY <3>1
      <4> QED  BY ONLY <1>1, <4>1, <4>2, <4>3, Ends
    <3>5. CASE s # <<>>
      <4> PICK w : w = 200
        OBVIOUS
      <4>1. w \in Nat /\ w # 202 /\ status' = [status EXCEPT ![h] = w]
        BY <3>1, <3>5, Codes
      <4>2. http' = [http EXCEPT ![h].pc = "done"]
        BY <3>1
      <4>3. /\ {answers[h][k].n : k \in DOMAIN answers[h]} = Expected(h)
            /\ \A k, l \in DOMAIN answers[h] : k < l => answers[h][k].n < answers[h][l].n
        BY <3>2, <3>3
      <4> QED  BY ONLY <1>1, <4>1, <4>2, <4>3, Ends
    <3> QED  BY <3>4, <3>5
  <2> QED  BY <2>1, <2>2, <2>3, <2>4
<1> QED  BY <1>1, <1>2, ClientKeeps DEF ClientDone

\* The host answers the message itself, or passes it when it has no id.
LEMMA HostAnswerKeeps ==
  ASSUME IInv, NEW h \in Clients, HandleReboot(h) \/ HandleCapture(h)
  PROVE  IInv'
<1>1. /\ HttpTypes /\ Places /\ OneLineEach /\ UNCHANGED <<guest, body, status>> /\ NextMessage(h)
      /\ answers \in [Clients -> Seq(ReplySet)]
  BY DEF IInv, HttpTypes, HandleReboot, HandleCapture
<1>2. PICK kinds : AtMessage(h, kinds)
  BY DEF HandleReboot, HandleCapture
<1> PICK m : m = Message(h, http[h].i)
  OBVIOUS
<1>3. /\ http[h].pc = "message" /\ Current(h) \in Conns
      /\ m \in LineSet /\ m.n = http[h].i /\ (m.id # NoId <=> http[h].i \in Expected(h))
  BY <1>1, <1>2, AtMessageIs
<1>4. PICK text \in Texts : HostAnswers(h, text)
  BY DEF HandleReboot, HandleCapture, Texts
<1>5. ClientDone(h)
  <2>1. CASE m.id = NoId
    <3>1. answers' = answers
      BY <1>4, <2>1 DEF HostAnswers
    <3> QED  BY <1>1, <1>3, <2>1, <3>1, Passes
  <2>2. CASE m.id # NoId
    <3> PICK r : r = Reply(m, m.id, text, NoCall)
      OBVIOUS
    <3>1. answers' = [answers EXCEPT ![h] = Append(answers[h], r)]
      BY <1>4, <2>2 DEF HostAnswers
    <3>2. m.id \in Nat /\ NoCall \in Origins
      BY <1>3 DEF LineSet, Origins
    <3>3. r \in ReplySet /\ r.n = http[h].i
      BY <1>3, <3>2, ReplyIs
    <3> QED  BY <1>1, <1>3, <2>2, <3>1, <3>3, Collects
  <2> QED  BY <2>1, <2>2
<1>6. inbox[Current(h)] = <<>>
  BY <1>1, <1>3, NotBegun
<1> QED  BY <1>1, <1>5, <1>6, ClientKeeps DEF ClientDone, guest

LEMMA TakeAnswerKeeps ==
  ASSUME IInv, NEW h \in Clients, TakeAnswer(h)
  PROVE  IInv'
<1> PICK c : c = Current(h)
  OBVIOUS
<1>1. /\ HttpTypes /\ Places /\ OneLineEach /\ BatchAnswersMatch /\ HandedAreRead /\ TakenInOrder
      /\ outbox \in [Conns -> Seq(ReplySet)]
  BY DEF IInv, GuestTypes
<1>2. /\ http[h].pc = "await" /\ outbox[c] # <<>> /\ NextMessage(h)
      /\ answers' = [answers EXCEPT ![h] = Append(answers[h], Head(outbox[c]))]
      /\ outbox' = [outbox EXCEPT ![c] = Tail(outbox[c])]
      /\ UNCHANGED <<inbox, conn, cmds, workers, browserq, replies, applied, body, status>>
  BY DEF TakeAnswer, Current
<1>3. http[h].i \in Expected(h) /\ c \in Conns /\ c[1] = h /\ c[2] = http[h].i
  <2>1. http[h].i \in Expected(h)
    BY <1>1, <1>2 DEF Places, ClientAt
  <2> QED  BY <1>1, <2>1, BodyIs DEF Current
<1>4. LineOf(c)
  BY <1>1, <1>3 DEF OneLineEach
<1>5. /\ Tail(outbox[c]) \in Seq(ReplySet) /\ Head(outbox[c]) \in ReplySet
      /\ Head(outbox[c]).n = c[2]
      /\ \A j \in DOMAIN Tail(outbox[c]) : Tail(outbox[c])[j].n = c[2]
  <2>1. outbox[c] \in Seq(ReplySet)
    BY <1>1, <1>3
  <2> QED  BY <1>2, <1>4, <2>1, TailIs DEF LineOf
<1>6. ClientDone(h)
  BY <1>1, <1>2, <1>3, <1>5, Collects
<1>7. /\ outbox' \in [Conns -> Seq(ReplySet)]
      /\ \A j \in DOMAIN outbox'[c] : outbox'[c][j].n = c[2]
      /\ \A d \in Conns \ {c} : outbox'[d] = outbox[d]
  BY <1>1, <1>2, <1>3, <1>5
<1>8. OneLineEach'
  <2>1. inbox'[c] = <<>>
    BY <1>2, <1>4 DEF LineOf
  <2>2. conn'[c] = conn[c] /\ conn[c].pc # "none" /\ (Waiting(c)' => conn'[c].line.n = c[2])
    BY <1>2, <1>4 DEF LineOf, Waiting
  <2>3. Begun(c)'
    BY <1>1, <1>3, <1>4, <1>6, <2>2, BegunStays DEF LineOf, ClientDone
  <2>4. Len(<<>>) = 0 /\ DOMAIN <<>> = {}
    OBVIOUS
  <2>5. Len(inbox'[c]) <= 1
    BY <2>1, <2>4
  <2>6. LineOf(c)'
    BY <1>7, <2>1, <2>2, <2>3, <2>4, <2>5 DEF LineOf
  <2>7. OnlyConnection(c)
    BY <1>2, <1>7 DEF OnlyConnection
  <2> QED  BY <1>1, <1>6, <2>6, <2>7, LinesMove DEF ClientDone
<1>9. HandedAreRead' /\ TakenInOrder'
  BY <1>1, <1>2, CallsStay DEF HandedAreRead
<1>10. GuestTypes'
  BY <1>2, <1>7 DEF IInv, GuestTypes
<1>11. Places' /\ BatchAnswersMatch'
  BY <1>1, <1>6, OtherClients DEF ClientDone
<1> QED  BY <1>6, <1>8, <1>9, <1>10, <1>11 DEF IInv, ClientDone

LEMMA ForwardKeeps ==
  ASSUME IInv, NEW h \in Clients, Forward(h)
  PROVE  IInv'
<1> PICK c, i, m : c = Current(h) /\ i = http[h].i /\ m = Message(h, i)
  OBVIOUS
<1>1. /\ HttpTypes /\ Places /\ OneLineEach /\ BatchAnswersMatch /\ HandedAreRead /\ TakenInOrder
      /\ GuestTypes /\ inbox \in [Conns -> Seq(LineSet)] /\ conn \in [Conns -> Threads]
  BY DEF IInv, GuestTypes
<1>2. /\ Connected(c) /\ Send(c, m)
      /\ UNCHANGED <<outbox, cmds, workers, browserq, replies, applied, body, answers, status>>
      /\ IF m.id = NoId THEN NextMessage(h) ELSE http' = [http EXCEPT ![h].pc = "await"]
  BY DEF Forward, Current
<1>3. /\ http[h].pc = "message" /\ c \in Conns /\ c[1] = h /\ c[2] = i /\ i \in Nat
      /\ i \in DOMAIN body[h]
      /\ m \in LineSet /\ m.n = i /\ (m.id # NoId <=> i \in Expected(h))
  <2>1. PICK kinds : AtMessage(h, kinds)
    BY DEF Forward
  <2> QED  BY <1>1, <2>1, AtMessageIs, HttpIs DEF Current
<1>4. inbox[c] = <<>> /\ outbox[c] = <<>> /\ conn[c].pc = "none"
  BY <1>1, <1>3, NotBegun
<1>5. ClientDone(h)
  <2>1. CASE m.id = NoId
    BY <1>1, <1>2, <1>3, <2>1, Passes
  <2>2. CASE m.id # NoId
    <3>1. http' = [http EXCEPT ![h].pc = "await"]
      BY <1>2, <2>2
    <3>2. /\ http' \in [Clients -> [pc : {"idle", "message", "await", "done"}, i : Nat]]
          /\ http'[h].pc = "await" /\ http'[h].i = i
          /\ \A g \in Clients \ {h} : http'[g] = http[g]
      BY <1>1, <3>1, StaysAt
    <3>3. i > 0 /\ status[h] = 0 /\ AnswersSoFar(h, i) /\ i \in Expected(h)
      BY <1>1, <1>3, <2>2 DEF Places, ClientAt
    <3>4. Expected(h)' = Expected(h)
      BY <1>2 DEF Expected
    <3>5. AnswersSoFar(h, i)'
      BY <1>2, <3>3, <3>4 DEF AnswersSoFar
    <3> QED  BY <1>1, <1>2, <3>2, <3>3, <3>4, <3>5
             DEF ClientDone, HttpTypes, Moves, OnlyClient, ClientAt, Matches
  <2> QED  BY <2>1, <2>2
<1>6. /\ inbox' \in [Conns -> Seq(LineSet)] /\ inbox'[c] = Append(<<>>, m)
      /\ \A d \in Conns \ {c} : inbox'[d] = inbox[d]
  <2>1. Append(<<>>, m) \in Seq(LineSet)
    BY <1>3, AppendProperties
  <2> QED  BY <1>1, <1>2, <1>3, <1>4, <2>1 DEF Send
<1>7. /\ conn' \in [Conns -> Threads] /\ conn'[c].pc = "pending"
      /\ \A d \in Conns \ {c} : conn'[d] = conn[d]
  <2>1. /\ conn[c] = [pc |-> conn[c].pc, line |-> conn[c].line]
        /\ conn[c].line \in LineSet \cup {NoLine}
    BY <1>1, <1>3 DEF Threads
  <2>2. [conn[c] EXCEPT !.pc = "pending"] = [pc |-> "pending", line |-> conn[c].line]
    BY <2>1
  <2>3. conn' = [conn EXCEPT ![c] = [pc |-> "pending", line |-> conn[c].line]]
    BY <1>2, <2>2 DEF Connected
  <2> QED  BY <1>1, <1>3, <2>1, <2>3, ThreadIs
<1>8. OneLineEach'
  <2>1. Begun(c)'
    <3>1. CASE m.id = NoId
      <4>1. http'[h].i = i + 1
        BY <1>1, <1>2, <3>1, GoesOn
      <4> QED  BY <1>2, <1>3, <4>1 DEF Begun
    <3>2. CASE m.id # NoId
      <4>1. http'[h].i = i /\ http'[h].pc = "await"
        BY <1>1, <1>2, <3>2, StaysAt
      <4> QED  BY <1>2, <1>3, <4>1 DEF Begun
    <3> QED  BY <3>1, <3>2
  <2>2. Len(Append(<<>>, m)) = 1 /\ \A j \in DOMAIN Append(<<>>, m) : Append(<<>>, m)[j] = m
    OBVIOUS
  <2>3. outbox'[c] = <<>> /\ ~ Waiting(c)'
    BY <1>2, <1>4, <1>7 DEF Waiting
  <2>4. ~ (Asks(c)' /\ c[2] < http'[c[1]].i)
    <3>1. CASE m.id = NoId
      BY <1>2, <1>3, <3>1 DEF Asks, Expected
    <3>2. CASE m.id # NoId
      <4>1. http'[h].i = i
        BY <1>1, <1>2, <3>2, StaysAt
      <4> QED  BY <1>3, <4>1
    <3> QED  BY <3>1, <3>2
  <2>5. DOMAIN <<>> = {}
    OBVIOUS
  <2>6. /\ conn'[c].pc # "none" /\ Len(inbox'[c]) <= 1
        /\ \A j \in DOMAIN inbox'[c] : inbox'[c][j].n = c[2]
    BY <1>3, <1>6, <1>7, <2>2
  <2>7. LineOf(c)'
    BY <2>1, <2>3, <2>4, <2>5, <2>6 DEF LineOf
  <2>8. OnlyConnection(c)
    BY <1>2, <1>6, <1>7 DEF OnlyConnection
  <2> QED  BY <1>1, <1>5, <2>7, <2>8, LinesMove DEF ClientDone
<1>9. HandedAreRead' /\ TakenInOrder'
  <2>1. ASSUME NEW v \in Handed PROVE inbox'[v.c] = <<>> /\ conn'[v.c].pc # "none"
    <3>1. v.c \in Conns /\ inbox[v.c] = <<>> /\ conn[v.c].pc # "none"
      BY <1>1, HandedIs, CallIs DEF HandedAreRead
    <3>2. v.c # c
      BY <1>4, <3>1
    <3> QED  BY <1>6, <1>7, <3>1, <3>2
  <2> QED  BY <1>1, <1>2, <2>1, CallsStay
<1>10. GuestTypes'
  BY <1>1, <1>2, <1>6, <1>7 DEF GuestTypes
<1>11. Places' /\ BatchAnswersMatch'
  BY <1>1, <1>5, OtherClients DEF ClientDone
<1> QED  BY <1>5, <1>8, <1>9, <1>10, <1>11 DEF IInv, ClientDone

LEMMA PostKeeps ==
  ASSUME IInv, NEW h \in Clients, NEW b \in Batches, Post(h, b)
  PROVE  IInv'
<1>1. /\ HttpTypes /\ Places /\ OneLineEach /\ BatchAnswersMatch /\ HandedAreRead /\ TakenInOrder
      /\ GuestTypes
  BY DEF IInv
<1>2. /\ http[h].pc = "idle" /\ http[h].i = 0 /\ answers[h] = <<>> /\ status[h] = 0
      /\ body' = [body EXCEPT ![h] = b] /\ http' = [http EXCEPT ![h] = [pc |-> "message", i |-> 1]]
      /\ UNCHANGED <<guest, answers, status>>
  BY <1>1 DEF Post, Places, ClientAt
<1>3. /\ body' \in [Clients -> Batches \cup {<<>>}] /\ body'[h] = b
      /\ \A g \in Clients \ {h} : body'[g] = body[g]
  BY <1>1, <1>2 DEF HttpTypes
<1>4. /\ http' \in [Clients -> [pc : {"idle", "message", "await", "done"}, i : Nat]]
      /\ http'[h].pc = "message" /\ http'[h].i = 1
      /\ \A g \in Clients \ {h} : http'[g] = http[g]
  <2> PICK t : t = [pc |-> "message", i |-> 1]
    OBVIOUS
  <2>1. t \in [pc : {"idle", "message", "await", "done"}, i : Nat] /\ t.pc = "message" /\ t.i = 1
    OBVIOUS
  <2> QED  BY <1>1, <1>2, <2>1 DEF HttpTypes
<1>5. HttpTypes'
  BY <1>1, <1>2, <1>3, <1>4 DEF HttpTypes
<1>6. \A c \in Conns : c[1] = h =>
        ~ Begun(c) /\ conn[c].pc = "none" /\ inbox[c] = <<>> /\ outbox[c] = <<>>
  <2> SUFFICES ASSUME NEW c \in Conns, c[1] = h
               PROVE  ~ Begun(c) /\ conn[c].pc = "none" /\ inbox[c] = <<>> /\ outbox[c] = <<>>
    OBVIOUS
  <2>1. c[2] \in Nat /\ c[2] > 0
    BY PairIs
  <2>2. ~ Begun(c)
    BY <1>2, <2>1 DEF Begun
  <2> QED  BY <1>1, <2>2 DEF OneLineEach, LineOf
<1>7. OneLineEach'
  <2> SUFFICES ASSUME NEW c \in Conns PROVE LineOf(c)'
    BY DEF OneLineEach
  <2>1. LineOf(c) /\ c[1] \in Clients
    BY <1>1, PairIs DEF OneLineEach
  <2>2. inbox' = inbox /\ outbox' = outbox /\ conn' = conn
    BY <1>2 DEF guest
  <2>3. CASE c[1] = h
    <3>1. ~ Waiting(c)' /\ conn'[c].pc = "none" /\ inbox'[c] = <<>> /\ outbox'[c] = <<>>
      BY <1>6, <2>2, <2>3 DEF Waiting
    <3> QED  BY <2>1, <2>2, <3>1 DEF LineOf
  <2>4. CASE c[1] # h
    BY <1>3, <1>4, <2>1, <2>2, <2>4 DEF LineOf, Begun, Asks, Waiting
  <2> QED  BY <2>3, <2>4
<1>8. HandedAreRead'
  BY <1>1, <1>2 DEF HandedAreRead, Handed, Entries, guest
<1>9. TakenInOrder'
  <2>1. \A v \in Handed : v.c \in Conns /\ v.c[1] \in Clients /\ v.c[1] # h
    BY <1>1, <1>6, HandedIs, CallIs DEF HandedAreRead
  <2>2. \A v, w \in Handed : Before(v, w) => Before(v, w)'
    BY <1>3, <2>1 DEF Before, Asks, RunByLoop
  <2>3. /\ \A p \in DOMAIN applied : applied[p] \in Handed
        /\ \A p \in DOMAIN cmds : cmds[p] \in Handed
    BY DEF Handed, Entries
  <2>4. applied' = applied /\ cmds' = cmds
    BY <1>2 DEF guest
  <2>5. /\ \A p, q \in DOMAIN applied : p < q => Before(applied[p], applied[q])'
        /\ \A p \in DOMAIN applied, q \in DOMAIN cmds : Before(applied[p], cmds[q])'
        /\ \A p, q \in DOMAIN cmds : p < q => Before(cmds[p], cmds[q])'
    BY <1>1, <2>2, <2>3, <2>4 DEF TakenInOrder
  <2> QED  BY <2>4, <2>5 DEF TakenInOrder
<1>10. GuestTypes'
  BY <1>1, <1>2 DEF GuestTypes, guest
<1>11. Places' /\ BatchAnswersMatch'
  <2>1. OnlyClient(h)
    BY <1>2, <1>3, <1>4 DEF OnlyClient
  <2>2. Matches(h)'
    BY <1>2 DEF Matches
  <2>3. AnswersSoFar(h, 1)'
    <3>1. DOMAIN answers'[h] = {}
      BY <1>2
    <3>2. {j \in Expected(h)' : j < 1} = {}
      <4>1. \A j \in DOMAIN b : j \in Nat /\ j # 0
        <5>1. b \in Seq([kind : MessageKinds, hasId : BOOLEAN])
          BY BatchesAssumption
        <5> QED  BY <5>1, EntryIs
      <4>2. Expected(h)' \subseteq DOMAIN b
        BY <1>3 DEF Expected
      <4>3. \A j \in Nat : j # 0 => ~ (j < 1)
        OBVIOUS
      <4> QED  BY <4>1, <4>2, <4>3
    <3>3. {answers'[h][k].n : k \in DOMAIN answers'[h]} = {}
      BY <3>1
    <3> QED  BY <3>1, <3>2, <3>3 DEF AnswersSoFar
  <2>4. ClientAt(h)'
    BY <1>2, <1>4, <2>3 DEF ClientAt
  <2> QED  BY <1>1, <2>1, <2>2, <2>4, OtherClients
<1> QED  BY <1>5, <1>7, <1>8, <1>9, <1>10, <1>11 DEF IInv

-----------------------------------------------------------------------------
(* The invariant *)

LEMMA InitIInv == Init => IInv
<1> SUFFICES ASSUME Init PROVE IInv
  OBVIOUS
<1>1. /\ <<>> \in Seq(LineSet) /\ <<>> \in Seq(ReplySet) /\ <<>> \in Seq(CallSet)
      /\ <<>> \in Seq(PassedOn) /\ DOMAIN <<>> = {} /\ Len(<<>>) = 0
  OBVIOUS
<1>2. /\ inbox = [c \in Conns |-> <<>>] /\ outbox = [c \in Conns |-> <<>>]
      /\ conn = [c \in Conns |-> [pc |-> "none", line |-> NoLine]]
      /\ cmds = <<>> /\ browserq = <<>> /\ applied = <<>> /\ workers = {} /\ replies = {}
      /\ body = [h \in Clients |-> <<>>] /\ http = [h \in Clients |-> [pc |-> "idle", i |-> 0]]
      /\ answers = [h \in Clients |-> <<>>] /\ status = [h \in Clients |-> 0]
  BY DEF Init, GuestInit
<1>3. \A c \in Conns : /\ inbox[c] = <<>> /\ outbox[c] = <<>> /\ conn[c].pc = "none"
                       /\ ~ Waiting(c)
  BY <1>2 DEF Waiting
<1>4. \A h \in Clients : /\ http[h].pc = "idle" /\ http[h].i = 0 /\ answers[h] = <<>>
                         /\ status[h] = 0
  BY <1>2
<1>5. GuestTypes
  <2>1. [pc |-> "none", line |-> NoLine] \in Threads
    BY NoLineIs DEF Threads
  <2>2. conn \in [Conns -> Threads]
    BY <1>2, <2>1
  <2> QED  BY <1>1, <1>2, <2>2 DEF GuestTypes
<1>6. HttpTypes
  <2>1. [pc |-> "idle", i |-> 0] \in [pc : {"idle", "message", "await", "done"}, i : Nat]
    OBVIOUS
  <2> QED  BY <1>1, <1>2, <2>1 DEF HttpTypes
<1>7. OneLineEach
  BY <1>1, <1>3 DEF OneLineEach, LineOf
<1>8. HandedAreRead
  BY <1>1, <1>2 DEF HandedAreRead, Handed, Entries
<1>9. Places
  BY <1>4 DEF Places, ClientAt
<1>10. BatchAnswersMatch
  BY <1>4 DEF BatchAnswersMatch
<1>11. TakenInOrder
  BY <1>1, <1>2 DEF TakenInOrder
<1> QED  BY <1>5, <1>6, <1>7, <1>8, <1>9, <1>10, <1>11 DEF IInv

\* Nothing that the invariant speaks of changes.
LEMMA StutterKeeps ==
  ASSUME IInv, UNCHANGED <<guest, body, http, answers, status>>
  PROVE  IInv'
<1>1. GuestTypes' /\ HttpTypes'
  BY DEF IInv, GuestTypes, HttpTypes, guest
<1>2. OneLineEach'
  BY DEF IInv, OneLineEach, LineOf, Begun, Asks, Waiting, guest
<1>3. HandedAreRead' /\ TakenInOrder'
  BY DEF IInv, HandedAreRead, Handed, Entries, TakenInOrder, Before, Asks, RunByLoop, guest
<1>4. Places' /\ BatchAnswersMatch'
  BY DEF IInv, Places, ClientAt, AnswersSoFar, BatchAnswersMatch, Expected
<1> QED  BY <1>1, <1>2, <1>3, <1>4 DEF IInv

LEMMA NextIInv == IInv /\ [Next]_vars => IInv'
<1> SUFFICES ASSUME IInv, [Next]_vars PROVE IInv'
  OBVIOUS
<1>1. CASE \E h \in Clients, b \in Batches : Post(h, b)
  BY <1>1, PostKeeps
<1>2. CASE \E h \in Clients : Unreadable(h) \/ Refuse(h) \/ HttpStep(h)
  BY <1>2, EndStepKeeps, HostAnswerKeeps, ForwardKeeps, TakeAnswerKeeps DEF HttpStep
<1>3. CASE GuestStep /\ UNCHANGED transport
  BY <1>3, GuestStepKeeps
<1>4. CASE RebootExit
  BY <1>4, StutterKeeps DEF RebootExit
<1>5. CASE UNCHANGED vars
  BY <1>5, StutterKeeps DEF vars, transport
<1> QED  BY <1>1, <1>2, <1>3, <1>4, <1>5 DEF Next

-----------------------------------------------------------------------------
(* What follows from it *)

\* A POST answered with 200 carries one answer for each of its messages that
\* has an id, in their order and for no other message, and a 202 means that
\* none had one (handle_connection and forward_http_message in mcp_http.rs),
\* however late the guest answers, if it does, and although each message goes
\* over a connection of its own.
THEOREM EveryMessageAnsweredOnce == Spec => []BatchAnswersMatch
<1>1. IInv => BatchAnswersMatch
  BY DEF IInv
<1> QED  BY InitIInv, NextIInv, <1>1, PTL DEF Spec

\* A tool the event loop runs takes effect after those of the earlier messages
\* of the same POST if it has an id itself, whatever timed out before
\* (forward_http_message in mcp_http.rs, dispatch_tool in mcp.rs).
THEOREM ToolsTakeEffectInOrder == Spec => []BatchInOrder
<1>1. IInv => BatchInOrder
  <2> SUFFICES ASSUME IInv, NEW p \in DOMAIN applied, NEW q \in DOMAIN applied,
                      p < q, applied[p].c[1] = applied[q].c[1],
                      {applied[p].kind, applied[q].kind} \subseteq {"tool", "capture"},
                      body[applied[q].c[1]][applied[q].n].hasId
               PROVE  applied[p].n < applied[q].n
    BY DEF BatchInOrder
  <2>1. Before(applied[p], applied[q])
    BY DEF IInv, TakenInOrder
  <2>2. RunByLoop(applied[p]) /\ RunByLoop(applied[q])
    BY DEF RunByLoop
  <2>3. applied[q] \in Handed /\ applied[q] \in CallSet
    BY HandedIs DEF Handed, Entries, IInv
  <2>4. Asks(applied[q].c)
    <3> PICK c : c = applied[q].c
      OBVIOUS
    <3>1. c \in Conns /\ c[1] \in Clients /\ applied[q].n = c[2] /\ conn[c].pc # "none"
      BY <2>3, CallIs DEF IInv, HandedAreRead
    <3>2. c[2] \in DOMAIN body[c[1]]
      BY <3>1 DEF IInv, OneLineEach, LineOf, Begun
    <3> QED  BY <3>1, <3>2 DEF Asks
  <2> QED  BY <2>1, <2>2, <2>4 DEF Before
<1> QED  BY InitIInv, NextIInv, <1>1, PTL DEF Spec

=============================================================================
