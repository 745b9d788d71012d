---------------------------- MODULE McpStdioProofs ----------------------------
(***************************************************************************)
(* Proofs about the stdio transport and its guest, for clients that keep   *)
(* to the handshake, any number of lines and any buffering: each answer is *)
(* that of its request, and the two implement CallService.                 *)
(***************************************************************************)
EXTENDS McpStdio, SequenceTheorems, TLAPS

\* What a client keeping to the handshake writes: no empty line, and without
\* an id only notifications/initialized and what the host answers itself.
Polite ==
    \A s \in Shapes :
      /\ s.kind # "blank"
      /\ s.json /\ ~s.hasId => s.kind \in {"initialized", "capture", "reboot"}
      /\ s.kind = "initialized" => s.json /\ ~s.hasId

Kinds == ToolKinds \cup {"reboot", "local", "initialized", "garbage", "blank"}

\* The lines of such a client.
Lines ==
    {l \in [n : 1 .. MaxLines, id : Nat, kind : Kinds, json : BOOLEAN] :
       /\ l.kind # "blank"
       /\ IsNotification(l) => l.kind \in {"initialized", "capture", "reboot"}
       /\ l.kind = "initialized" => IsNotification(l)}

CallSet == [c : Conns, n : 1 .. MaxLines, kind : ToolKinds]

Bodies == {"error", "local", "ok", "timeout",                  \* of the guest
           "frame", "scheduled", "failed", "already"}          \* of the host
Replies == [n : 1 .. MaxLines, id : Nat, body : Bodies,
            of : {NoCall} \cup (Conns \X (1 .. MaxLines))]

GuestTypes ==
    /\ inbox \in [Conns -> Seq(Lines)]
    /\ outbox \in [Conns -> Seq(Replies)]
    /\ conn \in [Conns -> [pc : {"none", "pending", "read", "wait", "closed"},
                           line : Lines \cup {NoLine}]]
    /\ \A c \in Conns : Waiting(c) => conn[c].line \in Lines
    /\ cmds \in Seq(CallSet) /\ browserq \in Seq(CallSet)
    /\ workers \subseteq CallSet /\ applied \in Seq(CallSet)
    /\ hungUp = {}

HostTypes ==
    /\ stdin \in Seq(Lines) /\ written \in 0 .. MaxLines
    /\ proxy \in [pc : {"connect", "line", "await", "exit"}, line : Lines \cup {NoLine}]
    /\ proxy.pc = "await" => proxy.line \in Lines
    /\ stdout \in Seq([line : Lines, answer : Replies])

Nums(s) == {s[i].n : i \in DOMAIN s}
Distinct(s) == \A i, j \in DOMAIN s : s[i].n = s[j].n => i = j

-----------------------------------------------------------------------------
(* What is on the connection *)

Silent(l) == l.kind = "initialized"

\* r may be printed for l.
AnswerTo(r, l) ==
    /\ r.n = l.n
    /\ r.of = NoCall \/ (r.of = <<TheConn, l.n>> /\ l.n \in Nums(applied))

\* The line awaited is the last on its way, behind notifications.
Unread ==
    /\ conn[TheConn].pc \in {"pending", "read"}
    /\ outbox[TheConn] = <<>> /\ inbox[TheConn] # <<>>
    /\ \A i \in DOMAIN inbox[TheConn] :
         IF i = Len(inbox[TheConn]) THEN inbox[TheConn][i] = proxy.line
         ELSE Silent(inbox[TheConn][i])

BeingHandled ==
    /\ conn[TheConn].pc = "wait" /\ conn[TheConn].line = proxy.line
    /\ inbox[TheConn] = <<>> /\ outbox[TheConn] = <<>>

HasAnswer ==
    /\ conn[TheConn].pc \in {"read", "closed"}
    /\ inbox[TheConn] = <<>>
    /\ Len(outbox[TheConn]) = 1 /\ AnswerTo(outbox[TheConn][1], proxy.line)

Lost == conn[TheConn].pc = "closed" /\ outbox[TheConn] = <<>>

\* The proxy awaits a single answer, and while it awaits none, none can come.
Flow ==
    /\ proxy.pc = "connect" =>
         conn[TheConn].pc = "none" /\ inbox[TheConn] = <<>> /\ outbox[TheConn] = <<>>
    /\ proxy.pc = "line" =>
         /\ conn[TheConn].pc \in {"pending", "read", "closed"} /\ outbox[TheConn] = <<>>
         /\ \A i \in DOMAIN inbox[TheConn] : Silent(inbox[TheConn][i])
    /\ proxy.pc = "await" =>
         /\ ~ Silent(proxy.line)
         /\ Unread \/ BeingHandled \/ HasAnswer \/ Lost

-----------------------------------------------------------------------------
(* Each line becomes at most one call *)

Taken == written - Len(stdin)
WorkerNums == {w.n : w \in workers}
Dispatched == Nums(cmds) \cup Nums(browserq) \cup WorkerNums \cup Nums(applied)

\* Lines are numbered as they come, and read once.
LinesOnce ==
    /\ Len(stdin) <= written
    /\ \A i \in DOMAIN stdin : stdin[i].n = Taken + i
    /\ Distinct(inbox[TheConn])
    /\ Nums(inbox[TheConn]) \cup Dispatched \subseteq 1 .. Taken
    /\ Nums(inbox[TheConn]) \cap Dispatched = {}

\* A call is in one place: queued, run by a worker, queued for the browser, or
\* carried out.
CallsOnce ==
    /\ Distinct(cmds) /\ Distinct(browserq) /\ Distinct(applied)
    /\ \A v, w \in workers : v.n = w.n => v = w
    /\ Nums(cmds) \cap Nums(browserq) = {} /\ Nums(cmds) \cap WorkerNums = {}
    /\ Nums(cmds) \cap Nums(applied) = {} /\ Nums(browserq) \cap WorkerNums = {}
    /\ Nums(browserq) \cap Nums(applied) = {} /\ WorkerNums \cap Nums(applied) = {}

\* What is in a reply channel is the result of the channel's own call.
RepliesOwn ==
    \A r \in replies : \E n \in Nums(applied) :
      r = [channel |-> <<TheConn, n>>, of |-> <<TheConn, n>>]

AnsweredNums == {stdout[i].line.n : i \in DOMAIN stdout}

AnsweredOnce ==
    /\ AnsweredNums \subseteq 1 .. Taken
    /\ proxy.pc = "await" => proxy.line.n \in (1 .. Taken) \ AnsweredNums

\* The inductive invariant.
IInv ==
    /\ GuestTypes /\ HostTypes
    /\ Flow
    /\ LinesOnce /\ CallsOnce /\ RepliesOwn /\ AnsweredOnce
    /\ AnswersMatch

-----------------------------------------------------------------------------
(* Numbers in a queue *)

\* A queue's numbers when one is added at its end.
LEMMA AppendNums ==
    ASSUME NEW T, NEW s \in Seq(T), NEW x \in T
    PROVE  /\ Append(s, x) \in Seq(T)
           /\ Nums(Append(s, x)) = Nums(s) \cup {x.n}
           /\ Distinct(s) /\ x.n \notin Nums(s) => Distinct(Append(s, x))
<1>1. /\ Append(s, x) \in Seq(T) /\ Len(s) \in Nat
      /\ DOMAIN s = 1 .. Len(s) /\ DOMAIN Append(s, x) = 1 .. Len(s) + 1
      /\ \A i \in 1 .. Len(s) : Append(s, x)[i] = s[i]
      /\ Append(s, x)[Len(s) + 1] = x
  OBVIOUS
<1>2. Nums(Append(s, x)) = Nums(s) \cup {x.n}
  <2>1. \A i \in DOMAIN Append(s, x) : i \in DOMAIN s \/ i = Len(s) + 1
    BY <1>1
  <2>2. Len(s) + 1 \in DOMAIN Append(s, x) /\ DOMAIN s \subseteq DOMAIN Append(s, x)
    BY <1>1
  <2> QED  BY <1>1, <2>1, <2>2 DEF Nums
<1>3. Distinct(s) /\ x.n \notin Nums(s) => Distinct(Append(s, x))
  <2> SUFFICES ASSUME Distinct(s), x.n \notin Nums(s),
                      NEW i \in 1 .. Len(s) + 1, NEW j \in 1 .. Len(s) + 1,
                      Append(s, x)[i].n = Append(s, x)[j].n
               PROVE  i = j
    BY <1>1 DEF Distinct
  <2>1. \A k \in 1 .. Len(s) : s[k].n # x.n
    BY <1>1 DEF Nums
  <2> QED  BY <1>1, <2>1 DEF Distinct
<1> QED  BY <1>1, <1>2, <1>3

\* A queue's numbers when its first is taken.
LEMMA TailNums ==
    ASSUME NEW T, NEW s \in Seq(T), s # <<>>
    PROVE  /\ Tail(s) \in Seq(T) /\ Head(s) \in T /\ Head(s) = s[1]
           /\ Head(s).n \in Nums(s)
           /\ Nums(Tail(s)) \subseteq Nums(s)
           /\ Nums(s) = Nums(Tail(s)) \cup {Head(s).n}
           /\ Distinct(s) => Distinct(Tail(s)) /\ Head(s).n \notin Nums(Tail(s))
<1>1. /\ Tail(s) \in Seq(T) /\ Head(s) \in T /\ Head(s) = s[1]
      /\ Len(s) \in Nat /\ Len(s) > 0
      /\ DOMAIN s = 1 .. Len(s) /\ DOMAIN Tail(s) = 1 .. Len(s) - 1
      /\ \A i \in 1 .. Len(s) - 1 : Tail(s)[i] = s[i + 1]
  OBVIOUS
<1>2. Head(s).n \in Nums(s)
  BY <1>1 DEF Nums
<1>3. Nums(Tail(s)) \subseteq Nums(s)
  BY <1>1 DEF Nums
<1>4. Nums(s) \subseteq Nums(Tail(s)) \cup {Head(s).n}
  <2> SUFFICES ASSUME NEW i \in 1 .. Len(s), i # 1
               PROVE  s[i].n \in Nums(Tail(s))
    BY <1>1 DEF Nums
  <2>1. i - 1 \in 1 .. Len(s) - 1 /\ Tail(s)[i - 1] = s[i]
    BY <1>1
  <2> QED  BY <1>1, <2>1 DEF Nums
<1>5. Distinct(s) => Distinct(Tail(s)) /\ Head(s).n \notin Nums(Tail(s))
  <2> SUFFICES ASSUME Distinct(s)
               PROVE  Distinct(Tail(s)) /\ Head(s).n \notin Nums(Tail(s))
    OBVIOUS
  <2>1. \A i, j \in 1 .. Len(s) : s[i].n = s[j].n => i = j
    BY <1>1 DEF Distinct
  <2>2. \A i \in 1 .. Len(s) - 1 : Tail(s)[i].n # Head(s).n
    BY <1>1, <2>1
  <2>3. \A i, j \in 1 .. Len(s) - 1 : Tail(s)[i].n = Tail(s)[j].n => i = j
    BY <1>1, <2>1
  <2> QED  BY <1>1, <2>2, <2>3 DEF Distinct, Nums
<1> QED  BY <1>1, <1>2, <1>3, <1>4, <1>5

\* There is one connection.
LEMMA TheOnlyConn == TheConn \in Conns /\ Conns = {TheConn}
BY ConnectionAssumption DEF TheConn

-----------------------------------------------------------------------------
(* The initial states *)

LEMMA InitIInv == Init => IInv
<1> SUFFICES ASSUME Init PROVE IInv
  OBVIOUS
<1> USE TheOnlyConn
<1>1. GuestTypes
  BY DEF Init, GuestInit, GuestTypes, Waiting
<1>2. HostTypes
  BY BoundsAssumption DEF Init, HostTypes
<1>3. Flow
  BY DEF Init, GuestInit, Flow
<1>4. LinesOnce /\ CallsOnce /\ RepliesOwn /\ AnsweredOnce /\ AnswersMatch
  <2>1. Nums(<<>>) = {} /\ Distinct(<<>>)
    BY DEF Nums, Distinct
  <2> QED
    BY <2>1 DEF Init, GuestInit, LinesOnce, CallsOnce, RepliesOwn, AnsweredOnce,
                AnswersMatch, Taken, Dispatched, WorkerNums, AnsweredNums
<1> QED  BY <1>1, <1>2, <1>3, <1>4 DEF IInv

-----------------------------------------------------------------------------
(* Types *)

\* A reply is written, or its reader has left the connection full.
LEMMA Written ==
    ASSUME GuestTypes, NEW c \in Conns, NEW r \in Replies, Write(c, r)
    PROVE  /\ outbox' \in [Conns -> Seq(Replies)]
           /\ conn' \in [Conns -> [pc : {"none", "pending", "read", "wait", "closed"},
                                   line : Lines \cup {NoLine}]]
           /\ \A d \in Conns : Waiting(d)' => conn'[d].line \in Lines
           /\ ~ Waiting(c)'
           /\ \/ /\ conn'[c].pc = "read" /\ Len(outbox[c]) < OutCap
                 /\ outbox'[c] = Append(outbox[c], r)
              \/ conn'[c].pc = "closed" /\ outbox' = outbox /\ Len(outbox[c]) = OutCap
<1> DEFINE pcs == {"none", "pending", "read", "wait", "closed"}
           threads == [pc : pcs, line : Lines \cup {NoLine}]
<1>1. /\ [pc |-> "read", line |-> NoLine] \in threads
      /\ [pc |-> "closed", line |-> NoLine] \in threads
  OBVIOUS
<1>2. /\ conn \in [Conns -> threads] /\ outbox \in [Conns -> Seq(Replies)]
      /\ hungUp = {} /\ \A d \in Conns : Waiting(d) => conn[d].line \in Lines
  BY DEF GuestTypes
<1>3. Append(outbox[c], r) \in Seq(Replies)
  BY <1>2
<1> HIDE DEF threads, pcs
<1>4. CASE /\ Len(outbox[c]) < OutCap
           /\ outbox' = [outbox EXCEPT ![c] = Append(@, r)]
           /\ conn' = [conn EXCEPT ![c] = [pc |-> "read", line |-> NoLine]]
  <2>1. conn' \in [Conns -> threads] /\ outbox' \in [Conns -> Seq(Replies)]
    BY <1>1, <1>2, <1>3, <1>4
  <2>2. conn'[c].pc = "read" /\ outbox'[c] = Append(outbox[c], r)
    BY <1>2, <1>4
  <2>3. \A d \in Conns : d # c => conn'[d] = conn[d]
    BY <1>2, <1>4
  <2> QED  BY <1>2, <1>4, <2>1, <2>2, <2>3 DEF Waiting, threads, pcs
<1>5. CASE /\ Len(outbox[c]) = OutCap /\ UNCHANGED outbox
           /\ conn' = [conn EXCEPT ![c] = [pc |-> "closed", line |-> NoLine]]
  <2>1. conn' \in [Conns -> threads] /\ conn'[c].pc = "closed"
    BY <1>1, <1>2, <1>5
  <2>2. \A d \in Conns : d # c => conn'[d] = conn[d]
    BY <1>2, <1>5
  <2> QED  BY <1>2, <1>5, <2>1, <2>2 DEF Waiting, threads, pcs
<1> QED  BY <1>2, <1>4, <1>5 DEF Write

\* What a thread takes from its connection.
LEMMA Taking ==
    ASSUME GuestTypes, NEW c \in Conns, NEW kinds, Reading(c, kinds)
    PROVE  /\ inbox' \in [Conns -> Seq(Lines)] /\ inbox'[c] = Tail(inbox[c])
           /\ inbox[c] \in Seq(Lines) /\ inbox[c] # <<>>
           /\ Head(inbox[c]) \in Lines /\ Head(inbox[c]).kind \in kinds
           /\ conn[c].pc = "read"
<1>1. inbox[c] \in Seq(Lines) /\ inbox[c] # <<>> /\ inbox \in [Conns -> Seq(Lines)]
  BY DEF GuestTypes, Reading
<1>2. Tail(inbox[c]) \in Seq(Lines) /\ Head(inbox[c]) \in Lines
  BY <1>1, TailNums
<1> QED  BY <1>1, <1>2 DEF Reading

LEMMA ReplyType ==
    ASSUME NEW l \in Lines, NEW id \in Nat, NEW b \in Bodies,
           NEW of \in {NoCall} \cup (Conns \X (1 .. MaxLines))
    PROVE  /\ Reply(l, id, b, of) \in Replies
           /\ Reply(l, id, b, of).n = l.n /\ Reply(l, id, b, of).of = of
BY DEF Reply, Replies, Lines

\* What arrives on a channel is typed as a reply's origin.
LEMMA Arrivals ==
    ASSUME GuestTypes, RepliesOwn, NEW c \in Conns, Waiting(c), NEW r \in Arrived(c)
    PROVE  /\ r.of = <<TheConn, conn[c].line.n>> /\ conn[c].line.n \in Nums(applied)
           /\ r.of \in Conns \X (1 .. MaxLines)
<1>1. PICK n \in Nums(applied) : r = [channel |-> <<TheConn, n>>, of |-> <<TheConn, n>>]
  BY DEF Arrived, RepliesOwn
<1>2. n = conn[c].line.n
  BY <1>1 DEF Arrived, ReplyChannel
<1>3. conn[c].line.n \in 1 .. MaxLines
  BY DEF GuestTypes, Lines
<1> QED  BY <1>1, <1>2, <1>3, TheOnlyConn

LEMMA ThreadTypes ==
    ASSUME GuestTypes, RepliesOwn, NEW c \in Conns, ThreadStep(c)
    PROVE  GuestTypes'
<1> USE DEF GuestTypes
<1>1. CASE ReadSilently(c)
  BY <1>1, Taking DEF ReadSilently, Waiting
<1>2. CASE AnswerLocally(c)
  <2>1. PICK r \in Replies : Write(c, r)
    <3> DEFINE l == Head(inbox[c])
    <3>1. l \in Lines
      BY <1>2, Taking DEF AnswerLocally
    <3>2. Reply(l, NoId, "error", NoCall) \in Replies
      BY <3>1, ReplyType DEF NoId, Bodies
    <3>3. l.id \in Nat
      BY <3>1 DEF Lines
    <3>4. Reply(l, l.id, "local", NoCall) \in Replies
      BY <3>1, <3>3, ReplyType DEF Bodies
    <3> QED  BY <1>2, <3>2, <3>4 DEF AnswerLocally
  <2>2. inbox' \in [Conns -> Seq(Lines)]
    BY <1>2, Taking DEF AnswerLocally
  <2> QED  BY <1>2, <2>1, <2>2, Written DEF AnswerLocally
<1>3. CASE Dispatch(c)
  <2>1. /\ inbox' \in [Conns -> Seq(Lines)] /\ Head(inbox[c]) \in Lines
        /\ Head(inbox[c]).kind \in ToolKinds
    BY <1>3, Taking DEF Dispatch
  <2>2. Call(c, Head(inbox[c])) \in CallSet
    BY <2>1 DEF Call, CallSet, Lines
  <2>3. [pc |-> "wait", line |-> Head(inbox[c])] \in
          [pc : {"none", "pending", "read", "wait", "closed"}, line : Lines \cup {NoLine}]
    BY <2>1
  <2>4. conn' \in [Conns -> [pc : {"none", "pending", "read", "wait", "closed"},
                            line : Lines \cup {NoLine}]]
    BY <1>3, <2>3 DEF Dispatch
  <2>5. \A d \in Conns : Waiting(d)' => conn'[d].line \in Lines
    BY <1>3, <2>1 DEF Dispatch, Waiting
  <2>6. cmds' \in Seq(CallSet)
    BY <1>3, <2>2 DEF Dispatch
  <2> QED  BY <1>3, <2>1, <2>4, <2>5, <2>6 DEF Dispatch
<1>4. CASE Receive(c)
  <2>1. PICK r \in Arrived(c) : Write(c, Reply(conn[c].line, conn[c].line.id, "ok", r.of))
    BY <1>4 DEF Receive
  <2>2. r.of \in {NoCall} \cup (Conns \X (1 .. MaxLines)) /\ conn[c].line \in Lines
    BY <1>4, Arrivals DEF Receive
  <2>3. conn[c].line.id \in Nat
    BY <2>2 DEF Lines
  <2>4. Reply(conn[c].line, conn[c].line.id, "ok", r.of) \in Replies
    BY <2>2, <2>3, ReplyType DEF Bodies
  <2> QED  BY <1>4, <2>1, <2>4, Written DEF Receive
<1>5. CASE Timeout(c)
  <2>1. conn[c].line \in Lines /\ conn[c].line.id \in Nat
    BY <1>5 DEF Timeout, Lines
  <2>2. Reply(conn[c].line, conn[c].line.id, "timeout", NoCall) \in Replies
    BY <2>1, ReplyType DEF Bodies
  <2> QED  BY <1>5, <2>2, Written DEF Timeout
<1>6. CASE EndOfFile(c)
  BY <1>6 DEF EndOfFile
<1> QED  BY <1>1, <1>2, <1>3, <1>4, <1>5, <1>6 DEF ThreadStep

LEMMA GuestStepTypes ==
    ASSUME GuestTypes, RepliesOwn, GuestStep
    PROVE  GuestTypes'
<1> USE DEF GuestTypes
<1>1. CASE \E c \in Conns : ThreadStep(c)
  BY <1>1, ThreadTypes
<1>2. ASSUME NEW c \in Conns, Accept(c) PROVE GuestTypes'
  <2>1. conn' = [conn EXCEPT ![c].pc = "read"]
    BY <1>2 DEF Accept
  <2>2. ASSUME NEW d \in Conns, Waiting(d)' PROVE conn'[d].line \in Lines
    <3>1. CASE d = c
      BY <2>1, <2>2, <3>1 DEF Waiting
    <3>2. CASE d # c
      BY <2>1, <2>2, <3>2 DEF Waiting
    <3> QED  BY <3>1, <3>2
  <2>3. conn' \in [Conns -> [pc : {"none", "pending", "read", "wait", "closed"},
                            line : Lines \cup {NoLine}]]
    BY <2>1
  <2> QED  BY <1>2, <2>2, <2>3 DEF Accept
<1>3. CASE LoopStep
  <2>1. Tail(cmds) \in Seq(CallSet) /\ Head(cmds) \in CallSet
    BY <1>3, TailNums DEF LoopStep
  <2>2. Append(applied, Head(cmds)) \in Seq(CallSet)
        /\ Append(browserq, Head(cmds)) \in Seq(CallSet)
    BY <2>1
  <2>3. CASE Head(cmds).kind \in {"tool", "capture"}
    BY <1>3, <2>1, <2>2, <2>3 DEF LoopStep, Apply, Waiting
  <2>4. CASE Head(cmds).kind = "spawn"
    BY <1>3, <2>1, <2>2, <2>4 DEF LoopStep, Apply, Waiting
  <2>5. CASE Head(cmds).kind \notin {"tool", "capture", "spawn"}
    BY <1>3, <2>1, <2>2, <2>5 DEF LoopStep, Apply, Waiting
  <2> QED  BY <2>3, <2>4, <2>5
<1>4. CASE BrowserDone
  <2>1. Tail(browserq) \in Seq(CallSet) /\ Head(browserq) \in CallSet
    BY <1>4, TailNums DEF BrowserDone
  <2> QED  BY <1>4, <2>1 DEF BrowserDone, Apply, Waiting
<1>5. CASE CompositorRestarts
  <2>1. \A c \in Conns : conn'[c] = [pc |-> "closed", line |-> NoLine] \/ conn'[c] = conn[c]
    BY <1>5 DEF CompositorRestarts
  <2>2. conn' \in [Conns -> [pc : {"none", "pending", "read", "wait", "closed"},
                            line : Lines \cup {NoLine}]]
    BY <1>5, <2>1 DEF CompositorRestarts
  <2>3. ASSUME NEW c \in Conns, Waiting(c)' PROVE conn'[c].line \in Lines
    <3>1. conn'[c] = conn[c]
      BY <2>1, <2>3 DEF Waiting
    <3>2. Waiting(c)
      BY <2>3, <3>1 DEF Waiting
    <3> QED  BY <3>1, <3>2
  <2> QED  BY <1>5, <2>2, <2>3 DEF CompositorRestarts
<1>6. ASSUME NEW call \in workers, WorkerDone(call) PROVE GuestTypes'
  BY <1>6 DEF WorkerDone, Apply, Waiting
<1> QED  BY <1>1, <1>2, <1>3, <1>4, <1>5, <1>6 DEF GuestStep

\* What a client that keeps to the handshake writes is one of Lines.
LEMMA LineType ==
    ASSUME Polite, NEW shape \in Shapes, NEW n \in 1 .. MaxLines
    PROVE  LineOf(shape, n) \in Lines /\ LineOf(shape, n).n = n
<1>1. /\ shape.kind \in Kinds /\ shape.hasId \in BOOLEAN /\ shape.json \in BOOLEAN
  BY ShapesAssumption DEF Kinds
<1>2. /\ LineOf(shape, n).id \in Nat /\ (LineOf(shape, n).id = NoId <=> ~ shape.hasId)
      /\ LineOf(shape, n).kind = shape.kind /\ LineOf(shape, n).json = shape.json
      /\ LineOf(shape, n).n = n
  BY BoundsAssumption DEF LineOf, NoId
<1>3. LineOf(shape, n) \in [n : 1 .. MaxLines, id : Nat, kind : Kinds, json : BOOLEAN]
  BY <1>1, BoundsAssumption DEF LineOf, NoId
<1> QED  BY <1>2, <1>3 DEF Lines, Polite, IsNotification

\* The host's own answers.
LEMMA HostAnswer ==
    ASSUME HostTypes, NEW l \in Lines, NEW b \in Bodies, HostAnswers(l, b)
    PROVE  \/ UNCHANGED stdout
           \/ \E r \in Replies : /\ stdout' = Append(stdout, [line |-> l, answer |-> r])
                               /\ r.n = l.n /\ r.of = NoCall
<1>1. l.id \in Nat
  BY DEF Lines
<1> QED  BY <1>1, ReplyType DEF HostAnswers, PrintLine

\* One of three things happens to stdout, and the proxy's line is one of Lines.
LEMMA HostActionTypes ==
    ASSUME Polite, GuestTypes, HostTypes, (ProxyStep \/ EndOfInput \/ RebootExit
             \/ \E shape \in Shapes : ClientWrites(shape))
    PROVE  GuestTypes' /\ HostTypes'
<1> DEFINE proxies == [pc : {"connect", "line", "await", "exit"}, line : Lines \cup {NoLine}]
           answers == [line : Lines, answer : Replies]
<1> USE DEF GuestTypes, HostTypes
<1>0. TheConn \in Conns
  BY TheOnlyConn
<1>1. ASSUME NEW shape \in Shapes, ClientWrites(shape) PROVE GuestTypes' /\ HostTypes'
  <2>1. written' \in 0 .. MaxLines /\ written + 1 \in 1 .. MaxLines
    BY <1>1, BoundsAssumption DEF ClientWrites
  <2>2. stdin' \in Seq(Lines)
    BY <1>1, <2>1, LineType DEF ClientWrites
  <2> QED  BY <1>1, <2>1, <2>2 DEF ClientWrites, guest, Waiting
<1>2. CASE Connect
  <2>1. \A c \in Conns : conn'[c] = [conn[c] EXCEPT !.pc = "pending"]
    BY <1>2, TheOnlyConn DEF Connect, Connected
  <2>2. /\ conn' \in [Conns -> [pc : {"none", "pending", "read", "wait", "closed"},
                               line : Lines \cup {NoLine}]]
        /\ \A c \in Conns : ~ Waiting(c)'
    BY <1>2, <2>1 DEF Connect, Connected, Waiting
  <2>3. proxy' = [pc |-> "line", line |-> proxy.line]
    BY <1>2 DEF Connect
  <2> QED  BY <1>2, <2>2, <2>3 DEF Connect
<1>3. CASE GiveUpConnecting
  <2>1. proxy' = [pc |-> "exit", line |-> proxy.line]
    BY <1>3 DEF GiveUpConnecting
  <2> QED  BY <1>3, <2>1 DEF GiveUpConnecting, guest, Waiting
<1>4. ASSUME TakesLine PROVE stdin' \in Seq(Lines) /\ Head(stdin) \in Lines
  BY <1>4, TailNums DEF TakesLine
<1>5. ASSUME NEW b \in Bodies, TakesLine, HostAnswers(Head(stdin), b)
      PROVE  stdout' \in Seq(answers)
  <2>1. Head(stdin) \in Lines
    BY <1>4, <1>5
  <2>2. UNCHANGED stdout \/ (\E r \in Replies :
                                stdout' = Append(stdout, [line |-> Head(stdin), answer |-> r]))
    BY <1>5, <2>1, HostAnswer
  <2>3. \A r \in Replies : [line |-> Head(stdin), answer |-> r] \in answers
    BY <2>1
  <2>4. stdout \in Seq(answers)
    OBVIOUS
  <2> HIDE DEF answers
  <2>5. CASE UNCHANGED stdout
    BY <2>4, <2>5
  <2>6. ASSUME NEW r \in Replies,
               stdout' = Append(stdout, [line |-> Head(stdin), answer |-> r])
        PROVE  stdout' \in Seq(answers)
    <3>1. [line |-> Head(stdin), answer |-> r] \in answers
      BY <2>3
    <3> QED  BY <2>4, <2>6, <3>1, AppendProperties
  <2> QED  BY <2>2, <2>5, <2>6
<1>6. CASE HandleReboot
  <2>1. \E b \in Bodies : HostAnswers(Head(stdin), b)
    BY <1>6 DEF HandleReboot, Bodies
  <2>2. TakesLine /\ UNCHANGED <<guest, written, proxy>>
    BY <1>6 DEF HandleReboot
  <2>3. stdin' \in Seq(Lines) /\ stdout' \in Seq(answers)
    BY <1>4, <1>5, <2>1, <2>2
  <2> QED  BY <2>2, <2>3 DEF guest, Waiting
<1>7. CASE HandleCapture
  <2>1. \E b \in Bodies : HostAnswers(Head(stdin), b)
    BY <1>7 DEF HandleCapture, Bodies
  <2>2. TakesLine /\ UNCHANGED <<guest, written, proxy>>
    BY <1>7 DEF HandleCapture
  <2>3. stdin' \in Seq(Lines) /\ stdout' \in Seq(answers)
    BY <1>4, <1>5, <2>1, <2>2
  <2> QED  BY <2>2, <2>3 DEF guest, Waiting
<1>8. CASE Forward
  <2>1. stdin' \in Seq(Lines) /\ Head(stdin) \in Lines
    BY <1>4, <1>8 DEF Forward
  <2>2. Append(inbox[TheConn], Head(stdin)) \in Seq(Lines)
    BY <1>0, <2>1
  <2>3. inbox' \in [Conns -> Seq(Lines)]
    BY <1>8, <2>2 DEF Forward, Send
  <2>4. proxy' \in proxies /\ (proxy'.pc = "await" => proxy'.line \in Lines)
    BY <1>8, <2>1 DEF Forward
  <2> QED  BY <1>8, <2>1, <2>3, <2>4 DEF Forward, Waiting
<1>9. CASE PrintAnswer
  <2>1. /\ outbox[TheConn] \in Seq(Replies) /\ outbox[TheConn] # <<>>
    BY <1>0, <1>9 DEF PrintAnswer
  <2>2. Tail(outbox[TheConn]) \in Seq(Replies) /\ Head(outbox[TheConn]) \in Replies
    BY <2>1, TailNums
  <2>3. outbox' \in [Conns -> Seq(Replies)]
    BY <1>9, <2>2 DEF PrintAnswer
  <2>4. stdout' \in Seq(answers)
    BY <1>9, <2>2 DEF PrintAnswer, PrintLine
  <2> QED  BY <1>9, <2>3, <2>4 DEF PrintAnswer, Waiting
<1>10. CASE GuestGone
  BY <1>10 DEF GuestGone, guest, Waiting
<1>11. CASE EndOfInput \/ RebootExit
  BY <1>11 DEF EndOfInput, RebootExit, guest, Waiting
<1> QED
  BY <1>1, <1>2, <1>3, <1>6, <1>7, <1>8, <1>9, <1>10, <1>11 DEF ProxyStep

-----------------------------------------------------------------------------
(* The connection carries one request at a time *)

\* What has been carried out stays so.
LEMMA AppliedGrows ==
    ASSUME GuestTypes, GuestStep
    PROVE  Nums(applied) \subseteq Nums(applied')
<1>1. \A call \in CallSet : Nums(applied) \subseteq Nums(Append(applied, call))
  BY AppendNums DEF GuestTypes
<1>2. CASE LoopStep
  <2>1. Head(cmds) \in CallSet
    BY <1>2, TailNums DEF LoopStep, GuestTypes
  <2> QED  BY <1>1, <1>2, <2>1 DEF LoopStep, Apply
<1>3. CASE BrowserDone
  <2>1. Head(browserq) \in CallSet
    BY <1>3, TailNums DEF BrowserDone, GuestTypes
  <2> QED  BY <1>1, <1>3, <2>1 DEF BrowserDone, Apply
<1>4. CASE \E call \in workers : WorkerDone(call)
  BY <1>1, <1>4 DEF WorkerDone, Apply, GuestTypes
<1>5. CASE CompositorRestarts \/ \E c \in Conns : Accept(c)
  BY <1>5 DEF CompositorRestarts, Accept
<1>6. CASE \E c \in Conns : ThreadStep(c)
  BY <1>6 DEF ThreadStep, ReadSilently, AnswerLocally, Dispatch, Receive, Timeout, EndOfFile
<1> QED  BY <1>2, <1>3, <1>4, <1>5, <1>6 DEF GuestStep

LEMMA FlowKept ==
    ASSUME Flow, UNCHANGED <<inbox, outbox, conn, proxy>>,
           Nums(applied) \subseteq Nums(applied')
    PROVE  Flow'
BY DEF Flow, Unread, BeingHandled, HasAnswer, Lost, AnswerTo

\* A reply made while the proxy awaits it is the one it awaits.
LEMMA FlowWritten ==
    ASSUME GuestTypes, Flow, proxy.pc = "await", UNCHANGED <<proxy, applied>>,
           NEW r \in Replies, Write(TheConn, r), AnswerTo(r, proxy.line),
           inbox'[TheConn] = <<>>, outbox[TheConn] = <<>>
    PROVE  Flow'
<1>1. /\ outbox[TheConn] \in Seq(Replies)
      /\ \/ /\ conn'[TheConn].pc = "read"
            /\ outbox'[TheConn] = Append(outbox[TheConn], r)
         \/ conn'[TheConn].pc = "closed" /\ outbox' = outbox
  BY Written, TheOnlyConn DEF GuestTypes
<1>2. ~ Silent(proxy.line)
  BY DEF Flow
<1>3. CASE conn'[TheConn].pc = "read" /\ outbox'[TheConn] = Append(outbox[TheConn], r)
  <2>1. Len(outbox'[TheConn]) = 1 /\ outbox'[TheConn][1] = r
    BY <1>1, <1>3
  <2>2. AnswerTo(r, proxy.line)'
    BY DEF AnswerTo
  <2> QED  BY <1>2, <1>3, <2>1, <2>2 DEF Flow, HasAnswer, Silent
<1>4. CASE conn'[TheConn].pc = "closed" /\ outbox' = outbox
  BY <1>2, <1>4 DEF Flow, Lost, Silent
<1> QED  BY <1>1, <1>3, <1>4

LEMMA FlowThread ==
    ASSUME GuestTypes, HostTypes, RepliesOwn, Flow, proxy.pc # "exit",
           ThreadStep(TheConn), ProxyUnchanged
    PROVE  Flow'
<1> DEFINE in == inbox[TheConn]
<1>1. TheConn \in Conns /\ hungUp = {} /\ proxy' = proxy
  BY TheOnlyConn DEF GuestTypes, ProxyUnchanged
<1>2. proxy.pc \in {"connect", "line", "await"}
  BY DEF HostTypes
<1>3. ASSUME NEW kinds, Reading(TheConn, kinds)
      PROVE  /\ in \in Seq(Lines) /\ in # <<>> /\ Head(in) = in[1] /\ Len(in) \in Nat \ {0}
             /\ inbox'[TheConn] = Tail(in) /\ conn[TheConn].pc = "read"
             /\ Head(in) \in Lines /\ Head(in).kind \in kinds
             /\ outbox[TheConn] = <<>>
             /\ proxy.pc = "line" \/ (proxy.pc = "await" /\ Unread)
             /\ proxy.pc = "line" => Silent(Head(in))
             /\ proxy.pc = "await" =>
                  IF Len(in) = 1 THEN Head(in) = proxy.line ELSE Silent(Head(in))
  <2>1. /\ in \in Seq(Lines) /\ in # <<>> /\ inbox'[TheConn] = Tail(in)
        /\ conn[TheConn].pc = "read" /\ Head(in) \in Lines /\ Head(in).kind \in kinds
    BY <1>1, <1>3, Taking
  <2>2. Head(in) = in[1] /\ Len(in) \in Nat \ {0} /\ 1 \in DOMAIN in
    BY <2>1
  <2>3. proxy.pc = "line" \/ (proxy.pc = "await" /\ Unread)
    BY <1>2, <2>1 DEF Flow, BeingHandled, HasAnswer, Lost
  <2>4. outbox[TheConn] = <<>> /\ (proxy.pc = "line" => Silent(in[1]))
    BY <2>2, <2>3 DEF Flow, Unread
  <2>5. proxy.pc = "await" =>
          IF Len(in) = 1 THEN in[1] = proxy.line ELSE Silent(in[1])
    BY <2>2, <2>3 DEF Unread
  <2> QED  BY <2>1, <2>2, <2>3, <2>4, <2>5
<1>4. ASSUME NEW kinds, Reading(TheConn, kinds), "initialized" \notin kinds
      PROVE  proxy.pc = "await" /\ Head(in) = proxy.line /\ Len(in) = 1 /\ Tail(in) = <<>>
  <2>1. ~ Silent(Head(in))
    BY <1>3, <1>4 DEF Silent
  <2>2. proxy.pc = "await" /\ Head(in) = proxy.line /\ Len(in) = 1
    BY <1>3, <1>4, <2>1
  <2>3. Len(Tail(in)) = 0 /\ Tail(in) \in Seq(Lines)
    BY <1>3, <1>4, <2>2
  <2>4. Tail(in) = <<>>
    BY <2>3, EmptySeq
  <2> QED  BY <2>2, <2>4
<1>5. CASE ReadSilently(TheConn)
  <2>1. /\ Reading(TheConn, {"blank", "initialized"})
        /\ UNCHANGED <<outbox, conn, applied>>
    BY <1>5 DEF ReadSilently
  <2>2. Silent(Head(in))
    <3>1. Head(in) \in Lines /\ Head(in).kind \in {"blank", "initialized"}
      BY <1>3, <2>1
    <3>2. Head(in).kind # "blank"
      BY <3>1 DEF Lines
    <3> QED  BY <3>1, <3>2 DEF Silent
  <2>3. /\ DOMAIN Tail(in) = 1 .. Len(in) - 1 /\ Len(Tail(in)) = Len(in) - 1
        /\ \A i \in 1 .. Len(in) - 1 : Tail(in)[i] = in[i + 1] /\ i + 1 \in DOMAIN in
        /\ inbox'[TheConn] = Tail(in) /\ Len(in) \in Nat \ {0}
    BY <1>3, <2>1
  <2>4. CASE proxy.pc = "line"
    <3>1. \A i \in DOMAIN inbox'[TheConn] : Silent(inbox'[TheConn][i])
      BY <1>3, <2>1, <2>3, <2>4 DEF Flow
    <3> QED  BY <1>1, <2>1, <2>4, <3>1 DEF Flow, Silent
  <2>5. CASE proxy.pc = "await"
    <3>1. Unread /\ ~ Silent(proxy.line)
      BY <1>3, <2>1, <2>5 DEF Flow
    <3>2. Len(in) # 1
      BY <1>3, <2>1, <2>2, <2>5, <3>1
    <3>3. inbox'[TheConn] # <<>>
      <4>1. Len(Tail(in)) # 0
        BY <2>3, <3>2
      <4>2. Len(<<>>) = 0
        OBVIOUS
      <4> QED  BY <2>3, <4>1, <4>2
    <3>4. \A i \in DOMAIN inbox'[TheConn] :
            IF i = Len(inbox'[TheConn]) THEN inbox'[TheConn][i] = proxy.line
            ELSE Silent(inbox'[TheConn][i])
      <4>1. \A i \in DOMAIN in : IF i = Len(in) THEN in[i] = proxy.line ELSE Silent(in[i])
        BY <3>1 DEF Unread
      <4>2. \A i \in 1 .. Len(in) - 1 : i = Len(in) - 1 <=> i + 1 = Len(in)
        BY <2>3
      <4> QED  BY <2>3, <4>1, <4>2 DEF Silent
    <3>5. Unread'
      BY <1>1, <2>1, <3>1, <3>3, <3>4 DEF Unread, Silent
    <3> QED  BY <1>1, <2>5, <3>1, <3>5 DEF Flow, Silent
  <2> QED  BY <1>3, <2>1, <2>4, <2>5
<1>6. CASE AnswerLocally(TheConn)
  <2>1. Reading(TheConn, {"garbage", "local"}) /\ UNCHANGED applied
    BY <1>6 DEF AnswerLocally
  <2>2. /\ proxy.pc = "await" /\ Head(in) = proxy.line /\ Head(in) \in Lines
        /\ inbox'[TheConn] = <<>> /\ outbox[TheConn] = <<>>
    BY <1>3, <1>4, <2>1
  <2>3. PICK r \in Replies : Write(TheConn, r) /\ r.n = Head(in).n /\ r.of = NoCall
    <3>1. NoId \in Nat /\ Head(in).id \in Nat
      BY <2>2 DEF NoId, Lines
    <3> QED  BY <1>6, <2>2, <3>1, ReplyType DEF AnswerLocally, Bodies
  <2>4. AnswerTo(r, proxy.line)
    BY <2>2, <2>3 DEF AnswerTo
  <2> QED  BY <1>1, <2>1, <2>2, <2>3, <2>4, FlowWritten
<1>7. CASE Dispatch(TheConn)
  <2>1. Reading(TheConn, ToolKinds) /\ UNCHANGED outbox
    BY <1>7 DEF Dispatch
  <2>2. /\ proxy.pc = "await" /\ Head(in) = proxy.line
        /\ inbox'[TheConn] = <<>> /\ outbox[TheConn] = <<>>
    BY <1>3, <1>4, <2>1 DEF ToolKinds
  <2>3. conn'[TheConn] = [pc |-> "wait", line |-> proxy.line]
    BY <1>1, <1>7, <2>2 DEF Dispatch, GuestTypes
  <2> QED  BY <1>1, <2>1, <2>2, <2>3 DEF Flow, BeingHandled, Silent
<1>8. ASSUME Waiting(TheConn)
      PROVE  proxy.pc = "await" /\ BeingHandled
  BY <1>2, <1>8 DEF Flow, Waiting, Unread, HasAnswer, Lost
<1>9. CASE Receive(TheConn)
  <2>1. /\ proxy.pc = "await" /\ BeingHandled /\ conn[TheConn].line \in Lines
        /\ conn[TheConn].line.id \in Nat /\ UNCHANGED <<applied, inbox>>
    BY <1>1, <1>8, <1>9 DEF Receive, GuestTypes, Lines
  <2>2. PICK a \in Arrived(TheConn) :
          Write(TheConn, Reply(conn[TheConn].line, conn[TheConn].line.id, "ok", a.of))
    BY <1>9 DEF Receive
  <2>3. /\ a.of = <<TheConn, conn[TheConn].line.n>> /\ conn[TheConn].line.n \in Nums(applied)
        /\ a.of \in Conns \X (1 .. MaxLines)
    BY <1>1, <1>9, Arrivals DEF Receive
  <2>4. PICK r \in Replies : Write(TheConn, r) /\ r.n = proxy.line.n /\ r.of = a.of
    BY <2>1, <2>2, <2>3, ReplyType DEF BeingHandled, Bodies
  <2>5. AnswerTo(r, proxy.line)
    BY <2>1, <2>3, <2>4 DEF AnswerTo, BeingHandled
  <2>6. inbox'[TheConn] = <<>> /\ outbox[TheConn] = <<>>
    BY <2>1 DEF BeingHandled
  <2> QED  BY <1>1, <2>1, <2>4, <2>5, <2>6, FlowWritten
<1>10. CASE Timeout(TheConn)
  <2>1. /\ proxy.pc = "await" /\ BeingHandled /\ conn[TheConn].line \in Lines
        /\ conn[TheConn].line.id \in Nat /\ UNCHANGED <<applied, inbox>>
    BY <1>1, <1>8, <1>10 DEF Timeout, GuestTypes, Lines
  <2>2. PICK r \in Replies : Write(TheConn, r) /\ r.n = proxy.line.n /\ r.of = NoCall
    BY <1>10, <2>1, ReplyType DEF Timeout, BeingHandled, Bodies
  <2>3. AnswerTo(r, proxy.line)
    BY <2>2 DEF AnswerTo
  <2>4. inbox'[TheConn] = <<>> /\ outbox[TheConn] = <<>>
    BY <2>1 DEF BeingHandled
  <2> QED  BY <1>1, <2>1, <2>2, <2>3, <2>4, FlowWritten
<1>11. CASE EndOfFile(TheConn)
  BY <1>1, <1>11 DEF EndOfFile
<1> QED  BY <1>5, <1>6, <1>7, <1>9, <1>10, <1>11 DEF ThreadStep

LEMMA FlowGuest ==
    ASSUME GuestTypes, HostTypes, RepliesOwn, Flow, proxy.pc # "exit",
           GuestStep, ProxyUnchanged
    PROVE  Flow'
<1>1. /\ TheConn \in Conns /\ proxy' = proxy /\ proxy.pc \in {"connect", "line", "await"}
      /\ Nums(applied) \subseteq Nums(applied')
  BY TheOnlyConn, AppliedGrows DEF ProxyUnchanged, HostTypes
<1>2. CASE \E c \in Conns : ThreadStep(c)
  BY <1>2, FlowThread, TheOnlyConn
<1>3. CASE \E c \in Conns : Accept(c)
  <2>1. Accept(TheConn)
    BY <1>3, TheOnlyConn
  <2>2. conn'[TheConn].pc = "read" /\ conn[TheConn].pc = "pending"
        /\ UNCHANGED <<inbox, outbox, applied>>
    BY <1>1, <2>1 DEF Accept, GuestTypes
  <2> QED
    BY <1>1, <2>2 DEF Flow, Unread, BeingHandled, HasAnswer, Lost, AnswerTo, Silent
<1>4. CASE LoopStep \/ BrowserDone \/ \E call \in workers : WorkerDone(call)
  BY <1>1, <1>4, FlowKept DEF LoopStep, BrowserDone, WorkerDone
<1>5. CASE CompositorRestarts
  <2>1. TheConn \in Connections
    BY <1>5, TheOnlyConn DEF CompositorRestarts, Connections
  <2>2. /\ conn'[TheConn].pc = "closed" /\ inbox'[TheConn] = <<>>
        /\ UNCHANGED <<outbox, applied>>
        /\ conn[TheConn].pc \in {"pending", "read", "wait"}
    BY <1>1, <1>5, <2>1 DEF CompositorRestarts, Connections
  <2>3. proxy.pc # "connect"
    BY <2>2 DEF Flow
  <2>4. CASE proxy.pc = "line"
    BY <1>1, <2>2, <2>4 DEF Flow, Silent
  <2>5. CASE proxy.pc = "await"
    <3>1. (Lost \/ HasAnswer)' /\ ~ Silent(proxy.line)
      BY <1>1, <2>2, <2>5 DEF Flow, Unread, BeingHandled, HasAnswer, Lost, AnswerTo
    <3> QED  BY <1>1, <2>5, <3>1 DEF Flow, Silent
  <2> QED  BY <1>1, <2>3, <2>4, <2>5
<1> QED  BY <1>2, <1>3, <1>4, <1>5 DEF GuestStep

\* The proxy's own steps: it sends a request only when the connection is quiet.
LEMMA FlowForward ==
    ASSUME GuestTypes, HostTypes, Flow, Forward
    PROVE  Flow'
<1> DEFINE l == Head(stdin)
           in == inbox[TheConn]
<1>1. /\ proxy.pc = "line" /\ l \in Lines /\ GoesToGuest(l)
      /\ TheConn \in Conns /\ in \in Seq(Lines)
  BY TailNums, TheOnlyConn DEF Forward, TakesLine, HostTypes, GuestTypes
<1>2. /\ inbox'[TheConn] = Append(in, l) /\ UNCHANGED <<outbox, conn, applied>>
  BY <1>1 DEF Forward, Send, GuestTypes
<1>3. /\ conn[TheConn].pc \in {"pending", "read", "closed"} /\ outbox[TheConn] = <<>>
      /\ \A i \in DOMAIN in : Silent(in[i])
  BY <1>1 DEF Flow
<1>4. /\ DOMAIN Append(in, l) = 1 .. Len(in) + 1 /\ Len(Append(in, l)) = Len(in) + 1
      /\ DOMAIN in = 1 .. Len(in) /\ Len(in) \in Nat
      /\ \A i \in 1 .. Len(in) : Append(in, l)[i] = in[i]
      /\ Append(in, l)[Len(in) + 1] = l /\ Append(in, l) # <<>>
  <2> HIDE DEF in, l
  <2>1. Append(in, l) # <<>>
    BY <1>1, AppendProperties
  <2> QED  BY <1>1, <2>1
<1>5. CASE IsNotification(l)
  <2>1. Silent(l)
    BY <1>1, <1>5 DEF Lines, GoesToGuest, IsNotification, Silent
  <2>2. \A i \in DOMAIN inbox'[TheConn] : Silent(inbox'[TheConn][i])
    BY <1>2, <1>3, <1>4, <2>1
  <2>3. proxy' = proxy
    BY <1>5 DEF Forward
  <2> QED  BY <1>1, <1>2, <1>3, <2>2, <2>3 DEF Flow, Silent
<1>6. CASE ~ IsNotification(l)
  <2>1. proxy' = [pc |-> "await", line |-> l] /\ ~ Silent(l)
    BY <1>1, <1>6 DEF Forward, Lines, Silent
  <2>2. \A i \in DOMAIN inbox'[TheConn] :
          IF i = Len(inbox'[TheConn]) THEN inbox'[TheConn][i] = l
          ELSE Silent(inbox'[TheConn][i])
    BY <1>2, <1>3, <1>4
  <2>3. (Unread \/ Lost)'
    BY <1>2, <1>3, <1>4, <2>1, <2>2 DEF Unread, Lost, Silent
  <2> QED  BY <2>1, <2>3 DEF Flow, Silent
<1> QED  BY <1>5, <1>6

LEMMA FlowHost ==
    ASSUME GuestTypes, HostTypes, Flow, (ProxyStep \/ EndOfInput \/ RebootExit
             \/ \E shape \in Shapes : ClientWrites(shape))
    PROVE  Flow'
<1>1. CASE Connect
  <2>1. /\ conn'[TheConn].pc = "pending" /\ proxy'.pc = "line"
        /\ inbox'[TheConn] = <<>> /\ outbox'[TheConn] = <<>>
    BY <1>1, TheOnlyConn DEF Connect, Connected, Flow, GuestTypes, HostTypes
  <2> QED  BY <2>1 DEF Flow
<1>2. CASE GiveUpConnecting \/ GuestGone \/ EndOfInput \/ RebootExit
  <2>1. proxy'.pc = "exit"
    BY <1>2 DEF GiveUpConnecting, GuestGone, EndOfInput, RebootExit, HostTypes
  <2> QED  BY <2>1 DEF Flow
<1>3. CASE HandleReboot \/ HandleCapture \/ \E shape \in Shapes : ClientWrites(shape)
  <2>1. UNCHANGED <<inbox, outbox, conn, proxy, applied>>
    BY <1>3 DEF HandleReboot, HandleCapture, ClientWrites, guest
  <2> QED  BY <2>1, FlowKept
<1>4. CASE Forward
  BY <1>4, FlowForward
<1>5. CASE PrintAnswer
  <2>1. HasAnswer /\ TheConn \in Conns
    BY <1>5, TheOnlyConn DEF PrintAnswer, Flow, Unread, BeingHandled, Lost
  <2>2. /\ outbox[TheConn] \in Seq(Replies) /\ Len(outbox[TheConn]) = 1
        /\ outbox'[TheConn] = Tail(outbox[TheConn])
    BY <1>5, <2>1 DEF PrintAnswer, HasAnswer, GuestTypes
  <2>3. Tail(outbox[TheConn]) \in Seq(Replies) /\ Len(Tail(outbox[TheConn])) = 0
    <3>1. outbox[TheConn] # <<>>
      <4>1. Len(<<>>) = 0
        OBVIOUS
      <4> QED  BY <2>2, <4>1
    <3> QED  BY <2>2, <3>1
  <2>4. outbox'[TheConn] = <<>>
    BY <2>2, <2>3, EmptySeq
  <2> QED  BY <1>5, <2>1, <2>4 DEF PrintAnswer, HasAnswer, Flow
<1> QED  BY <1>1, <1>2, <1>3, <1>4, <1>5 DEF ProxyStep

-----------------------------------------------------------------------------
(* Each line becomes at most one call *)

\* A line the thread takes is in no queue any more.
LEMMA TakenOff ==
    ASSUME GuestTypes, LinesOnce, CallsOnce, NEW kinds, Reading(TheConn, kinds)
    PROVE  /\ Nums(inbox'[TheConn]) \subseteq Nums(inbox[TheConn])
           /\ Distinct(inbox'[TheConn])
           /\ Head(inbox[TheConn]).n \in Nums(inbox[TheConn]) \ Nums(inbox'[TheConn])
<1>1. /\ inbox[TheConn] \in Seq(Lines) /\ inbox[TheConn] # <<>>
      /\ inbox'[TheConn] = Tail(inbox[TheConn])
  BY Taking, TheOnlyConn
<1> QED  BY <1>1, TailNums DEF LinesOnce

\* Nothing changes where the calls are, and no line comes.
LEMMA OnceKept ==
    ASSUME GuestTypes, LinesOnce, CallsOnce, UNCHANGED <<cmds, browserq, workers, applied>>,
           UNCHANGED <<stdin, written>>, Distinct(inbox'[TheConn]),
           Nums(inbox'[TheConn]) \subseteq Nums(inbox[TheConn])
    PROVE  (LinesOnce /\ CallsOnce)'
<1>1. Dispatched' = Dispatched /\ WorkerNums' = WorkerNums /\ Taken' = Taken
  BY DEF Dispatched, WorkerNums, Taken
<1>2. LinesOnce'
  BY <1>1 DEF LinesOnce
<1>3. CallsOnce'
  BY <1>1 DEF CallsOnce
<1> QED  BY <1>2, <1>3

LEMMA OnceThread ==
    ASSUME GuestTypes, LinesOnce, CallsOnce, ThreadStep(TheConn), ProxyUnchanged
    PROVE  (LinesOnce /\ CallsOnce)'
<1>1. UNCHANGED <<stdin, written>>
  BY DEF ProxyUnchanged
<1>2. CASE ReadSilently(TheConn) \/ AnswerLocally(TheConn)
  BY <1>1, <1>2, TakenOff, OnceKept DEF ReadSilently, AnswerLocally
<1>3. CASE Receive(TheConn) \/ Timeout(TheConn) \/ EndOfFile(TheConn)
  <2>1. UNCHANGED <<inbox, cmds, browserq, workers, applied>>
    BY <1>3 DEF Receive, Timeout, EndOfFile
  <2>2. Distinct(inbox'[TheConn]) /\ Nums(inbox'[TheConn]) \subseteq Nums(inbox[TheConn])
    BY <2>1 DEF LinesOnce
  <2> QED  BY <1>1, <2>1, <2>2, OnceKept
<1>4. CASE Dispatch(TheConn)
  <2> DEFINE l == Head(inbox[TheConn])
             call == Call(TheConn, l)
  <2>1. /\ Reading(TheConn, ToolKinds) /\ cmds' = Append(cmds, call)
        /\ UNCHANGED <<workers, browserq, applied>>
    BY <1>4 DEF Dispatch
  <2>2. l \in Lines /\ l.kind \in ToolKinds /\ TheConn \in Conns
    BY <2>1, Taking, TheOnlyConn
  <2>3. call \in CallSet /\ call.n = l.n
    BY <2>2 DEF Call, CallSet, Lines
  <2>4. /\ Nums(inbox'[TheConn]) \subseteq Nums(inbox[TheConn])
        /\ Distinct(inbox'[TheConn])
        /\ l.n \in Nums(inbox[TheConn]) /\ l.n \notin Nums(inbox'[TheConn])
    BY <2>1, TakenOff
  <2>5. l.n \notin Dispatched /\ l.n \in 1 .. Taken
    BY <2>4 DEF LinesOnce
  <2>6. Nums(cmds') = Nums(cmds) \cup {l.n} /\ Distinct(cmds')
    <3>1. l.n \notin Nums(cmds) /\ Distinct(cmds) /\ cmds \in Seq(CallSet)
      BY <2>5 DEF Dispatched, CallsOnce, GuestTypes
    <3> HIDE DEF call
    <3> QED  BY <2>1, <2>3, <3>1, AppendNums
  <2>7. /\ WorkerNums' = WorkerNums /\ Taken' = Taken /\ Dispatched' = Dispatched \cup {l.n}
        /\ Nums(browserq') = Nums(browserq) /\ Nums(applied') = Nums(applied)
    BY <1>1, <2>1, <2>6 DEF WorkerNums, Taken, Dispatched
  <2>8. LinesOnce'
    BY <1>1, <2>4, <2>5, <2>7 DEF LinesOnce
  <2>9. CallsOnce'
    BY <2>1, <2>5, <2>6, <2>7 DEF CallsOnce, Dispatched
  <2> QED  BY <2>8, <2>9
<1> QED  BY <1>2, <1>3, <1>4 DEF ThreadStep

\* A call moves on, from where it was to one other place.
LEMMA OnceMoved ==
    ASSUME GuestTypes, LinesOnce, UNCHANGED <<stdin, written, inbox>>, CallsOnce',
           Dispatched' \subseteq Dispatched
    PROVE  LinesOnce'
BY DEF LinesOnce, Taken

LEMMA OnceLoop ==
    ASSUME GuestTypes, LinesOnce, CallsOnce, ProxyUnchanged,
           LoopStep \/ BrowserDone \/ CompositorRestarts \/ \E call \in workers : WorkerDone(call)
    PROVE  (LinesOnce /\ CallsOnce)'
<1>1. /\ UNCHANGED <<stdin, written>> /\ cmds \in Seq(CallSet) /\ browserq \in Seq(CallSet)
      /\ workers \subseteq CallSet /\ applied \in Seq(CallSet)
  BY DEF ProxyUnchanged, GuestTypes
<1>2. CASE LoopStep
  <2> DEFINE call == Head(cmds)
  <2>1. cmds # <<>> /\ cmds' = Tail(cmds) /\ UNCHANGED inbox
    BY <1>2 DEF LoopStep
  <2>2. /\ call \in CallSet /\ call.n \in Nums(cmds) /\ Nums(cmds') \subseteq Nums(cmds)
        /\ Distinct(cmds') /\ call.n \notin Nums(cmds')
    BY <1>1, <2>1, TailNums DEF CallsOnce
  <2>3. call.n \notin Nums(browserq) \cup WorkerNums \cup Nums(applied)
    BY <2>2 DEF CallsOnce
  <2>4. CASE call.kind \in {"tool", "capture"}
    <3>1. applied' = Append(applied, call) /\ UNCHANGED <<workers, browserq>>
      BY <1>2, <2>4 DEF LoopStep, Apply
    <3>2. Nums(applied') = Nums(applied) \cup {call.n} /\ Distinct(applied')
      BY <1>1, <2>2, <2>3, <3>1, AppendNums DEF CallsOnce
    <3>3. WorkerNums' = WorkerNums /\ Nums(browserq') = Nums(browserq)
      BY <3>1 DEF WorkerNums
    <3>4. CallsOnce' /\ Dispatched' \subseteq Dispatched
      BY <2>2, <2>3, <3>1, <3>2, <3>3 DEF CallsOnce, Dispatched
    <3> QED  BY <1>1, <2>1, <3>4, OnceMoved
  <2>5. CASE call.kind = "spawn"
    <3>1. workers' = workers \cup {call} /\ UNCHANGED <<applied, browserq>>
      BY <1>2, <2>5 DEF LoopStep
    <3>2. WorkerNums' = WorkerNums \cup {call.n}
      BY <3>1 DEF WorkerNums
    <3>3. \A v, w \in workers' : v.n = w.n => v = w
      BY <2>3, <3>1 DEF CallsOnce, WorkerNums
    <3>4. CallsOnce' /\ Dispatched' \subseteq Dispatched
      BY <2>2, <2>3, <3>1, <3>2, <3>3 DEF CallsOnce, Dispatched
    <3> QED  BY <1>1, <2>1, <3>4, OnceMoved
  <2>6. CASE call.kind \notin {"tool", "capture", "spawn"}
    <3>1. browserq' = Append(browserq, call) /\ UNCHANGED <<applied, workers>>
      BY <1>2, <2>6 DEF LoopStep
    <3>2. Nums(browserq') = Nums(browserq) \cup {call.n} /\ Distinct(browserq')
      BY <1>1, <2>2, <2>3, <3>1, AppendNums DEF CallsOnce
    <3>3. WorkerNums' = WorkerNums /\ Nums(applied') = Nums(applied)
      BY <3>1 DEF WorkerNums
    <3>4. CallsOnce' /\ Dispatched' \subseteq Dispatched
      BY <2>2, <2>3, <3>1, <3>2, <3>3 DEF CallsOnce, Dispatched
    <3> QED  BY <1>1, <2>1, <3>4, OnceMoved
  <2> QED  BY <2>4, <2>5, <2>6
<1>3. CASE BrowserDone
  <2> DEFINE call == Head(browserq)
  <2>1. /\ browserq # <<>> /\ browserq' = Tail(browserq) /\ UNCHANGED <<inbox, cmds, workers>>
        /\ applied' = Append(applied, call)
    BY <1>3 DEF BrowserDone, Apply
  <2>2. /\ call \in CallSet /\ call.n \in Nums(browserq)
        /\ Nums(browserq') \subseteq Nums(browserq)
        /\ Distinct(browserq') /\ call.n \notin Nums(browserq')
    BY <1>1, <2>1, TailNums DEF CallsOnce
  <2>3. call.n \notin Nums(cmds) \cup WorkerNums \cup Nums(applied)
    BY <2>2 DEF CallsOnce
  <2>4. Nums(applied') = Nums(applied) \cup {call.n} /\ Distinct(applied')
    BY <1>1, <2>1, <2>2, <2>3, AppendNums DEF CallsOnce
  <2>5. WorkerNums' = WorkerNums /\ Nums(cmds') = Nums(cmds)
    BY <2>1 DEF WorkerNums
  <2>6. CallsOnce' /\ Dispatched' \subseteq Dispatched
    BY <2>1, <2>2, <2>3, <2>4, <2>5 DEF CallsOnce, Dispatched
  <2> QED  BY <1>1, <2>1, <2>6, OnceMoved
<1>4. ASSUME NEW call \in workers, WorkerDone(call) PROVE (LinesOnce /\ CallsOnce)'
  <2>1. /\ workers' = workers \ {call} /\ UNCHANGED <<inbox, cmds, browserq>>
        /\ applied' = Append(applied, call) /\ call \in CallSet
    BY <1>1, <1>4 DEF WorkerDone, Apply
  <2>2. call.n \in WorkerNums /\ WorkerNums' \subseteq WorkerNums
    BY <2>1 DEF WorkerNums
  <2>3. call.n \notin WorkerNums'
    BY <2>1 DEF WorkerNums, CallsOnce
  <2>4. call.n \notin Nums(cmds) \cup Nums(browserq) \cup Nums(applied)
    BY <2>2 DEF CallsOnce
  <2>5. Nums(applied') = Nums(applied) \cup {call.n} /\ Distinct(applied')
    BY <1>1, <2>1, <2>4, AppendNums DEF CallsOnce
  <2>6. /\ Nums(browserq') = Nums(browserq) /\ Nums(cmds') = Nums(cmds)
        /\ \A v, w \in workers' : v.n = w.n => v = w
    BY <2>1 DEF CallsOnce
  <2>7. CallsOnce' /\ Dispatched' \subseteq Dispatched
    BY <2>1, <2>2, <2>3, <2>4, <2>5, <2>6 DEF CallsOnce, Dispatched
  <2> QED  BY <1>1, <2>1, <2>7, OnceMoved
<1>5. CASE CompositorRestarts
  <2>1. /\ inbox'[TheConn] = <<>> /\ cmds' = <<>> /\ browserq' = <<>>
        /\ UNCHANGED <<workers, applied>>
    BY <1>5, TheOnlyConn DEF CompositorRestarts
  <2>2. Nums(<<>>) = {} /\ Distinct(<<>>)
    BY DEF Nums, Distinct
  <2>3. /\ WorkerNums' = WorkerNums /\ Taken' = Taken /\ Dispatched' \subseteq Dispatched
        /\ Nums(inbox'[TheConn]) = {} /\ Distinct(inbox'[TheConn])
    BY <1>1, <2>1, <2>2 DEF WorkerNums, Taken, Dispatched
  <2>4. LinesOnce'
    BY <1>1, <2>3 DEF LinesOnce
  <2>5. CallsOnce'
    BY <2>1, <2>2, <2>3 DEF CallsOnce
  <2> QED  BY <2>4, <2>5
<1> QED  BY <1>2, <1>3, <1>4, <1>5

\* The line the proxy takes is the first that nobody has seen.
LEMMA LineTaken ==
    ASSUME GuestTypes, HostTypes, LinesOnce, TakesLine, UNCHANGED written
    PROVE  /\ Head(stdin) \in Lines /\ Head(stdin).n = Taken + 1
           /\ Taken' = Taken + 1 /\ Taken \in Nat
           /\ Len(stdin') <= written' /\ \A i \in DOMAIN stdin' : stdin'[i].n = Taken' + i
           /\ Head(stdin).n \notin Nums(inbox[TheConn]) \cup Dispatched
           /\ 1 .. Taken \subseteq 1 .. Taken'
<1>1. /\ stdin \in Seq(Lines) /\ stdin # <<>> /\ stdin' = Tail(stdin)
      /\ Len(stdin) \in Nat /\ Len(stdin) > 0 /\ Head(stdin) = stdin[1]
      /\ DOMAIN stdin = 1 .. Len(stdin) /\ DOMAIN Tail(stdin) = 1 .. Len(stdin) - 1
      /\ Len(Tail(stdin)) = Len(stdin) - 1
      /\ \A i \in 1 .. Len(stdin) - 1 : Tail(stdin)[i] = stdin[i + 1]
      /\ written \in Nat /\ Head(stdin) \in Lines
  BY BoundsAssumption, TailNums DEF TakesLine, HostTypes
<1>2. Len(stdin) <= written /\ \A i \in 1 .. Len(stdin) : stdin[i].n = Taken + i
  BY <1>1 DEF LinesOnce
<1>3. Taken' = Taken + 1 /\ Taken \in Nat /\ Len(stdin') <= written'
  BY <1>1, <1>2 DEF Taken
<1>4. Head(stdin).n = Taken + 1 /\ 1 .. Taken \subseteq 1 .. Taken'
  BY <1>1, <1>2, <1>3
<1>5. \A i \in DOMAIN stdin' : stdin'[i].n = Taken' + i
  BY <1>1, <1>2, <1>3
<1>6. Head(stdin).n \notin 1 .. Taken
  BY <1>3, <1>4
<1> QED  BY <1>1, <1>3, <1>4, <1>5, <1>6 DEF LinesOnce

\* A host step that takes a line or none, and leaves the guest's queues alone.
LEMMA OnceHost ==
    ASSUME Polite, GuestTypes, HostTypes, LinesOnce, CallsOnce,
           (ProxyStep \/ EndOfInput \/ RebootExit \/ \E shape \in Shapes : ClientWrites(shape))
    PROVE  (LinesOnce /\ CallsOnce)'
<1>1. UNCHANGED <<cmds, browserq, workers, applied>>
  BY DEF ProxyStep, Connect, GiveUpConnecting, HandleReboot, HandleCapture, Forward,
         PrintAnswer, GuestGone, EndOfInput, RebootExit, ClientWrites, guest
<1>2. CallsOnce' /\ Dispatched' = Dispatched
  BY <1>1 DEF CallsOnce, WorkerNums, Dispatched
<1>3. ASSUME NEW shape \in Shapes, ClientWrites(shape) PROVE LinesOnce'
  <2> DEFINE l == LineOf(shape, written + 1)
  <2>1. /\ written \in Nat /\ written' = written + 1 /\ written + 1 \in 1 .. MaxLines
        /\ stdin' = Append(stdin, l) /\ UNCHANGED inbox /\ stdin \in Seq(Lines)
    BY <1>3, BoundsAssumption DEF ClientWrites, HostTypes, guest
  <2>2. l \in Lines /\ l.n = written + 1
    BY <2>1, LineType
  <2> HIDE DEF l
  <2>3. /\ Len(stdin') = Len(stdin) + 1 /\ Len(stdin) \in Nat /\ DOMAIN stdin = 1 .. Len(stdin)
        /\ DOMAIN stdin' = 1 .. Len(stdin) + 1 /\ stdin'[Len(stdin) + 1] = l
        /\ \A i \in 1 .. Len(stdin) : stdin'[i] = stdin[i]
    BY <2>1, <2>2, AppendProperties
  <2>4. Taken' = Taken /\ l.n = Taken + Len(stdin) + 1 /\ Taken \in Int
    BY <2>1, <2>2, <2>3 DEF Taken
  <2>5. \A i \in DOMAIN stdin' : stdin'[i].n = Taken' + i
    BY <2>3, <2>4 DEF LinesOnce
  <2> QED  BY <1>2, <2>1, <2>3, <2>4, <2>5 DEF LinesOnce
<1>4. CASE HandleReboot \/ HandleCapture
  <2>1. TakesLine /\ UNCHANGED <<written, inbox>>
    BY <1>4 DEF HandleReboot, HandleCapture, guest
  <2> QED  BY <1>2, <2>1, LineTaken DEF LinesOnce
<1>5. CASE Forward
  <2>1. /\ TakesLine /\ UNCHANGED written
        /\ inbox'[TheConn] = Append(inbox[TheConn], Head(stdin))
        /\ inbox[TheConn] \in Seq(Lines)
    BY <1>5, TheOnlyConn DEF Forward, Send, GuestTypes
  <2>2. /\ Head(stdin) \in Lines /\ Head(stdin).n \notin Nums(inbox[TheConn]) \cup Dispatched
        /\ Head(stdin).n \in 1 .. Taken' /\ 1 .. Taken \subseteq 1 .. Taken'
    BY <2>1, LineTaken
  <2>3. /\ Nums(inbox'[TheConn]) = Nums(inbox[TheConn]) \cup {Head(stdin).n}
        /\ Distinct(inbox'[TheConn])
    BY <2>1, <2>2, AppendNums DEF LinesOnce
  <2> QED  BY <1>2, <2>1, <2>2, <2>3, LineTaken DEF LinesOnce
<1>6. CASE Connect \/ GiveUpConnecting \/ PrintAnswer \/ GuestGone \/ EndOfInput \/ RebootExit
  <2>1. UNCHANGED <<inbox, stdin, written>>
    BY <1>6 DEF Connect, GiveUpConnecting, PrintAnswer, GuestGone, EndOfInput, RebootExit, guest
  <2> QED  BY <1>2, <2>1 DEF LinesOnce, Taken
<1> QED  BY <1>2, <1>3, <1>4, <1>5, <1>6 DEF ProxyStep

-----------------------------------------------------------------------------
(* What reply channels and answers hold *)

LEMMA RepliesGuest ==
    ASSUME GuestTypes, RepliesOwn, GuestStep
    PROVE  RepliesOwn'
<1>1. Nums(applied) \subseteq Nums(applied')
  BY AppliedGrows
<1>2. ASSUME replies' \subseteq replies PROVE RepliesOwn'
  BY <1>1, <1>2 DEF RepliesOwn
<1>3. ASSUME NEW call \in CallSet, Apply(call), SendReply(call) PROVE RepliesOwn'
  <2>1. Nums(applied') = Nums(applied) \cup {call.n} /\ call.c = TheConn
    <3>1. applied \in Seq(CallSet) /\ applied' = Append(applied, call)
      BY <1>3 DEF Apply, GuestTypes
    <3>2. call.c = TheConn
      BY TheOnlyConn DEF CallSet
    <3> QED  BY <3>1, <3>2, AppendNums
  <2>2. replies' \subseteq
          replies \cup {[channel |-> <<TheConn, call.n>>, of |-> <<TheConn, call.n>>]}
    BY <1>3, <2>1 DEF SendReply, ReplyChannel
  <2> QED  BY <1>1, <2>1, <2>2 DEF RepliesOwn
<1>4. CASE LoopStep
  <2>1. Head(cmds) \in CallSet
    BY <1>4, TailNums DEF LoopStep, GuestTypes
  <2>2. (Apply(Head(cmds)) /\ SendReply(Head(cmds))) \/ replies' = replies
    BY <1>4 DEF LoopStep
  <2> QED  BY <1>2, <1>3, <2>1, <2>2
<1>5. CASE BrowserDone
  <2>1. Head(browserq) \in CallSet
    BY <1>5, TailNums DEF BrowserDone, GuestTypes
  <2> QED  BY <1>3, <1>5, <2>1 DEF BrowserDone
<1>6. CASE \E call \in workers : WorkerDone(call)
  BY <1>3, <1>6 DEF WorkerDone, GuestTypes
<1>7. CASE CompositorRestarts \/ \E c \in Conns : Accept(c)
  BY <1>2, <1>7 DEF CompositorRestarts, Accept
<1>8. CASE \E c \in Conns : ThreadStep(c)
  BY <1>2, <1>8
     DEF ThreadStep, ReadSilently, AnswerLocally, Dispatch, Receive, Timeout, EndOfFile
<1> QED  BY <1>4, <1>5, <1>6, <1>7, <1>8 DEF GuestStep

\* One more answer, for a line not answered before.
LEMMA OneMore ==
    ASSUME HostTypes, AnswersMatch, NEW l \in Lines, NEW r \in Replies, r.n = l.n,
           stdout' = Append(stdout, [line |-> l, answer |-> r])
    PROVE  AnswersMatch' /\ AnsweredNums' = AnsweredNums \cup {l.n}
<1> DEFINE x == [line |-> l, answer |-> r]
<1>1. x \in [line : Lines, answer : Replies] /\ x.line = l /\ x.answer = r
  OBVIOUS
<1>2. stdout \in Seq([line : Lines, answer : Replies]) /\ stdout' = Append(stdout, x)
  BY DEF HostTypes
<1> HIDE DEF x
<1>3. /\ Len(stdout) \in Nat /\ DOMAIN stdout = 1 .. Len(stdout)
      /\ DOMAIN stdout' = 1 .. Len(stdout) + 1 /\ stdout'[Len(stdout) + 1] = x
      /\ \A i \in 1 .. Len(stdout) : stdout'[i] = stdout[i]
  BY <1>1, <1>2, AppendProperties
<1>4. \A i \in 1 .. Len(stdout) + 1 : i \in 1 .. Len(stdout) \/ i = Len(stdout) + 1
  BY <1>3
<1>5. Len(stdout) + 1 \in DOMAIN stdout' /\ 1 .. Len(stdout) \subseteq DOMAIN stdout'
  BY <1>3
<1>6. AnswersMatch'
  BY <1>1, <1>3, <1>4 DEF AnswersMatch
<1>7. AnsweredNums' = AnsweredNums \cup {l.n}
  BY <1>1, <1>3, <1>4, <1>5 DEF AnsweredNums
<1> QED  BY <1>6, <1>7

LEMMA AnswersHost ==
    ASSUME Polite, GuestTypes, HostTypes, Flow, LinesOnce, AnsweredOnce, AnswersMatch,
           (ProxyStep \/ EndOfInput \/ RebootExit \/ \E shape \in Shapes : ClientWrites(shape))
    PROVE  (AnsweredOnce /\ AnswersMatch)'
<1> USE DEF AnsweredOnce
<1>1. ASSUME NEW shape \in Shapes, ClientWrites(shape) PROVE (AnsweredOnce /\ AnswersMatch)'
  <2>1. /\ written' = written + 1 /\ Len(stdin') = Len(stdin) + 1 /\ UNCHANGED <<stdout, proxy>>
        /\ written \in Nat /\ Len(stdin) \in Nat
    BY <1>1, BoundsAssumption, LineType DEF ClientWrites, HostTypes
  <2>2. Taken' = Taken
    BY <2>1 DEF Taken
  <2> QED  BY <2>1, <2>2 DEF AnsweredNums, AnswersMatch
<1>2. CASE HandleReboot \/ HandleCapture
  <2> DEFINE l == Head(stdin)
  <2>1. /\ TakesLine /\ UNCHANGED <<written, proxy>> /\ proxy.pc = "line"
        /\ \E b \in Bodies : HostAnswers(l, b)
    BY <1>2 DEF HandleReboot, HandleCapture, TakesLine, Bodies
  <2>2. l \in Lines /\ l.n = Taken + 1 /\ Taken' = Taken + 1 /\ Taken \in Nat
    BY <2>1, LineTaken
  <2>3. l.n \in 1 .. Taken' /\ 1 .. Taken \subseteq 1 .. Taken' /\ proxy'.pc # "await"
    BY <2>1, <2>2
  <2>4. CASE UNCHANGED stdout
    BY <2>3, <2>4 DEF AnsweredNums, AnswersMatch
  <2>5. CASE ~ UNCHANGED stdout
    <3>1. PICK r \in Replies : /\ stdout' = Append(stdout, [line |-> l, answer |-> r])
                               /\ r.n = l.n /\ r.of = NoCall
      BY <2>1, <2>2, <2>5, HostAnswer
    <3>2. AnswersMatch' /\ AnsweredNums' = AnsweredNums \cup {l.n}
      BY <2>2, <3>1, OneMore
    <3> QED  BY <2>3, <3>2
  <2> QED  BY <2>4, <2>5
<1>3. CASE Forward
  <2>1. /\ TakesLine /\ UNCHANGED <<written, stdout>> /\ proxy.pc = "line"
        /\ proxy' = proxy \/ proxy' = [pc |-> "await", line |-> Head(stdin)]
    BY <1>3 DEF Forward, TakesLine
  <2>2. Head(stdin).n = Taken + 1 /\ Taken' = Taken + 1 /\ Taken \in Nat
    BY <2>1, LineTaken
  <2>3. /\ Head(stdin).n \in 1 .. Taken' /\ Head(stdin).n \notin 1 .. Taken
        /\ 1 .. Taken \subseteq 1 .. Taken'
    BY <2>2
  <2>4. AnsweredNums' = AnsweredNums /\ AnswersMatch'
    BY <2>1 DEF AnsweredNums, AnswersMatch
  <2> QED  BY <2>1, <2>3, <2>4
<1>4. CASE PrintAnswer
  <2>1. HasAnswer /\ TheConn \in Conns /\ proxy.line \in Lines /\ proxy.pc = "await"
    BY <1>4, TheOnlyConn DEF PrintAnswer, Flow, Unread, BeingHandled, Lost, HostTypes
  <2>2. /\ outbox[TheConn] \in Seq(Replies) /\ outbox[TheConn] # <<>>
        /\ Head(outbox[TheConn]) = outbox[TheConn][1] /\ Head(outbox[TheConn]) \in Replies
    BY <1>4, <2>1, TailNums DEF PrintAnswer, GuestTypes
  <2>3. Head(outbox[TheConn]).n = proxy.line.n
    BY <2>1, <2>2 DEF HasAnswer, AnswerTo
  <2>4. AnswersMatch' /\ AnsweredNums' = AnsweredNums \cup {proxy.line.n}
    BY <1>4, <2>1, <2>2, <2>3, OneMore DEF PrintAnswer, PrintLine
  <2>5. Taken' = Taken /\ proxy'.pc = "line" /\ proxy.line.n \in 1 .. Taken
    BY <1>4, <2>1 DEF PrintAnswer, Taken
  <2> QED  BY <2>4, <2>5
<1>5. CASE Connect \/ GiveUpConnecting \/ GuestGone \/ EndOfInput \/ RebootExit
  <2>1. UNCHANGED <<stdout, stdin, written>> /\ proxy'.pc # "await"
    BY <1>5 DEF Connect, GiveUpConnecting, GuestGone, EndOfInput, RebootExit, HostTypes
  <2> QED  BY <2>1 DEF AnsweredNums, AnswersMatch, Taken
<1> QED  BY <1>1, <1>2, <1>3, <1>4, <1>5 DEF ProxyStep

-----------------------------------------------------------------------------
(* The invariant *)

LEMMA NextIInv ==
    ASSUME Polite, IInv, [Next]_vars
    PROVE  IInv'
<1> USE DEF IInv
<1>1. CASE UNCHANGED vars
  BY <1>1 DEF vars, guest, IInv, GuestTypes, HostTypes, Waiting, Flow, Unread, BeingHandled,
              HasAnswer, Lost, AnswerTo, LinesOnce, CallsOnce, RepliesOwn, AnsweredOnce,
              AnswersMatch, Taken, WorkerNums, Dispatched, AnsweredNums
<1>2. CASE ProxyStep \/ EndOfInput \/ RebootExit \/ \E shape \in Shapes : ClientWrites(shape)
  <2>1. UNCHANGED replies /\ UNCHANGED applied
    BY <1>2 DEF ProxyStep, Connect, GiveUpConnecting, HandleReboot, HandleCapture, Forward,
                PrintAnswer, GuestGone, EndOfInput, RebootExit, ClientWrites, guest
  <2>2. RepliesOwn'
    BY <2>1 DEF RepliesOwn
  <2> QED  BY <1>2, <2>2, HostActionTypes, FlowHost, OnceHost, AnswersHost
<1>3. CASE GuestRuns
  <2>1. proxy.pc # "exit" /\ GuestStep /\ ProxyUnchanged
    BY <1>3 DEF GuestRuns
  <2>2. GuestTypes' /\ RepliesOwn' /\ Flow'
    BY <2>1, GuestStepTypes, RepliesGuest, FlowGuest
  <2>3. HostTypes' /\ AnsweredOnce' /\ AnswersMatch'
    BY <2>1 DEF ProxyUnchanged, HostTypes, AnsweredOnce, AnsweredNums, Taken, AnswersMatch
  <2>4. (LinesOnce /\ CallsOnce)'
    <3>1. CASE \E c \in Conns : ThreadStep(c)
      BY <2>1, <3>1, OnceThread, TheOnlyConn
    <3>2. CASE \E c \in Conns : Accept(c)
      <4>1. UNCHANGED <<inbox, cmds, browserq, workers, applied>>
        BY <3>2 DEF Accept
      <4>2. UNCHANGED <<stdin, written>> /\ Distinct(inbox'[TheConn])
        BY <2>1, <4>1 DEF ProxyUnchanged, LinesOnce
      <4> QED  BY <4>1, <4>2, OnceKept
    <3> QED  BY <2>1, <3>1, <3>2, OnceLoop DEF GuestStep
  <2> QED  BY <2>2, <2>3, <2>4
<1> QED  BY <1>1, <1>2, <1>3 DEF Next

\* The inductive invariant holds in every state, if the client keeps to the
\* handshake.
THEOREM Invariance == ASSUME Polite PROVE Spec => []IInv
<1>1. [Next]_vars /\ IInv => IInv'
  BY NextIInv
<1> QED  BY <1>1, InitIInv, PTL DEF Spec

\* Every answer printed is that of the line it is printed for, for any number
\* of lines and any buffering, if the client keeps to the handshake.
THEOREM AnswersMatchTheirLines == ASSUME Polite PROVE Spec => []AnswersMatch
<1>1. IInv => AnswersMatch
  BY DEF IInv
<1> QED  BY <1>1, Invariance, PTL

-----------------------------------------------------------------------------
(* The transport and the guest implement CallService *)

CarriedOut(s) == [i \in DOMAIN s |-> s[i].n]
Result(r) == IF r.of = NoCall THEN 0 ELSE r.of[2]
Given(a) == [call |-> a.line.n, result |-> Result(a.answer)]
Answers(s) == [i \in DOMAIN s |-> Given(s[i])]
Printed == [line : Lines, answer : Replies]
ServiceAnswers == [call : 1 .. MaxLines, result : 0 .. MaxLines]

\* A sequence is what it is before its last element, and that element.
LEMMA AppendIs ==
    ASSUME NEW S, NEW s \in Seq(S), NEW x \in S, NEW t \in Seq(S),
           Len(t) = Len(s) + 1, t[Len(s) + 1] = x,
           \A i \in 1 .. Len(s) : t[i] = s[i]
    PROVE  t = Append(s, x)
<1>1. /\ Append(s, x) \in Seq(S) /\ Len(Append(s, x)) = Len(t) /\ Len(s) \in Nat
      /\ \A i \in 1 .. Len(s) : Append(s, x)[i] = s[i] /\ Append(s, x)[Len(s) + 1] = x
  BY AppendProperties
<1>2. \A i \in 1 .. Len(t) : t[i] = Append(s, x)[i]
  BY <1>1
<1> QED  BY <1>1, <1>2, SeqEqual

LEMMA CarriedOutIs ==
    ASSUME NEW s \in Seq(CallSet)
    PROVE  /\ CarriedOut(s) \in Seq(1 .. MaxLines) /\ Len(CarriedOut(s)) = Len(s)
           /\ \A i \in 1 .. Len(s) : CarriedOut(s)[i] = s[i].n
           /\ Len(s) \in Nat
<1>1. \A call \in CallSet : call.n \in 1 .. MaxLines
  BY DEF CallSet
<1>2. Len(s) \in Nat /\ DOMAIN s = 1 .. Len(s) /\ \A i \in 1 .. Len(s) : s[i] \in CallSet
  OBVIOUS
<1> QED  BY <1>1, <1>2, IsASeq DEF CarriedOut

LEMMA CarriedOutOneMore ==
    ASSUME NEW s \in Seq(CallSet), NEW call \in CallSet
    PROVE  CarriedOut(Append(s, call)) = Append(CarriedOut(s), call.n)
<1> DEFINE t == Append(s, call)
<1>1. /\ t \in Seq(CallSet) /\ Len(t) = Len(s) + 1 /\ t[Len(s) + 1] = call
      /\ \A i \in 1 .. Len(s) : t[i] = s[i]
  BY AppendProperties
<1> HIDE DEF t
<1>2. /\ CarriedOut(s) \in Seq(1 .. MaxLines) /\ Len(CarriedOut(s)) = Len(s)
      /\ \A i \in 1 .. Len(s) : CarriedOut(s)[i] = s[i].n
      /\ Len(s) \in Nat
  BY CarriedOutIs
<1>3. /\ CarriedOut(t) \in Seq(1 .. MaxLines) /\ Len(CarriedOut(t)) = Len(t)
      /\ \A i \in 1 .. Len(t) : CarriedOut(t)[i] = t[i].n
  BY <1>1, CarriedOutIs
<1>4. /\ Len(CarriedOut(t)) = Len(CarriedOut(s)) + 1
      /\ CarriedOut(t)[Len(CarriedOut(s)) + 1] = call.n
      /\ \A i \in 1 .. Len(CarriedOut(s)) : CarriedOut(t)[i] = CarriedOut(s)[i]
  BY <1>1, <1>2, <1>3
<1>5. call.n \in 1 .. MaxLines
  BY DEF CallSet
<1>6. CarriedOut(t) = Append(CarriedOut(s), call.n)
  BY <1>2, <1>3, <1>4, <1>5, AppendIs
<1> QED  BY <1>6 DEF t

LEMMA GivenType ==
    ASSUME NEW a \in Printed
    PROVE  Given(a) \in ServiceAnswers
<1>1. a.line.n \in 1 .. MaxLines
  BY DEF Lines, Printed
<1>2. a.answer.of = NoCall \/ a.answer.of \in Conns \X (1 .. MaxLines)
  BY DEF Replies, Printed
<1>3. Result(a.answer) \in 0 .. MaxLines
  <2>1. CASE a.answer.of = NoCall
    BY <2>1, BoundsAssumption DEF Result
  <2>2. CASE a.answer.of # NoCall
    <3>1. a.answer.of[2] \in 1 .. MaxLines
      BY <1>2, <2>2
    <3> QED  BY <2>2, <3>1, BoundsAssumption DEF Result
  <2> QED  BY <2>1, <2>2
<1> QED  BY <1>1, <1>3 DEF Given, ServiceAnswers

LEMMA AnswersIs ==
    ASSUME NEW s \in Seq(Printed)
    PROVE  /\ Answers(s) \in Seq(ServiceAnswers) /\ Len(Answers(s)) = Len(s)
           /\ \A i \in 1 .. Len(s) : Answers(s)[i] = Given(s[i])
           /\ Len(s) \in Nat
<1>1. Len(s) \in Nat /\ DOMAIN s = 1 .. Len(s) /\ \A i \in 1 .. Len(s) : s[i] \in Printed
  OBVIOUS
<1>2. \A i \in 1 .. Len(s) : Given(s[i]) \in ServiceAnswers
  BY <1>1, GivenType
<1> QED  BY <1>1, <1>2, IsASeq DEF Answers

LEMMA AnswersOneMore ==
    ASSUME NEW s \in Seq(Printed), NEW a \in Printed
    PROVE  Answers(Append(s, a)) = Append(Answers(s), Given(a))
<1> DEFINE t == Append(s, a)
<1>1. /\ t \in Seq(Printed) /\ Len(t) = Len(s) + 1 /\ t[Len(s) + 1] = a
      /\ \A i \in 1 .. Len(s) : t[i] = s[i]
  BY AppendProperties
<1> HIDE DEF t
<1>2. /\ Answers(s) \in Seq(ServiceAnswers) /\ Len(Answers(s)) = Len(s)
      /\ \A i \in 1 .. Len(s) : Answers(s)[i] = Given(s[i])
      /\ Len(s) \in Nat /\ Given(a) \in ServiceAnswers
  BY AnswersIs, GivenType
<1>3. /\ Answers(t) \in Seq(ServiceAnswers) /\ Len(Answers(t)) = Len(t)
      /\ \A i \in 1 .. Len(t) : Answers(t)[i] = Given(t[i])
  BY <1>1, AnswersIs
<1>4. /\ Len(Answers(t)) = Len(Answers(s)) + 1
      /\ Answers(t)[Len(Answers(s)) + 1] = Given(a)
      /\ \A i \in 1 .. Len(Answers(s)) : Answers(t)[i] = Answers(s)[i]
  BY <1>1, <1>2, <1>3
<1>5. Answers(t) = Append(Answers(s), Given(a))
  BY <1>2, <1>3, <1>4, AppendIs
<1> QED  BY <1>5 DEF t

\* What the abstract specification sees.
LEMMA ServiceSees ==
    /\ Service!service = <<CarriedOut(applied), Answers(stdout)>>
    /\ Service!Done = Nums(applied)
    /\ Service!Answered = AnsweredNums
<1>1. Service!service = <<CarriedOut(applied), Answers(stdout)>>
  BY DEF Service!service, CarriedOut, Answers, Given, Result
<1>2. Service!Done = Nums(applied)
  <2>1. Service!Done = {CarriedOut(applied)[i] : i \in DOMAIN CarriedOut(applied)}
    BY DEF Service!Done, CarriedOut
  <2>2. DOMAIN CarriedOut(applied) = DOMAIN applied
        /\ \A i \in DOMAIN applied : CarriedOut(applied)[i] = applied[i].n
    BY DEF CarriedOut
  <2> QED  BY <2>1, <2>2 DEF Nums
<1>3. Service!Answered = AnsweredNums
  <2>1. Service!Answered = {Answers(stdout)[i].call : i \in DOMAIN Answers(stdout)}
    BY DEF Service!Answered, Answers, Given, Result
  <2>2. DOMAIN Answers(stdout) = DOMAIN stdout
        /\ \A i \in DOMAIN stdout : Answers(stdout)[i].call = stdout[i].line.n
    BY DEF Answers, Given
  <2> QED  BY <2>1, <2>2 DEF AnsweredNums
<1> QED  BY <1>1, <1>2, <1>3

\* A call whose number is new is carried out.
LEMMA CarryOutStep ==
    ASSUME GuestTypes, NEW call \in CallSet, Apply(call),
           call.n \notin Nums(applied), UNCHANGED stdout
    PROVE  Service!ServiceNext
<1>1. call.n \in 1 .. MaxLines /\ applied \in Seq(CallSet) /\ applied' = Append(applied, call)
  BY DEF CallSet, Apply, GuestTypes
<1>2. CarriedOut(applied') = Append(CarriedOut(applied), call.n)
  BY <1>1, CarriedOutOneMore
<1>3. Service!CarryOut(call.n)
  BY <1>2, ServiceSees DEF Service!CarryOut, CarriedOut
<1> QED  BY <1>1, <1>3 DEF Service!ServiceNext

\* An answer to a line not answered yet, with its own call's result or none.
LEMMA AnswerStep ==
    ASSUME HostTypes, NEW l \in Lines, NEW r \in Replies,
           stdout' = Append(stdout, [line |-> l, answer |-> r]), UNCHANGED applied,
           l.n \notin AnsweredNums, AnswerTo(r, l)
    PROVE  Service!ServiceNext
<1> DEFINE a == [line |-> l, answer |-> r]
<1>1. /\ a \in Printed /\ stdout' = Append(stdout, a)
      /\ stdout \in Seq(Printed) /\ l.n \in 1 .. MaxLines
      /\ Given(a) = [call |-> l.n, result |-> Result(r)]
  BY DEF HostTypes, Lines, Given, Printed
<1> HIDE DEF a
<1>2. Answers(stdout') = Append(Answers(stdout), [call |-> l.n, result |-> Result(r)])
  BY <1>1, AnswersOneMore
<1>3. CASE r.of = NoCall
  <2>1. Result(r) = 0
    BY <1>3 DEF Result
  <2>2. Service!Decline(l.n)
    BY <1>2, <2>1, ServiceSees
       DEF Service!Decline, Service!NoResult, Answers, Given, Result
  <2> QED  BY <1>1, <2>2 DEF Service!ServiceNext
<1>4. CASE r.of # NoCall
  <2>1. r.of = <<TheConn, l.n>> /\ l.n \in Nums(applied)
    BY <1>4 DEF AnswerTo
  <2>2. Result(r) = l.n
    BY <1>4, <2>1 DEF Result
  <2>3. Service!Succeed(l.n)
    BY <1>2, <2>1, <2>2, ServiceSees DEF Service!Succeed, Answers, Given, Result
  <2> QED  BY <1>1, <2>3 DEF Service!ServiceNext
<1> QED  BY <1>3, <1>4

LEMMA GuestServes ==
    ASSUME IInv, GuestRuns
    PROVE  Service!ServiceNext \/ UNCHANGED <<applied, stdout>>
<1>1. GuestStep /\ UNCHANGED stdout /\ GuestTypes /\ CallsOnce
  BY DEF GuestRuns, ProxyUnchanged, IInv
<1>2. CASE LoopStep
  <2>1. Apply(Head(cmds)) \/ UNCHANGED applied
    BY <1>2 DEF LoopStep
  <2>2. Head(cmds) \in CallSet /\ Head(cmds).n \in Nums(cmds)
    BY <1>1, <1>2, TailNums DEF LoopStep, GuestTypes
  <2>3. Head(cmds).n \notin Nums(applied)
    BY <1>1, <2>2 DEF CallsOnce
  <2> QED  BY <1>1, <2>1, <2>2, <2>3, CarryOutStep
<1>3. CASE BrowserDone
  <2>1. Apply(Head(browserq)) /\ Head(browserq) \in CallSet /\ Head(browserq).n \in Nums(browserq)
    BY <1>1, <1>3, TailNums DEF BrowserDone, GuestTypes
  <2>2. Head(browserq).n \notin Nums(applied)
    BY <1>1, <2>1 DEF CallsOnce
  <2> QED  BY <1>1, <2>1, <2>2, CarryOutStep
<1>4. ASSUME NEW call \in workers, WorkerDone(call) PROVE Service!ServiceNext
  <2>1. Apply(call) /\ call \in CallSet /\ call.n \in WorkerNums
    BY <1>1, <1>4 DEF WorkerDone, GuestTypes, WorkerNums
  <2>2. call.n \notin Nums(applied)
    BY <1>1, <2>1 DEF CallsOnce
  <2> QED  BY <1>1, <2>1, <2>2, CarryOutStep
<1>5. CASE CompositorRestarts \/ \E c \in Conns : Accept(c)
  BY <1>1, <1>5 DEF CompositorRestarts, Accept
<1>6. CASE \E c \in Conns : ThreadStep(c)
  BY <1>1, <1>6
     DEF ThreadStep, ReadSilently, AnswerLocally, Dispatch, Receive, Timeout, EndOfFile
<1> QED  BY <1>1, <1>2, <1>3, <1>4, <1>5, <1>6 DEF GuestStep

LEMMA HostServes ==
    ASSUME IInv, (ProxyStep \/ EndOfInput \/ RebootExit
                    \/ \E shape \in Shapes : ClientWrites(shape))
    PROVE  Service!ServiceNext \/ UNCHANGED <<applied, stdout>>
<1> USE DEF IInv
<1>1. CASE HandleReboot \/ HandleCapture
  <2> DEFINE l == Head(stdin)
  <2>1. /\ TakesLine /\ UNCHANGED <<written, applied>>
        /\ \E b \in Bodies : HostAnswers(l, b)
    BY <1>1 DEF HandleReboot, HandleCapture, TakesLine, Bodies, guest
  <2>2. l \in Lines /\ l.n = Taken + 1 /\ Taken \in Nat
    BY <2>1, LineTaken
  <2>3. l.n \notin AnsweredNums
    BY <2>2 DEF AnsweredOnce
  <2>4. CASE ~ UNCHANGED stdout
    <3>1. PICK r \in Replies : /\ stdout' = Append(stdout, [line |-> l, answer |-> r])
                               /\ r.n = l.n /\ r.of = NoCall
      BY <2>1, <2>2, <2>4, HostAnswer
    <3>2. AnswerTo(r, l)
      BY <3>1 DEF AnswerTo
    <3> QED  BY <2>1, <2>2, <2>3, <3>1, <3>2, AnswerStep
  <2> QED  BY <2>1, <2>4
<1>2. CASE PrintAnswer
  <2>1. HasAnswer /\ TheConn \in Conns /\ proxy.line \in Lines /\ proxy.pc = "await"
    BY <1>2, TheOnlyConn DEF PrintAnswer, Flow, Unread, BeingHandled, Lost, HostTypes
  <2>2. /\ outbox[TheConn] \in Seq(Replies) /\ outbox[TheConn] # <<>>
        /\ Head(outbox[TheConn]) = outbox[TheConn][1] /\ Head(outbox[TheConn]) \in Replies
    BY <1>2, <2>1, TailNums DEF PrintAnswer, GuestTypes
  <2>3. AnswerTo(Head(outbox[TheConn]), proxy.line)
    BY <2>1, <2>2 DEF HasAnswer
  <2>4. proxy.line.n \notin AnsweredNums
    BY <2>1 DEF AnsweredOnce
  <2>5. stdout' = Append(stdout, [line |-> proxy.line, answer |-> Head(outbox[TheConn])])
        /\ UNCHANGED applied
    BY <1>2 DEF PrintAnswer, PrintLine
  <2> QED  BY <2>1, <2>2, <2>3, <2>4, <2>5, AnswerStep
<1>3. CASE \/ Connect \/ GiveUpConnecting \/ Forward \/ GuestGone \/ EndOfInput \/ RebootExit
           \/ \E shape \in Shapes : ClientWrites(shape)
  BY <1>3 DEF Connect, GiveUpConnecting, Forward, GuestGone, EndOfInput, RebootExit,
              ClientWrites, guest
<1> QED  BY <1>1, <1>2, <1>3 DEF ProxyStep

\* The proxy and the guest implement CallService: whatever the order in which
\* the queues, the threads and the time limits act, a line's tool is carried
\* out at most once, a line is answered at most once, and a result is that of
\* the line's own call, if the client keeps to the handshake.
THEOREM ProxyImplementsCallService == ASSUME Polite PROVE Spec => ImplementsCallService
<1>1. Init => Service!ServiceInit
  <2>1. ASSUME Init PROVE CarriedOut(applied) = <<>> /\ Answers(stdout) = <<>>
    BY <2>1 DEF Init, GuestInit, CarriedOut, Answers
  <2> QED  BY <2>1 DEF Service!ServiceInit, CarriedOut, Answers, Given, Result
<1>2. IInv /\ [Next]_vars => [Service!ServiceNext]_(Service!service)
  <2>1. ASSUME UNCHANGED <<applied, stdout>> PROVE UNCHANGED Service!service
    BY <2>1 DEF Service!service
  <2>2. ASSUME UNCHANGED vars PROVE UNCHANGED <<applied, stdout>>
    BY <2>2 DEF vars, guest
  <2> QED  BY <2>1, <2>2, GuestServes, HostServes DEF Next
<1> QED  BY <1>1, <1>2, Invariance, PTL
    DEF Spec, ImplementsCallService, Service!ServiceSpec
-----------------------------------------------------------------------------
(* What EveryRequestAnswered rests on *)

Outstanding == outbox[TheConn] = <<>> /\ conn[TheConn].pc # "closed"

\* How far the connection is from an answer, or its end, that the proxy can read.
Distance ==
    IF ~ Outstanding THEN 0
    ELSE 2 * Len(inbox[TheConn]) + (IF conn[TheConn].pc = "read" THEN 1 ELSE 2)

\* The proxy never awaits an answer that nobody is about to give: it can read one
\* or the end of the connection, or the connection is about to be accepted, or its
\* thread has a line to read or a call whose time limit runs. None of these is a
\* matter of the event loop, the shells or the browser (the loop of
\* mcp_stdio.rs, handle_client and dispatch_tool).
AnswerIsDue ==
    proxy.pc = "await" =>
      \/ ~ Outstanding
      \/ conn[TheConn].pc \in {"pending", "wait"}
      \/ conn[TheConn].pc = "read" /\ inbox[TheConn] # <<>>

\* While the proxy awaits an answer, no step takes the answer further away, and
\* each step of the connection brings it nearer.
AnswerComesNearer ==
    [][proxy.pc = "await" /\ proxy' = proxy =>
         /\ Distance' <= Distance
         /\ ThreadStep(TheConn) \/ Accept(TheConn) => Distance' < Distance]_vars

\* An answer that is awaited is due, for any number of lines, if the client keeps
\* to the handshake.
THEOREM AwaitedIsDue == ASSUME Polite PROVE Spec => []AnswerIsDue
<1>1. IInv => AnswerIsDue
  BY DEF IInv, Flow, AnswerIsDue, Outstanding, Unread, BeingHandled, HasAnswer, Lost
<1> QED  BY <1>1, Invariance, PTL

LEMMA DistanceIs ==
    ASSUME IInv
    PROVE  /\ Len(inbox[TheConn]) \in Nat
           /\ Distance \in Nat /\ (Outstanding => Distance > 0)
<1>1. inbox[TheConn] \in Seq(Lines)
  BY TheOnlyConn DEF IInv, GuestTypes
<1>2. Len(inbox[TheConn]) \in Nat
  BY <1>1
<1>3. CASE Outstanding
  <2>1. PICK k \in {1, 2} : Distance = 2 * Len(inbox[TheConn]) + k
    BY <1>3 DEF Distance
  <2> QED  BY <1>2, <1>3, <2>1
<1>4. CASE ~ Outstanding
  BY <1>2, <1>4 DEF Distance
<1> QED  BY <1>3, <1>4

LEMMA ConnectionComesNearer ==
    ASSUME IInv, proxy.pc = "await", ThreadStep(TheConn) \/ Accept(TheConn)
    PROVE  Distance' \in Nat /\ Distance' < Distance
<1> DEFINE in == inbox[TheConn]
<1>1. /\ TheConn \in Conns /\ hungUp = {} /\ in \in Seq(Lines) /\ Len(in) \in Nat
      /\ Distance \in Nat /\ GuestTypes
  BY TheOnlyConn, DistanceIs DEF IInv, GuestTypes
<1>2. Unread \/ BeingHandled \/ HasAnswer \/ Lost
  BY DEF IInv, Flow
<1>3. ASSUME NEW kinds, Reading(TheConn, kinds)
      PROVE  /\ outbox[TheConn] = <<>> /\ conn[TheConn].pc = "read"
             /\ inbox'[TheConn] = Tail(in) /\ Len(Tail(in)) = Len(in) - 1
             /\ Distance = 2 * Len(in) + 1
  <2>1. /\ in # <<>> /\ conn[TheConn].pc = "read" /\ inbox'[TheConn] = Tail(in)
    BY <1>1, <1>3, Taking
  <2>2. outbox[TheConn] = <<>>
    BY <1>2, <2>1 DEF Unread, BeingHandled, HasAnswer, Lost
  <2>3. Len(Tail(in)) = Len(in) - 1
    BY <1>1, <2>1
  <2> QED  BY <2>1, <2>2, <2>3 DEF Distance, Outstanding
<1>4. ASSUME NEW r, Write(TheConn, r) PROVE Distance' = 0
  <2>1. \/ outbox'[TheConn] = Append(outbox[TheConn], r)
        \/ conn'[TheConn].pc = "closed"
    BY <1>1, <1>4 DEF Write, GuestTypes
  <2>2. Append(outbox[TheConn], r) # <<>>
    <3>1. outbox[TheConn] \in Seq(Replies \cup {r})
      BY <1>1, SeqDef DEF GuestTypes
    <3> QED  BY <3>1, AppendProperties
  <2> QED  BY <2>1, <2>2 DEF Distance, Outstanding
<1>5. CASE ReadSilently(TheConn)
  <2>1. Reading(TheConn, {"blank", "initialized"}) /\ UNCHANGED <<outbox, conn>>
    BY <1>5 DEF ReadSilently
  <2>2. Distance' = 2 * (Len(in) - 1) + 1
    BY <1>3, <2>1 DEF Distance, Outstanding
  <2> QED  BY <1>1, <1>3, <2>1, <2>2
<1>6. CASE AnswerLocally(TheConn)
  <2>1. Reading(TheConn, {"garbage", "local"}) /\ \E r : Write(TheConn, r)
    BY <1>6 DEF AnswerLocally
  <2> QED  BY <1>1, <1>3, <1>4, <2>1
<1>7. CASE Dispatch(TheConn)
  <2>1. Reading(TheConn, ToolKinds) /\ UNCHANGED outbox
    BY <1>7 DEF Dispatch
  <2>2. conn'[TheConn].pc = "wait"
    BY <1>1, <1>7 DEF Dispatch, GuestTypes
  <2>3. Distance' = 2 * (Len(in) - 1) + 2
    BY <1>3, <2>1, <2>2 DEF Distance, Outstanding
  <2> QED  BY <1>1, <1>3, <2>1, <2>3
<1>8. CASE Receive(TheConn) \/ Timeout(TheConn)
  <2>1. Waiting(TheConn) /\ \E r : Write(TheConn, r)
    BY <1>8 DEF Receive, Timeout
  <2>2. Outstanding
    BY <1>2, <2>1 DEF Waiting, Unread, BeingHandled, HasAnswer, Lost, Outstanding
  <2> QED  BY <1>4, <2>1, <2>2, DistanceIs
<1>9. CASE EndOfFile(TheConn)
  BY <1>1, <1>9 DEF EndOfFile
<1>10. CASE Accept(TheConn)
  <2>1. /\ conn[TheConn].pc = "pending" /\ conn'[TheConn].pc = "read"
        /\ UNCHANGED <<inbox, outbox>>
    BY <1>1, <1>10 DEF Accept, GuestTypes
  <2>2. outbox[TheConn] = <<>>
    BY <1>2, <2>1 DEF Unread, BeingHandled, HasAnswer, Lost
  <2>3. Distance = 2 * Len(in) + 2 /\ Distance' = 2 * Len(in) + 1
    BY <2>1, <2>2 DEF Distance, Outstanding
  <2> QED  BY <1>1, <2>3
<1> QED  BY <1>5, <1>6, <1>7, <1>8, <1>9, <1>10 DEF ThreadStep

\* No step of anyone takes an awaited answer further away, and each of the
\* connection's brings it nearer, if the client keeps to the handshake.
THEOREM AwaitedComesNearer == ASSUME Polite PROVE Spec => AnswerComesNearer
<1>1. ASSUME IInv, [Next]_vars, proxy.pc = "await", proxy' = proxy
      PROVE  /\ Distance' <= Distance
             /\ ThreadStep(TheConn) \/ Accept(TheConn) => Distance' < Distance
  <2> DEFINE Moves == ThreadStep(TheConn) \/ Accept(TheConn)
  <2>1. CASE Moves
    <3>1. Distance' \in Nat /\ Distance' < Distance
      BY <1>1, <2>1, ConnectionComesNearer
    <3>2. Distance \in Nat
      BY <1>1, DistanceIs
    <3> QED  BY <3>1, <3>2
  <2>2. CASE ~ Moves
    <3>1. UNCHANGED <<inbox, outbox, conn>> \/ CompositorRestarts
      <4>1. \A c \in Conns : c = TheConn
        BY TheOnlyConn
      <4> QED
        BY <1>1, <2>2, <4>1
           DEF Next, GuestRuns, GuestStep, LoopStep, BrowserDone, WorkerDone, ProxyStep, Connect,
               GiveUpConnecting, HandleReboot, HandleCapture, Forward, TakesLine, PrintAnswer,
               GuestGone, EndOfInput, RebootExit, ClientWrites, guest, vars
    <3>2. CASE UNCHANGED <<inbox, outbox, conn>>
      <4>1. Distance' = Distance
        BY <3>2 DEF Distance, Outstanding
      <4>2. Distance \in Nat
        BY <1>1, DistanceIs
      <4> QED  BY <2>2, <4>1, <4>2
    <3>3. CASE CompositorRestarts
      <4>1. conn'[TheConn].pc = "closed"
        <5>1. TheConn \in Connections
          BY <3>3, TheOnlyConn DEF CompositorRestarts, Connections
        <5> QED  BY <3>3, <5>1, TheOnlyConn DEF CompositorRestarts
      <4>2. Distance' = 0
        BY <4>1 DEF Distance, Outstanding
      <4> QED  BY <1>1, <2>2, <4>2, DistanceIs
    <3> QED  BY <3>1, <3>2, <3>3
  <2> QED  BY <2>1, <2>2
<1>2. IInv /\ [Next]_vars =>
        [proxy.pc = "await" /\ proxy' = proxy =>
           /\ Distance' <= Distance
           /\ ThreadStep(TheConn) \/ Accept(TheConn) => Distance' < Distance]_vars
  BY <1>1
<1> QED  BY <1>2, Invariance, PTL DEF Spec, AnswerComesNearer
=============================================================================
