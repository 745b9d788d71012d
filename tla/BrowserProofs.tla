---------------------------- MODULE BrowserProofs ----------------------------
(***************************************************************************)
(* The browser worker and browserd implement CallService, for any number   *)
(* of calls, exits and notifications.                                      *)
(***************************************************************************)
EXTENDS Browser, SequenceTheorems, TLAPS

ToolNames == {"navigate", "tab_new", "tab_list", "click"}
Numbers == 1 .. MaxCalls
Calls == [n : Numbers, tool : ToolNames]
Places == {"idle", "list", "handle", "cold", "ensure", "start", "connect",
           "initialize", "await initialize", "call", "await call"}
Workers == [pc : Places, call : Calls \cup {NoCall}, url : BOOLEAN, cold : BOOLEAN,
            exited : BOOLEAN]
Requests == [conn : Nat, id : Nat, what : Calls \cup {NoCall}]
Lines == [id : Nat, ok : BOOLEAN, of : 0 .. MaxCalls]
Answers == [call : Calls, kind : {"no tabs", "refused", "error", "ok"},
            of : 0 .. MaxCalls, exited : BOOLEAN]

Types ==
  /\ queue \in Seq(Calls) /\ queued \in 0 .. MaxCalls
  /\ worker \in Workers
  /\ child \in {"none", "up", "dead"}
  /\ conn \in [no : Nat, next_id : Nat] /\ conns \in Nat
  /\ pipe \in Seq(Requests) /\ lines \in Seq(Lines)
  /\ reached \in Seq(Numbers) /\ answers \in Seq(Answers)

\* Calls are taken in the order of their numbers.
Taken == queued - Len(queue)

QueueInOrder ==
  /\ Len(queue) <= queued
  /\ \A i \in DOMAIN queue : queue[i].n = Taken + i
  /\ IF worker.pc = "idle" THEN worker = Idle
     ELSE worker.call \in Calls /\ worker.call.n = Taken

\* The call the worker is at has no answer, nor has one still in the queue.
AnsweredOnce ==
  \A i \in DOMAIN answers :
    /\ answers[i].call.n <= Taken
    /\ worker.pc # "idle" => answers[i].call.n # worker.call.n

IsAnswered(n) == \E i \in DOMAIN answers : answers[i].call.n = n

\* A call that was taken is answered or is the one the worker is at.
AnsweredAll ==
  \A n \in 1 .. Taken : IsAnswered(n) \/ (worker.pc # "idle" /\ n = Taken)

HasReached(n) == \E i \in DOMAIN reached : reached[i] = n
InPipe(n) == \E i \in DOMAIN pipe : pipe[i].what.n = n

\* browserd has a call at most once: in its pipe, or behind it, or as the url
\* it was started with, in which case the worker will not send the call.
ReachedOnce ==
  /\ \A n \in 1 .. MaxCalls : HasReached(n) \/ InPipe(n) => n <= Taken
  /\ \A n \in 1 .. MaxCalls : ~ (HasReached(n) /\ InPipe(n))
  /\ \A i, j \in DOMAIN pipe :
       pipe[i].what.n = pipe[j].what.n /\ pipe[i].what.n # 0 => i = j
  /\ worker.pc \notin {"idle", "await call"} =>
       /\ ~ InPipe(worker.call.n)
       /\ HasReached(worker.call.n) =>
            /\ worker.cold
            /\ worker.pc \notin {"list", "handle", "cold", "ensure", "start"}

\* What the worker has found out about browserd, and what it has made of it.
Started ==
  /\ worker.pc \in {"cold", "ensure", "start"} =>
       /\ worker.url => child = "none"
       /\ ~ worker.url /\ ~ worker.exited => (worker.pc = "cold" => child = "up")
  /\ worker.pc \notin {"idle", "list", "handle", "cold"} =>
       /\ worker.url => worker.cold
       /\ worker.cold /\ ~ worker.exited => worker.url
  /\ worker.pc \notin {"idle", "list", "handle", "cold", "ensure", "start"} =>
       (worker.url => HasReached(worker.call.n))

\* The numbers of connections and of requests on one are never used again.
Connected ==
  /\ conn.no <= conns
  /\ conn.no = 0 => conn = NoConn /\ lines = <<>>
  /\ \A i \in DOMAIN pipe :
       /\ pipe[i].conn \in 1 .. conns
       /\ pipe[i].conn = conn.no => pipe[i].id <= conn.next_id
  /\ \A i \in DOMAIN lines : lines[i].id <= conn.next_id
  /\ worker.pc \in {"start", "connect"} => conn = NoConn
  /\ worker.pc \in {"initialize", "await initialize", "call", "await call"} => conn.no # 0
  /\ worker.pc \in {"await initialize", "await call"} => conn.next_id # 0

\* The answer with the number that is waited for is that to this request.
OwnAnswer ==
  worker.pc = "await call" =>
    /\ \A i \in DOMAIN pipe :
         pipe[i].conn = conn.no /\ pipe[i].id = conn.next_id => pipe[i].what = Request
    /\ \A i \in DOMAIN lines :
         lines[i].id = conn.next_id =>
           /\ lines[i].of = Request.n
           /\ lines[i].ok /\ ~ worker.cold => HasReached(worker.call.n)

IInv == /\ Types /\ QueueInOrder /\ AnsweredOnce /\ AnsweredAll /\ ReachedOnce
        /\ Started /\ Connected /\ OwnAnswer

-----------------------------------------------------------------------------
(* Sequences *)

USE BoundsAssumption

LEMMA AppendIs ==
  ASSUME NEW S, NEW s \in Seq(S), NEW e \in S
  PROVE  /\ Append(s, e) \in Seq(S)
         /\ Len(s) \in Nat /\ Len(Append(s, e)) = Len(s) + 1
         /\ DOMAIN Append(s, e) = DOMAIN s \cup {Len(s) + 1}
         /\ Len(s) + 1 \notin DOMAIN s
         /\ \A i \in DOMAIN s : Append(s, e)[i] = s[i] /\ s[i] \in S
         /\ Append(s, e)[Len(s) + 1] = e
<1>1. /\ Append(s, e) \in Seq(S) /\ Len(Append(s, e)) = Len(s) + 1
      /\ \A i \in 1 .. Len(s) : Append(s, e)[i] = s[i]
      /\ Append(s, e)[Len(s) + 1] = e
  BY AppendProperties
<1>2. Len(s) \in Nat /\ DOMAIN s = 1 .. Len(s)
  OBVIOUS
<1>3. DOMAIN Append(s, e) = 1 .. Len(s) + 1
  BY <1>1
<1>4. \A i \in DOMAIN s : s[i] \in S
  OBVIOUS
<1> QED  BY <1>1, <1>2, <1>3, <1>4

LEMMA TailIs ==
  ASSUME NEW S, NEW s \in Seq(S), s # <<>>
  PROVE  /\ Tail(s) \in Seq(S)
         /\ Len(s) \in Nat /\ Len(Tail(s)) = Len(s) - 1
         /\ \A i \in DOMAIN Tail(s) :
              i \in Nat /\ i + 1 # 1 /\ i + 1 \in DOMAIN s /\ Tail(s)[i] = s[i + 1]
         /\ 1 \in DOMAIN s /\ Head(s) = s[1] /\ Head(s) \in S
<1>1. Len(s) \in Nat /\ DOMAIN s = 1 .. Len(s) /\ Len(s) # 0
  BY EmptySeq
<1>2. /\ Tail(s) \in Seq(S) /\ Len(Tail(s)) = Len(s) - 1
      /\ \A i \in 1 .. Len(Tail(s)) : Tail(s)[i] = s[i + 1]
  BY HeadTailProperties
<1>3. DOMAIN Tail(s) = 1 .. Len(s) - 1
  BY <1>2
<1>4. Head(s) = s[1] /\ Head(s) \in S
  BY HeadTailProperties
<1> QED  BY <1>1, <1>2, <1>3, <1>4

LEMMA EmptyIs ==
  ASSUME NEW S PROVE <<>> \in Seq(S) /\ Len(<<>>) = 0 /\ DOMAIN <<>> = {}
OBVIOUS

-----------------------------------------------------------------------------
(* The actions *)

LEMMA NoCallIs == NoCall.n = 0 /\ NoCall \notin Calls
BY DEF NoCall, Calls, Numbers

LEMMA CallsAre == \A c \in Calls : c.n \in 1 .. MaxCalls /\ c.n # 0
BY DEF Calls, Numbers

LEMMA InitIInv == Init => IInv
<1> SUFFICES ASSUME Init PROVE IInv
  OBVIOUS
<1>1. MaxCalls \in Nat
  OBVIOUS
<1>2. Types
  BY <1>1, EmptyIs DEF Init, Types, Idle, NoCall, NoConn, Places, Workers
<1>3. QueueInOrder
  BY EmptyIs DEF Init, QueueInOrder, Taken, Idle
<1>5. AnsweredAll
  BY EmptyIs DEF Init, AnsweredAll, Taken
<1>4. AnsweredOnce /\ ReachedOnce /\ Started /\ Connected /\ OwnAnswer
  BY EmptyIs DEF Init, AnsweredOnce, ReachedOnce, HasReached, InPipe, Started, Connected,
       OwnAnswer, Idle, NoConn
<1> QED  BY <1>2, <1>3, <1>4, <1>5 DEF IInv

LEMMA IdleIs == Idle \in Workers /\ Idle.pc = "idle"
BY DEF Idle, Workers, Places

\* Go moves the worker's place and nothing else.
LEMMA GoIs ==
  ASSUME worker \in Workers, NEW pc \in Places, Go(pc)
  PROVE  /\ worker' \in Workers /\ worker'.pc = pc /\ worker'.call = worker.call
         /\ worker'.url = worker.url /\ worker'.cold = worker.cold
         /\ worker'.exited = worker.exited
BY DEF Workers, Go

\* A poll forgets a child that has exited and its connection.
LEMMA PollIs ==
  ASSUME Types, Poll
  PROVE  /\ child' \in {"none", "up"} /\ (child' = "up" <=> child = "up")
         /\ conn' \in [no : Nat, next_id : Nat] /\ lines' \in Seq(Lines)
         /\ \/ conn' = NoConn /\ lines' = <<>>
            \/ conn' = conn /\ lines' = lines
<1>1. CASE child = "dead"
  <2>1. child' = "none" /\ conn' = NoConn /\ lines' = <<>>
    BY <1>1 DEF Poll
  <2> QED  BY <1>1, <2>1, EmptyIs DEF NoConn
<1>2. CASE child # "dead"
  BY <1>2 DEF Poll, Types
<1> QED  BY <1>1, <1>2

LEMMA OneMoreAnswer ==
  ASSUME NEW s \in Seq(Answers), NEW a \in Answers
  PROVE  /\ Append(s, a) \in Seq(Answers)
         /\ DOMAIN Append(s, a) = DOMAIN s \cup {Len(s) + 1}
         /\ \A i \in DOMAIN s : Append(s, a)[i] = s[i]
         /\ Append(s, a)[Len(s) + 1] = a
BY AppendIs

\* An answer is one more, for the call the worker is at.
AnswersOnce ==
  /\ answers' \in Seq(Answers) /\ worker' = Idle
  /\ DOMAIN answers' = DOMAIN answers \cup {Len(answers) + 1}
  /\ \A i \in DOMAIN answers : answers'[i] = answers[i]
  /\ answers'[Len(answers) + 1].call = worker.call

LEMMA AnswerIs ==
  ASSUME Types, QueueInOrder, worker.pc # "idle",
         NEW kind \in {"no tabs", "refused", "error", "ok"}, NEW of \in 0 .. MaxCalls,
         Answer(kind, of)
  PROVE  AnswersOnce
<1> DEFINE a == [call |-> worker.call, kind |-> kind, of |-> of, exited |-> worker.exited]
<1>1. a \in Answers /\ a.call = worker.call
  BY DEF Types, QueueInOrder, Answers, Workers
<1>2. answers' = Append(answers, a) /\ worker' = Idle /\ answers \in Seq(Answers)
  BY DEF Answer, Types
<1> HIDE DEF a
<1>3. a \in Answers /\ answers \in Seq(Answers)
  BY <1>1, <1>2
<1>4. /\ Append(answers, a) \in Seq(Answers)
      /\ DOMAIN Append(answers, a) = DOMAIN answers \cup {Len(answers) + 1}
      /\ \A i \in DOMAIN answers : Append(answers, a)[i] = answers[i]
      /\ Append(answers, a)[Len(answers) + 1] = a
  BY <1>3, OneMoreAnswer
<1> QED  BY <1>1, <1>2, <1>4 DEF AnswersOnce

-----------------------------------------------------------------------------
(* Who is answered *)

Ordered == QueueInOrder /\ AnsweredOnce /\ AnsweredAll

LEMMA TakenIs ==
  ASSUME Types, QueueInOrder PROVE Taken \in 0 .. MaxCalls /\ Taken \in Int /\ Len(queue) \in Nat /\ queued \in Nat
BY DEF Types, QueueInOrder, Taken

LEMMA AnsweredIs ==
  ASSUME Types, NEW i \in DOMAIN answers PROVE answers[i].call \in Calls /\ answers[i].call.n \in Nat
<1>1. answers[i] \in Answers
  BY DEF Types
<1>2. answers[i].call \in Calls
  BY <1>1 DEF Answers
<1>3. \A c \in Calls : c.n \in Nat
  BY DEF Calls, Numbers
<1> QED  BY <1>2, <1>3

LEMMA OrderedMoves ==
  ASSUME Ordered, worker.pc # "idle", worker'.pc # "idle", worker'.call = worker.call,
         UNCHANGED <<queue, queued, answers>>
  PROVE  Ordered'
BY DEF Ordered, QueueInOrder, AnsweredOnce, AnsweredAll, IsAnswered, Taken

LEMMA OrderedAnswer ==
  ASSUME Types, Ordered, worker.pc # "idle", AnswersOnce, UNCHANGED <<queue, queued>>
  PROVE  Ordered'
<1>1. /\ worker' = Idle /\ Idle.pc = "idle"
      /\ DOMAIN answers' = DOMAIN answers \cup {Len(answers) + 1}
      /\ \A i \in DOMAIN answers : answers'[i] = answers[i]
      /\ answers'[Len(answers) + 1].call = worker.call
  BY IdleIs DEF AnswersOnce
<1>2. Taken' = Taken /\ worker.call.n = Taken /\ Taken \in Int
  BY TakenIs DEF Taken, Ordered, QueueInOrder
<1>3. QueueInOrder'
  BY <1>1, <1>2 DEF Ordered, QueueInOrder, Taken
<1>4. AnsweredOnce'
  <2>1. \A i \in DOMAIN answers' : answers'[i].call.n <= Taken
    <3>1. answers'[Len(answers) + 1].call.n <= Taken
      BY <1>1, <1>2
    <3>2. \A i \in DOMAIN answers : answers'[i].call.n <= Taken
      BY <1>1 DEF Ordered, AnsweredOnce
    <3> QED  BY <1>1, <3>1, <3>2
  <2> QED  BY <1>1, <1>2, <2>1 DEF AnsweredOnce
<1>5. AnsweredAll'
  <2>1. \A n : IsAnswered(n) => IsAnswered(n)'
    BY <1>1 DEF IsAnswered
  <2>2. IsAnswered(Taken)'
    BY <1>1, <1>2 DEF IsAnswered
  <2> QED  BY <1>2, <2>1, <2>2 DEF AnsweredAll, Ordered
<1> QED  BY <1>3, <1>4, <1>5 DEF Ordered

LEMMA OrderedQueue ==
  ASSUME Types, Ordered, NEW tool \in Tools, HandleToolAsync(tool)
  PROVE  Ordered' /\ queue' \in Seq(Calls) /\ queued' \in 0 .. MaxCalls /\ Taken' = Taken
<1> DEFINE c == [n |-> queued + 1, tool |-> tool]
<1>1. /\ queued' = queued + 1 /\ queue' = Append(queue, c)
      /\ UNCHANGED <<worker, answers>> /\ queued < MaxCalls
  BY DEF HandleToolAsync
<1>2. c \in Calls /\ c.n = queued + 1
  BY <1>1, ToolsAssumption DEF Types, Calls, ToolNames, Numbers
<1> HIDE DEF c
<1>3. queue \in Seq(Calls) /\ queued \in 0 .. MaxCalls /\ MaxCalls \in Nat
  BY DEF Types
<1>4. /\ queue' \in Seq(Calls) /\ Len(queue) \in Nat /\ Len(queue') = Len(queue) + 1
      /\ DOMAIN queue' = DOMAIN queue \cup {Len(queue) + 1}
      /\ \A i \in DOMAIN queue : queue'[i] = queue[i]
      /\ queue'[Len(queue) + 1] = c
  BY <1>1, <1>2, <1>3, AppendIs
<1>5. Taken' = Taken /\ queued' \in 0 .. MaxCalls
  BY <1>1, <1>3, <1>4 DEF Taken
<1>6. QueueInOrder'
  <2>1. Len(queue') <= queued'
    BY <1>1, <1>3, <1>4 DEF Ordered, QueueInOrder
  <2>2. \A i \in DOMAIN queue' : queue'[i].n = Taken' + i
    <3>1. c.n = Taken + (Len(queue) + 1)
      BY <1>2, <1>3, <1>4 DEF Taken
    <3> QED  BY <1>4, <1>5, <3>1 DEF Ordered, QueueInOrder
  <2> QED  BY <1>1, <1>5, <2>1, <2>2 DEF Ordered, QueueInOrder
<1>7. AnsweredOnce'
  BY <1>1, <1>5 DEF Ordered, AnsweredOnce
<1>8. AnsweredAll'
  BY <1>1, <1>5 DEF Ordered, AnsweredAll, IsAnswered
<1> QED  BY <1>4, <1>5, <1>6, <1>7, <1>8 DEF Ordered

\* What Take does; it is the only step that makes the worker busy.
LEMMA TakeIs ==
  ASSUME Types, Ordered, Take
  PROVE  /\ queue' \in Seq(Calls) /\ worker' \in Workers /\ Ordered'
         /\ worker'.pc \in {"list", "handle"} /\ ~ worker'.url /\ ~ worker'.cold
         /\ ~ worker'.exited /\ worker'.call \in Calls
         /\ Taken' = Taken + 1 /\ worker'.call.n = Taken + 1
<1>1. /\ queue \in Seq(Calls) /\ queue # <<>> /\ queue' = Tail(queue) /\ worker.pc = "idle"
      /\ UNCHANGED <<queued, answers>>
  BY DEF Types, Take
<1>2. /\ queue' \in Seq(Calls) /\ Len(queue') = Len(queue) - 1 /\ Len(queue) \in Nat
      /\ \A i \in DOMAIN queue' : i \in Nat /\ i + 1 \in DOMAIN queue /\ queue'[i] = queue[i + 1]
      /\ 1 \in DOMAIN queue /\ Head(queue) = queue[1] /\ Head(queue) \in Calls
  BY <1>1, TailIs
<1>3. Taken \in 0 .. MaxCalls /\ queued \in Nat /\ MaxCalls \in Nat
  BY TakenIs DEF Ordered
<1>4. Taken' = Taken + 1
  BY <1>1, <1>2, <1>3 DEF Taken
<1>5. /\ worker'.pc \in {"list", "handle"} /\ worker'.call = Head(queue)
      /\ ~ worker'.url /\ ~ worker'.cold /\ ~ worker'.exited /\ worker' \in Workers
  <2>1. worker' = [pc |-> IF Head(queue).tool = "tab_list" THEN "list" ELSE "handle",
                   call |-> Head(queue), url |-> FALSE, cold |-> FALSE, exited |-> FALSE]
    BY DEF Take, Idle
  <2> QED  BY <1>2, <2>1 DEF Workers, Places
<1>6. Head(queue).n = Taken + 1
  BY <1>2 DEF Ordered, QueueInOrder
<1>7. QueueInOrder'
  <2>1. Len(queue') <= queued'
    BY <1>1, <1>2, <1>3 DEF Ordered, QueueInOrder
  <2>2. \A i \in DOMAIN queue' : queue'[i].n = Taken' + i
    BY <1>2, <1>3, <1>4 DEF Ordered, QueueInOrder
  <2> QED  BY <1>2, <1>4, <1>5, <1>6, <2>1, <2>2 DEF QueueInOrder
<1>8. AnsweredOnce'
  <2>2. \A i \in DOMAIN answers : answers[i].call.n \in Nat /\ answers[i].call.n <= Taken
    BY AnsweredIs DEF Ordered, AnsweredOnce
  <2> QED  BY <1>1, <1>3, <1>4, <1>5, <1>6, <2>2 DEF AnsweredOnce
<1>9. AnsweredAll'
  <2>1. \A n \in 1 .. Taken : IsAnswered(n)'
    BY <1>1 DEF Ordered, AnsweredAll, IsAnswered
  <2>2. 1 .. Taken' = (1 .. Taken) \cup {Taken'}
    BY <1>3, <1>4
  <2> QED  BY <1>5, <2>1, <2>2 DEF AnsweredAll
<1> QED  BY <1>2, <1>4, <1>5, <1>6, <1>7, <1>8, <1>9 DEF Ordered

-----------------------------------------------------------------------------
(* What reaches browserd, and what comes back *)

Delivered == ReachedOnce /\ Started /\ Connected /\ OwnAnswer

LEMMA PipeIs ==
  ASSUME Types, NEW i \in DOMAIN pipe
  PROVE  /\ pipe[i].what \in Calls \cup {NoCall} /\ pipe[i].what.n \in 0 .. MaxCalls
         /\ pipe[i].conn \in Nat /\ pipe[i].id \in Nat
         /\ pipe[i].what # NoCall => pipe[i].what.n # 0
<1>1. pipe[i] \in Requests
  BY DEF Types
<1>2. pipe[i].what \in Calls \cup {NoCall} /\ pipe[i].conn \in Nat /\ pipe[i].id \in Nat
  BY <1>1 DEF Requests
<1>3. \A c \in Calls : c.n \in 1 .. MaxCalls
  BY DEF Calls, Numbers
<1> QED  BY <1>2, <1>3, NoCallIs

LEMMA LinesAre ==
  ASSUME Types, NEW i \in DOMAIN lines
  PROVE  lines[i].id \in Nat /\ lines[i].of \in 0 .. MaxCalls /\ lines[i].ok \in BOOLEAN
<1>1. lines[i] \in Lines
  BY DEF Types
<1> QED  BY <1>1 DEF Lines

LEMMA NoConnIs ==
  ASSUME Types, Connected
  PROVE  NoConn.no = 0 /\ conns \in Nat /\ \A i \in DOMAIN pipe : pipe[i].conn # 0
<1>1. conns \in Nat
  BY DEF Types
<1>2. \A i \in DOMAIN pipe : pipe[i].conn \in 1 .. conns
  BY DEF Connected
<1>3. NoConn.no = 0
  BY DEF NoConn
<1> QED  BY <1>1, <1>2, <1>3

\* The end of a call leaves what browserd has as it is; the connection is kept
\* with no line that was not there, or dropped.
Ends ==
  /\ worker' = Idle /\ Taken' = Taken
  /\ UNCHANGED <<pipe, reached, conns>>
  /\ \/ conn' = NoConn /\ lines' = <<>>
     \/ /\ conn' = conn
        /\ lines = <<>> => lines' = <<>>
        /\ \A i \in DOMAIN lines' : \E j \in DOMAIN lines : lines'[i] = lines[j]

LEMMA DeliveredEnds ==
  ASSUME Types, Delivered, Ends PROVE Delivered'
<1>1. /\ worker'.pc = "idle" /\ Taken' = Taken /\ UNCHANGED <<pipe, reached, conns>>
  BY IdleIs DEF Ends
<1>2. ReachedOnce'
  BY <1>1 DEF Delivered, ReachedOnce, HasReached, InPipe
<1>3. Started' /\ OwnAnswer'
  BY <1>1 DEF Started, OwnAnswer
<1>4. CASE conn' = NoConn /\ lines' = <<>>
  <2>1. conn'.no = 0 /\ conn'.no <= conns' /\ \A i \in DOMAIN pipe : pipe[i].conn # 0
    BY <1>1, <1>4, NoConnIs DEF Delivered
  <2> QED  BY <1>1, <1>2, <1>3, <1>4, <2>1, EmptyIs DEF Delivered, Connected
<1>5. CASE conn' = conn /\ ~ (conn' = NoConn /\ lines' = <<>>)
  <2>1. \A i \in DOMAIN lines' : lines'[i].id <= conn.next_id
    BY <1>4, <1>5 DEF Ends, Delivered, Connected
  <2> QED  BY <1>1, <1>2, <1>3, <1>5, <2>1 DEF Ends, Delivered, Connected
<1> QED  BY <1>4, <1>5 DEF Ends

\* A poll, of a worker that then goes on.
LEMMA DeliveredPolls ==
  ASSUME Types, Delivered, Poll, UNCHANGED <<pipe, reached, conns>>, Taken' = Taken,
         worker.pc \in {"list", "handle", "cold"}, worker'.call = worker.call,
         worker'.pc \in {"handle", "cold", "ensure"}
  PROVE  ReachedOnce' /\ Connected' /\ OwnAnswer'
<1>1. ReachedOnce'
  BY DEF Delivered, ReachedOnce, HasReached, InPipe
<1>2. \/ conn' = NoConn /\ lines' = <<>>
      \/ conn' = conn /\ lines' = lines
  BY PollIs
<1>3. CASE conn' = NoConn /\ lines' = <<>>
  <2>1. conn'.no = 0 /\ conn'.no <= conns' /\ \A i \in DOMAIN pipe : pipe[i].conn # 0
    BY <1>3, NoConnIs DEF Delivered
  <2>2. pipe' = pipe /\ conns' = conns /\ worker'.pc \in {"handle", "cold", "ensure"}
    OBVIOUS
  <2>3. \A i \in DOMAIN pipe : pipe[i].conn \in 1 .. conns
    BY DEF Delivered, Connected
  <2> QED  BY <1>1, <1>3, <2>1, <2>2, <2>3, EmptyIs DEF Connected, OwnAnswer
<1>4. CASE conn' = conn /\ lines' = lines
  BY <1>1, <1>4 DEF Delivered, Connected, OwnAnswer
<1> QED  BY <1>1, <1>2, <1>3, <1>4

LEMMA DeliveredTake ==
  ASSUME Types, Ordered, Delivered, Take PROVE Delivered'
<1>1. /\ worker'.pc \in {"list", "handle"} /\ Taken' = Taken + 1
      /\ worker'.call \in Calls /\ worker'.call.n = Taken + 1 /\ Taken \in 0 .. MaxCalls
      /\ UNCHANGED <<child, conn, conns, lines, pipe, reached>>
  BY TakeIs, TakenIs DEF Take, browserd, Ordered
<1>2. worker'.call.n \in 1 .. MaxCalls
  BY <1>1 DEF Calls, Numbers
<1>3. \A n \in 1 .. MaxCalls : n > Taken => ~ HasReached(n) /\ ~ InPipe(n)
  <2>1. \A n \in 1 .. MaxCalls : HasReached(n) \/ InPipe(n) => n <= Taken
    BY DEF Delivered, ReachedOnce
  <2>2. Taken \in Int
    BY <1>1
  <2> QED  BY <2>1, <2>2
<1>4. ~ HasReached(Taken + 1) /\ ~ InPipe(Taken + 1)
  BY <1>1, <1>2, <1>3
<1>5. ReachedOnce'
  <2>1. \A n \in 1 .. MaxCalls : HasReached(n)' \/ InPipe(n)' => n <= Taken'
    <3>1. \A n \in 1 .. MaxCalls : HasReached(n) \/ InPipe(n) => n <= Taken
      BY DEF Delivered, ReachedOnce
    <3> QED  BY <1>1, <3>1 DEF HasReached, InPipe
  <2>2. ~ HasReached(worker.call.n)' /\ ~ InPipe(worker.call.n)'
    BY <1>1, <1>4 DEF HasReached, InPipe
  <2>3. /\ \A n \in 1 .. MaxCalls : ~ (HasReached(n)' /\ InPipe(n)')
        /\ \A i, j \in DOMAIN pipe' :
             pipe'[i].what.n = pipe'[j].what.n /\ pipe'[i].what.n # 0 => i = j
    BY <1>1 DEF Delivered, ReachedOnce, HasReached, InPipe
  <2> QED  BY <2>1, <2>2, <2>3 DEF ReachedOnce
<1>6. Started' /\ OwnAnswer' /\ Connected'
  BY <1>1 DEF Started, OwnAnswer, Delivered, Connected
<1> QED  BY <1>5, <1>6 DEF Delivered

\* What a poll leaves of a connection can end a call.
LEMMA PollEnds ==
  ASSUME Types, Poll, worker' = Idle, UNCHANGED <<queue, queued, pipe, reached, conns>>
  PROVE  Ends
BY PollIs DEF Ends, Taken

LEMMA DeliveredCheckTabList ==
  ASSUME IInv, CheckTabList PROVE Delivered'
<1>1. /\ Types /\ Delivered /\ worker.pc = "list" /\ Poll /\ Taken' = Taken
      /\ UNCHANGED <<queue, queued, pipe, reached, conns>>
  BY DEF IInv, Delivered, CheckTabList, Taken
<1>2. CASE Go("handle")
  <2>1. worker'.pc = "handle" /\ worker'.call = worker.call
    BY <1>1, <1>2, GoIs DEF Types, Places
  <2>2. ReachedOnce' /\ Connected' /\ OwnAnswer'
    BY <1>1, <2>1, DeliveredPolls
  <2>3. Started'
    BY <2>1 DEF Started
  <2> QED  BY <2>2, <2>3 DEF Delivered
<1>3. CASE worker' = Idle
  BY <1>1, <1>3, PollEnds, DeliveredEnds
<1> QED  BY <1>2, <1>3 DEF CheckTabList, Answer

LEMMA DeliveredHandleCall ==
  ASSUME IInv, HandleCall PROVE Delivered'
<1>1. /\ Types /\ Delivered /\ worker.pc = "handle" /\ Poll /\ Taken' = Taken
      /\ UNCHANGED <<queue, queued, pipe, reached, conns>>
  BY DEF IInv, Delivered, HandleCall, Taken
<1>2. CASE worker' = [worker EXCEPT !.pc = "cold", !.url = ~Running]
  <2>1. worker'.pc = "cold" /\ worker'.call = worker.call /\ worker'.url = ~Running
    BY <1>1, <1>2 DEF Types, Workers
  <2>2. ReachedOnce' /\ Connected' /\ OwnAnswer'
    BY <1>1, <2>1, DeliveredPolls
  <2>3. Started'
    BY <1>1, <2>1, PollIs DEF Started, Running
  <2> QED  BY <2>2, <2>3 DEF Delivered
<1>3. CASE worker' = Idle
  BY <1>1, <1>3, PollEnds, DeliveredEnds
<1> QED  BY <1>2, <1>3 DEF HandleCall, Answer

LEMMA DeliveredCheckCold ==
  ASSUME IInv, CheckCold PROVE Delivered'
<1>1. /\ Types /\ Delivered /\ worker.pc = "cold" /\ Poll /\ Taken' = Taken
      /\ UNCHANGED <<queue, queued, pipe, reached, conns>>
      /\ worker' = [worker EXCEPT !.pc = "ensure", !.cold = ~Running]
  BY DEF IInv, Delivered, CheckCold, Taken
<1>2. /\ worker'.pc = "ensure" /\ worker'.call = worker.call /\ worker'.cold = ~Running
      /\ worker'.url = worker.url /\ worker'.exited = worker.exited
  BY <1>1 DEF Types, Workers
<1>3. ReachedOnce' /\ Connected' /\ OwnAnswer'
  BY <1>1, <1>2, DeliveredPolls
<1>4. Started'
  BY <1>1, <1>2, PollIs DEF Delivered, Started, Running
<1> QED  BY <1>3, <1>4 DEF Delivered

LEMMA DeliveredEnsure ==
  ASSUME IInv, Ensure PROVE Delivered'
<1>1. /\ Types /\ Delivered /\ worker.pc = "ensure" /\ Taken' = Taken
      /\ UNCHANGED <<queue, queued, pipe, reached, conns>>
  BY DEF IInv, Delivered, Ensure, Taken
<1>2. CASE conn # NoConn /\ Running
  <2>1. Go("call") /\ UNCHANGED <<child, conn, lines>>
    BY <1>2 DEF Ensure
  <2>2. /\ worker'.pc = "call" /\ worker'.call = worker.call /\ worker'.cold = worker.cold
        /\ worker'.url = worker.url /\ worker'.exited = worker.exited
    BY <1>1, <2>1, GoIs DEF Types, Places
  <2>3. ~ worker.url
    BY <1>1, <1>2 DEF Delivered, Started, Running
  <2>4. ReachedOnce'
    BY <1>1, <2>2 DEF Delivered, ReachedOnce, HasReached, InPipe
  <2>5. Started'
    BY <1>1, <2>2, <2>3 DEF Delivered, Started
  <2>6. Connected' /\ OwnAnswer'
    BY <1>1, <1>2, <2>1, <2>2 DEF Delivered, Connected, OwnAnswer
  <2> QED  BY <2>4, <2>5, <2>6 DEF Delivered
<1>3. CASE ~ (conn # NoConn /\ Running)
  <2>1. /\ Go("start") /\ conn' = NoConn /\ lines' = <<>>
        /\ child' = "none" \/ child' = child
    BY <1>3 DEF Ensure
  <2>2. /\ worker'.pc = "start" /\ worker'.call = worker.call /\ worker'.cold = worker.cold
        /\ worker'.url = worker.url /\ worker'.exited = worker.exited
    BY <1>1, <2>1, GoIs DEF Types, Places
  <2>4. ReachedOnce'
    BY <1>1, <2>2 DEF Delivered, ReachedOnce, HasReached, InPipe
  <2>5. Started'
    BY <1>1, <2>1, <2>2 DEF Delivered, Started
  <2>6. Connected'
    <3>1. conns \in Nat /\ NoConn.no = 0 /\ \A i \in DOMAIN pipe : pipe[i].conn # 0
      BY <1>1, NoConnIs DEF Delivered
    <3>2. \A i \in DOMAIN pipe : pipe[i].conn \in 1 .. conns
      BY <1>1 DEF Delivered, Connected
    <3> QED  BY <1>1, <2>1, <2>2, <3>1, <3>2, EmptyIs DEF Connected
  <2>7. OwnAnswer'
    BY <2>2 DEF OwnAnswer
  <2> QED  BY <2>4, <2>5, <2>6, <2>7 DEF Delivered
<1> QED  BY <1>2, <1>3

\* Whatever fails ends the call and drops the connection.
LEMMA DeliveredFails ==
  ASSUME IInv, Fail, UNCHANGED <<queue, queued, pipe, reached, conns>> PROVE Delivered'
<1>1. Ends
  BY DEF Fail, Answer, Ends, Taken
<1> QED  BY <1>1, DeliveredEnds DEF IInv, Delivered

LEMMA DeliveredStart ==
  ASSUME IInv, Start PROVE Delivered'
<1>1. /\ Types /\ Delivered /\ worker.pc = "start" /\ Taken' = Taken /\ Go("connect")
      /\ UNCHANGED <<queue, queued, conn, conns, lines>>
  BY DEF IInv, Delivered, Start, Taken
<1>2. /\ worker'.pc = "connect" /\ worker'.call = worker.call /\ worker'.cold = worker.cold
      /\ worker'.url = worker.url /\ worker'.exited = worker.exited
  BY <1>1, GoIs DEF Types, Places
<1>3. /\ worker.call.n = Taken /\ worker.call.n \in 1 .. MaxCalls /\ Taken \in Int
      /\ ~ HasReached(worker.call.n)
  BY <1>1, TakenIs DEF IInv, QueueInOrder, Calls, ReachedOnce, Numbers
<1>4. OwnAnswer'
  BY <1>2 DEF OwnAnswer
<1>5. CASE Running
  <2>1. ~ worker.url
    BY <1>1, <1>5 DEF Delivered, Started, Running
  <2>2. UNCHANGED <<child, pipe, reached>>
    BY <1>5 DEF Start
  <2>3. ReachedOnce'
    BY <1>1, <1>2, <2>2 DEF Delivered, ReachedOnce, HasReached, InPipe
  <2>4. Started'
    BY <1>1, <1>2, <2>1 DEF Delivered, Started
  <2>5. Connected'
    BY <1>1, <1>2, <2>2 DEF Delivered, Connected
  <2> QED  BY <1>4, <2>3, <2>4, <2>5 DEF Delivered
<1>6. CASE ~ Running
  <2>1. /\ pipe' = <<>>
        /\ reached' = IF worker.url THEN Append(reached, worker.call.n) ELSE reached
    BY <1>6 DEF Start
  <2> PICK k \in 1 .. MaxCalls : k = worker.call.n /\ k = worker'.call.n
    BY <1>2, <1>3
  <2>2. \A n : HasReached(n)' <=> HasReached(n) \/ (worker.url /\ n = k)
    <3>1. CASE worker.url
      <4>1. reached \in Seq(Numbers) /\ reached' = Append(reached, k) /\ k \in Numbers
        BY <1>1, <2>1, <3>1 DEF Types, Numbers
      <4>2. /\ DOMAIN reached' = DOMAIN reached \cup {Len(reached) + 1}
            /\ \A i \in DOMAIN reached : reached'[i] = reached[i]
            /\ reached'[Len(reached) + 1] = k
            /\ Len(reached) + 1 \notin DOMAIN reached
        BY <4>1, AppendIs
      <4> QED  BY <3>1, <4>2 DEF HasReached
    <3>2. CASE ~ worker.url
      BY <2>1, <3>2 DEF HasReached
    <3> QED  BY <3>1, <3>2
  <2>3. \A n : ~ InPipe(n)'
    BY <2>1, EmptyIs DEF InPipe
  <2>4. worker.url => worker.cold
    BY <1>1 DEF Delivered, Started
  <2>5. ReachedOnce'
    <3>1. \A n \in 1 .. MaxCalls : HasReached(n)' => n <= Taken'
      <4>1. \A n \in 1 .. MaxCalls : HasReached(n) => n <= Taken
        BY <1>1 DEF Delivered, ReachedOnce
      <4>2. k = Taken /\ Taken \in Int /\ Taken' = Taken
        BY <1>1, <1>3
      <4> QED  BY <2>2, <4>1, <4>2
    <3>2. HasReached(k)' => worker.cold
      BY <1>3, <2>2, <2>4
    <3>3. HasReached(worker.call.n)' => worker.cold
      BY <3>2 DEF HasReached
    <3>4. DOMAIN pipe' = {}
      BY <2>1, EmptyIs
    <3>5. \A n \in 1 .. MaxCalls : ~ (HasReached(n)' /\ InPipe(n)')
      BY <2>3
    <3>6. ~ InPipe(worker.call.n)'
      BY <3>4 DEF InPipe
    <3> QED  BY <1>2, <2>3, <3>1, <3>3, <3>4, <3>5, <3>6 DEF ReachedOnce
  <2>6. Started'
    <3>1. worker.url => HasReached(k)'
      BY <2>2
    <3>2. worker.url => HasReached(worker.call.n)'
      BY <3>1 DEF HasReached
    <3> QED  BY <1>1, <1>2, <3>2 DEF Delivered, Started
  <2>7. Connected'
    BY <1>1, <1>2, <2>1, EmptyIs DEF Delivered, Connected
  <2> QED  BY <1>4, <2>5, <2>6, <2>7 DEF Delivered
<1> QED  BY <1>5, <1>6

LEMMA DeliveredConnectIpc ==
  ASSUME IInv, ConnectIpc PROVE Delivered'
<1>1. /\ Types /\ Delivered /\ worker.pc = "connect" /\ Taken' = Taken /\ Go("initialize")
      /\ UNCHANGED <<queue, queued, child, pipe, lines, reached>>
      /\ conns' = conns + 1 /\ conn' = [no |-> conns + 1, next_id |-> 0]
  BY DEF IInv, Delivered, ConnectIpc, Taken, browserd
<1>2. /\ worker'.pc = "initialize" /\ worker'.call = worker.call /\ worker'.cold = worker.cold
      /\ worker'.url = worker.url /\ worker'.exited = worker.exited
  BY <1>1, GoIs DEF Types, Places
<1>3. ReachedOnce'
  BY <1>1, <1>2 DEF Delivered, ReachedOnce, HasReached, InPipe
<1>4. Started'
  BY <1>1, <1>2 DEF Delivered, Started, HasReached
<1>5. Connected'
  <2>1. /\ conn'.no = conns + 1 /\ conns \in Nat /\ conn'.next_id = 0
        /\ \A i \in DOMAIN pipe : pipe[i].conn \in 1 .. conns
        /\ lines = <<>> /\ DOMAIN lines = {}
    BY <1>1, NoConnIs, EmptyIs DEF Delivered, Connected, Types
  <2> QED  BY <1>1, <1>2, <2>1 DEF Connected
<1>6. OwnAnswer'
  BY <1>2 DEF OwnAnswer
<1> QED  BY <1>3, <1>4, <1>5, <1>6 DEF Delivered

\* A request is one more in the pipe, with a number that nothing has yet.
Requested ==
  LET l == Len(pipe) + 1 IN
  /\ pipe' \in Seq(Requests) /\ conn' \in [no : Nat, next_id : Nat]
  /\ DOMAIN pipe' = DOMAIN pipe \cup {l} /\ l \notin DOMAIN pipe
  /\ \A i \in DOMAIN pipe : pipe'[i] = pipe[i]
  /\ pipe'[l].conn = conn.no /\ pipe'[l].id = conn.next_id + 1
  /\ conn'.no = conn.no /\ conn'.next_id = conn.next_id + 1

LEMMA RpcIs ==
  ASSUME Types, NEW what \in Calls \cup {NoCall}, NEW pc, Rpc(what, pc)
  PROVE  Requested /\ pipe'[Len(pipe) + 1].what = what
<1> DEFINE r == [conn |-> conn.no, id |-> conn.next_id + 1, what |-> what]
<1>1. /\ conn \in [no : Nat, next_id : Nat] /\ pipe \in Seq(Requests)
      /\ pipe' = Append(pipe, r) /\ conn' = [conn EXCEPT !.next_id = @ + 1]
  BY DEF Types, Rpc
<1>2. r \in Requests
  BY <1>1 DEF Requests
<1>3. r.conn = conn.no /\ r.id = conn.next_id + 1 /\ r.what = what
  OBVIOUS
<1>4. conn' \in [no : Nat, next_id : Nat] /\ conn'.no = conn.no /\ conn'.next_id = conn.next_id + 1
  BY <1>1
<1> HIDE DEF r
<1>5. /\ Append(pipe, r) \in Seq(Requests)
      /\ DOMAIN Append(pipe, r) = DOMAIN pipe \cup {Len(pipe) + 1}
      /\ Len(pipe) + 1 \notin DOMAIN pipe
      /\ \A i \in DOMAIN pipe : Append(pipe, r)[i] = pipe[i]
      /\ Append(pipe, r)[Len(pipe) + 1] = r
  BY <1>1, <1>2, AppendIs
<1> QED  BY <1>1, <1>3, <1>4, <1>5 DEF Requested

\* What a request does to the connection, whatever it asks for.
LEMMA ConnectedRpc ==
  ASSUME Types, Connected, Requested, conn.no # 0, UNCHANGED <<conns, lines>>,
         Awaiting'
  PROVE  Connected'
<1> DEFINE l == Len(pipe) + 1
<1>1. /\ DOMAIN pipe' = DOMAIN pipe \cup {l}
      /\ \A i \in DOMAIN pipe : pipe'[i] = pipe[i]
      /\ pipe'[l].conn = conn.no /\ pipe'[l].id = conn.next_id + 1
      /\ conn'.no = conn.no /\ conn'.next_id = conn.next_id + 1
  BY DEF Requested
<1>2. /\ conn.next_id \in Nat /\ conn.no \in Nat /\ conns \in Nat
      /\ \A i \in DOMAIN lines : lines[i].id \in Nat
      /\ \A i \in DOMAIN pipe : pipe[i].conn \in Nat /\ pipe[i].id \in Nat
  <2>2. \A i \in DOMAIN lines : lines[i].id \in Nat
    BY LinesAre
  <2>3. conn.next_id \in Nat /\ conn.no \in Nat /\ conns \in Nat
    BY DEF Types
  <2> QED  BY <2>2, <2>3, PipeIs
<1> HIDE DEF l
<1>c. /\ conn.no <= conns /\ lines' = lines /\ conns' = conns
      /\ \A i \in DOMAIN pipe :
           pipe[i].conn \in 1 .. conns /\ (pipe[i].conn = conn.no => pipe[i].id <= conn.next_id)
      /\ \A i \in DOMAIN lines : lines[i].id <= conn.next_id
  BY DEF Connected
<1>3. \A i \in DOMAIN lines : lines[i].id <= conn.next_id + 1
  BY <1>2, <1>c
<1>4. \A i \in DOMAIN pipe' :
        /\ pipe'[i].conn \in 1 .. conns
        /\ pipe'[i].conn = conn.no => pipe'[i].id <= conn.next_id + 1
  <2>1. ASSUME NEW i \in DOMAIN pipe
        PROVE  /\ pipe'[i].conn \in 1 .. conns
               /\ pipe'[i].conn = conn.no => pipe'[i].id <= conn.next_id + 1
    <3>1. pipe'[i] = pipe[i]
      BY <1>1
    <3>2. /\ pipe[i].conn \in 1 .. conns /\ pipe[i].id \in Nat
          /\ pipe[i].conn = conn.no => pipe[i].id <= conn.next_id
      BY <1>2, <1>c
    <3> QED  BY <1>2, <3>1, <3>2
  <2>2. /\ pipe'[l].conn \in 1 .. conns
        /\ pipe'[l].conn = conn.no => pipe'[l].id <= conn.next_id + 1
    <3>1. conn.no \in 1 .. conns
      BY <1>2, <1>c
    <3> QED  BY <1>1, <1>2, <3>1
  <2> QED  BY <1>1, <2>1, <2>2
<1>5. conn'.next_id # 0
  BY <1>1, <1>2
<1> QED  BY <1>1, <1>c, <1>3, <1>4, <1>5 DEF Connected, Awaiting

LEMMA DeliveredInitialize ==
  ASSUME IInv, Initialize PROVE Delivered'
<1> DEFINE l == Len(pipe) + 1
<1>1. /\ Types /\ Delivered /\ worker.pc = "initialize" /\ Taken' = Taken
      /\ Rpc(NoCall, "await initialize") /\ UNCHANGED <<child, conns, lines, reached>>
  BY DEF IInv, Delivered, Initialize, Taken
<1>2. /\ worker'.pc = "await initialize" /\ worker'.call = worker.call
      /\ worker'.cold = worker.cold /\ worker'.url = worker.url
      /\ worker'.exited = worker.exited
  BY <1>1, GoIs DEF Types, Places, Rpc
<1>3. Requested /\ pipe'[l].what = NoCall
  BY <1>1, RpcIs
<1>4. Connected'
  BY <1>1, <1>2, <1>3, ConnectedRpc DEF Delivered, Connected, Awaiting
<1>5. /\ DOMAIN pipe' = DOMAIN pipe \cup {l} /\ l \notin DOMAIN pipe
      /\ \A i \in DOMAIN pipe : pipe'[i] = pipe[i]
      /\ pipe'[l].what = NoCall
  BY <1>3 DEF Requested
<1> HIDE DEF l
<1>6. \A n : n # 0 => (InPipe(n)' <=> InPipe(n))
  BY <1>5, NoCallIs DEF InPipe
<1>7. ReachedOnce'
  <2>0. worker.call \in Calls /\ worker.call.n # 0
    BY <1>1, CallsAre DEF IInv, QueueInOrder
  <2> PICK k : k = worker.call.n /\ k = worker'.call.n
    BY <1>2
  <2>1. k # 0
    BY <2>0
  <2>2. ~ InPipe(k)' /\ (HasReached(k)' => worker.cold)
    <3>1. ~ InPipe(k) /\ (HasReached(k) => worker.cold)
      BY <1>1 DEF Delivered, ReachedOnce
    <3>2. HasReached(k)' <=> HasReached(k)
      BY <1>1 DEF HasReached
    <3> QED  BY <1>6, <2>1, <3>1, <3>2
  <2>3. ~ InPipe(worker.call.n)' /\ (HasReached(worker.call.n)' => worker.cold)
    BY <2>2 DEF InPipe, HasReached
  <2>4. \A i, j \in DOMAIN pipe' :
          pipe'[i].what.n = pipe'[j].what.n /\ pipe'[i].what.n # 0 => i = j
    <3>1. \A i, j \in DOMAIN pipe :
            pipe[i].what.n = pipe[j].what.n /\ pipe[i].what.n # 0 => i = j
      BY <1>1 DEF Delivered, ReachedOnce
    <3> QED  BY <1>5, <3>1, NoCallIs
  <2>5. \A n \in 1 .. MaxCalls : n # 0
    OBVIOUS
  <2>6. /\ \A n \in 1 .. MaxCalls : HasReached(n)' \/ InPipe(n)' => n <= Taken'
        /\ \A n \in 1 .. MaxCalls : ~ (HasReached(n)' /\ InPipe(n)')
    <3>1. \A n : HasReached(n)' <=> HasReached(n)
      BY <1>1 DEF HasReached
    <3> QED  BY <1>1, <1>6, <2>5, <3>1 DEF Delivered, ReachedOnce
  <2> QED  BY <1>2, <2>3, <2>4, <2>6 DEF ReachedOnce
<1>8. Started'
  BY <1>1, <1>2 DEF Delivered, Started, HasReached
<1>9. OwnAnswer'
  BY <1>2 DEF OwnAnswer
<1> QED  BY <1>4, <1>7, <1>8, <1>9 DEF Delivered

LEMMA DeliveredCallTool ==
  ASSUME IInv, CallTool PROVE Delivered'
<1> DEFINE l == Len(pipe) + 1
<1>1. /\ Types /\ Delivered /\ worker.pc = "call" /\ Taken' = Taken
      /\ Rpc(Request, "await call") /\ UNCHANGED <<child, conns, lines, reached>>
      /\ worker.call \in Calls /\ worker.call.n = Taken
  BY DEF IInv, Delivered, CallTool, Taken, QueueInOrder
<1>2. /\ worker'.pc = "await call" /\ worker'.call = worker.call
      /\ worker'.cold = worker.cold /\ worker'.url = worker.url
      /\ worker'.exited = worker.exited
  BY <1>1, GoIs DEF Types, Places, Rpc
<1> PICK what \in Calls \cup {NoCall} : what = Request
  BY <1>1 DEF Request
<1>r. Request' = what
  BY <1>2 DEF Request
<1>3. Requested /\ pipe'[l].what = what
  BY <1>1, RpcIs
<1>4. Connected'
  BY <1>1, <1>2, <1>3, ConnectedRpc DEF Delivered, Connected, Awaiting
<1>5. /\ DOMAIN pipe' = DOMAIN pipe \cup {l} /\ l \notin DOMAIN pipe
      /\ \A i \in DOMAIN pipe : pipe'[i] = pipe[i]
      /\ pipe'[l].what = what /\ pipe'[l].conn = conn.no /\ pipe'[l].id = conn.next_id + 1
      /\ conn'.no = conn.no /\ conn'.next_id = conn.next_id + 1
  BY <1>3 DEF Requested
<1> HIDE DEF l
<1>6. \A n : InPipe(n)' <=> InPipe(n) \/ n = what.n
  BY <1>5 DEF InPipe
<1>7. what = NoCall \/ (what = worker.call /\ ~ worker.cold)
  BY DEF Request
<1>8. what # NoCall => ~ InPipe(what.n) /\ ~ HasReached(what.n) /\ what.n = Taken
  <2>1. ASSUME what = worker.call, ~ worker.cold
        PROVE  ~ InPipe(what.n) /\ ~ HasReached(what.n) /\ what.n = Taken
    BY <1>1, <2>1 DEF Delivered, ReachedOnce
  <2> QED  BY <1>7, <2>1
<1>9. ReachedOnce'
  <2>1. \A i, j \in DOMAIN pipe' :
          pipe'[i].what.n = pipe'[j].what.n /\ pipe'[i].what.n # 0 => i = j
    <3>1. what.n = 0 \/ \A i \in DOMAIN pipe : pipe[i].what.n # what.n
      BY <1>8, NoCallIs DEF InPipe
    <3>2. \A i, j \in DOMAIN pipe :
            pipe[i].what.n = pipe[j].what.n /\ pipe[i].what.n # 0 => i = j
      BY <1>1 DEF Delivered, ReachedOnce
    <3> QED  BY <1>5, <3>1, <3>2
  <2>2. \A n : HasReached(n)' <=> HasReached(n)
    BY <1>1 DEF HasReached
  <2>3. \A n \in 1 .. MaxCalls : n = what.n => what # NoCall
    BY NoCallIs
  <2>4. Taken \in Int /\ Taken' = Taken
    BY <1>1, TakenIs DEF IInv
  <2>5. \A n \in 1 .. MaxCalls :
          /\ HasReached(n) \/ InPipe(n) => n <= Taken
          /\ ~ (HasReached(n) /\ InPipe(n))
    BY <1>1 DEF Delivered, ReachedOnce
  <2>6. \A n \in 1 .. MaxCalls : HasReached(n)' \/ InPipe(n)' => n <= Taken'
    BY <1>6, <1>8, <2>2, <2>3, <2>4, <2>5
  <2>7. \A n \in 1 .. MaxCalls : ~ (HasReached(n)' /\ InPipe(n)')
    BY <1>6, <1>8, <2>2, <2>3, <2>5
  <2> QED  BY <1>2, <2>1, <2>6, <2>7 DEF ReachedOnce
<1>10. Started'
  BY <1>1, <1>2 DEF Delivered, Started, HasReached
<1>11. OwnAnswer'
  <2>1. /\ conn.next_id \in Nat
        /\ \A i \in DOMAIN pipe : pipe[i].conn = conn.no => pipe[i].id <= conn.next_id
        /\ \A i \in DOMAIN lines : lines[i].id <= conn.next_id
    BY <1>1 DEF Delivered, Connected, Types
  <2>2. \A i \in DOMAIN pipe' :
          pipe'[i].conn = conn'.no /\ pipe'[i].id = conn'.next_id => pipe'[i].what = what
    <3>1. \A i \in DOMAIN pipe : pipe[i].id \in Nat
      BY <1>1, PipeIs
    <3> QED  BY <1>5, <2>1, <3>1
  <2>3. \A i \in DOMAIN lines' : lines'[i].id # conn'.next_id
    <3>1. \A i \in DOMAIN lines : lines[i].id \in Nat
      BY <1>1, LinesAre
    <3>2. lines' = lines /\ conn'.next_id = conn.next_id + 1
      BY <1>1, <1>5
    <3> QED  BY <2>1, <3>1, <3>2
  <2> QED  BY <1>r, <2>2, <2>3 DEF OwnAnswer
<1> QED  BY <1>4, <1>9, <1>10, <1>11 DEF Delivered

\* A line that is read is gone, the others stay.
LEMMA ReadIs ==
  ASSUME Types, lines # <<>>, lines' = Tail(lines)
  PROVE  /\ lines' \in Seq(Lines)
         /\ \A i \in DOMAIN lines' : \E j \in DOMAIN lines : lines'[i] = lines[j]
         /\ \E j \in DOMAIN lines : Head(lines) = lines[j]
<1>1. lines \in Seq(Lines)
  BY DEF Types
<1>2. /\ Tail(lines) \in Seq(Lines)
      /\ \A i \in DOMAIN Tail(lines) : i + 1 \in DOMAIN lines /\ Tail(lines)[i] = lines[i + 1]
      /\ 1 \in DOMAIN lines /\ Head(lines) = lines[1]
  BY <1>1, TailIs
<1> QED  BY <1>2

LEMMA ConnectedReads ==
  ASSUME Connected, UNCHANGED <<conn, conns, pipe, worker>>,
         \A i \in DOMAIN lines' : \E j \in DOMAIN lines : lines'[i] = lines[j],
         conn.no # 0
  PROVE  Connected'
<1>1. \A i \in DOMAIN lines' : lines'[i].id <= conn.next_id
  BY DEF Connected
<1> QED  BY <1>1 DEF Connected

LEMMA DeliveredIgnore ==
  ASSUME IInv, Ignore PROVE Delivered'
<1>1. /\ Types /\ Delivered /\ Taken' = Taken /\ Awaiting /\ lines # <<>>
      /\ lines' = Tail(lines) /\ UNCHANGED <<worker, conn, conns, child, pipe, reached>>
  BY DEF IInv, Delivered, Ignore, Taken
<1>2. \A i \in DOMAIN lines' : \E j \in DOMAIN lines : lines'[i] = lines[j]
  BY <1>1, ReadIs
<1>3. ReachedOnce' /\ Started'
  BY <1>1 DEF Delivered, ReachedOnce, Started, HasReached, InPipe
<1>4. conn.no # 0
  BY <1>1 DEF Delivered, Connected, Awaiting
<1>5. Connected'
  BY <1>1, <1>2, <1>4, ConnectedReads DEF Delivered
<1>6. OwnAnswer'
  <2>1. Request' = Request /\ conn' = conn /\ worker' = worker /\ pipe' = pipe
    BY <1>1 DEF Request
  <2>2. HasReached(worker.call.n)' <=> HasReached(worker.call.n)
    BY <1>1 DEF HasReached
  <2> HIDE DEF Request
  <2>3. worker.pc = "await call" =>
          \A i \in DOMAIN lines' :
            lines'[i].id = conn.next_id =>
              /\ lines'[i].of = Request.n
              /\ lines'[i].ok /\ ~ worker.cold => HasReached(worker.call.n)
    BY <1>1, <1>2 DEF Delivered, OwnAnswer
  <2> QED  BY <1>1, <2>1, <2>2, <2>3 DEF Delivered, OwnAnswer
<1> QED  BY <1>3, <1>5, <1>6 DEF Delivered

LEMMA DeliveredReadResponse ==
  ASSUME IInv, ReadResponse PROVE Delivered'
<1>1. /\ Types /\ Delivered /\ Taken' = Taken /\ Awaiting /\ lines # <<>>
      /\ UNCHANGED <<queue, queued, conns, child, pipe, reached>>
  BY DEF IInv, Delivered, ReadResponse, Taken
<1>2. ASSUME lines' = Tail(lines)
      PROVE  \A i \in DOMAIN lines' : \E j \in DOMAIN lines : lines'[i] = lines[j]
  BY <1>1, <1>2, ReadIs
<1>3. CASE worker.pc = "await initialize" /\ Go("call") /\ lines' = Tail(lines) /\ conn' = conn
  <2>1. /\ worker'.pc = "call" /\ worker'.call = worker.call /\ worker'.cold = worker.cold
        /\ worker'.url = worker.url /\ worker'.exited = worker.exited
    BY <1>1, <1>3, GoIs DEF Types, Places
  <2>2. ReachedOnce'
    BY <1>1, <1>3, <2>1 DEF Delivered, ReachedOnce, HasReached, InPipe
  <2>3. Started'
    BY <1>1, <1>3, <2>1 DEF Delivered, Started, HasReached
  <2>4. Connected'
    <3>1. \A i \in DOMAIN lines' : lines'[i].id <= conn.next_id
      BY <1>1, <1>2, <1>3 DEF Delivered, Connected
    <3> QED  BY <1>1, <1>3, <2>1, <3>1 DEF Delivered, Connected
  <2>5. OwnAnswer'
    BY <2>1 DEF OwnAnswer
  <2> QED  BY <2>2, <2>3, <2>4, <2>5 DEF Delivered
<1>4. CASE worker' = Idle /\ lines' = Tail(lines) /\ conn' = conn
  <2>1. Ends
    BY <1>1, <1>2, <1>4 DEF Ends
  <2> QED  BY <1>1, <2>1, DeliveredEnds
<1>5. CASE Fail
  BY <1>1, <1>5, DeliveredFails
<1> QED  BY <1>3, <1>4, <1>5 DEF ReadResponse, Answer

LEMMA DeliveredExits ==
  ASSUME IInv, BrowserdExits PROVE Delivered'
<1>1. /\ Types /\ Delivered /\ Taken' = Taken /\ child = "up"
      /\ child' = "dead" /\ pipe' = <<>> /\ UNCHANGED <<conn, conns, lines, reached>>
      /\ worker' = IF worker.pc = "idle" THEN worker ELSE [worker EXCEPT !.exited = TRUE]
  BY DEF IInv, Delivered, BrowserdExits, Taken, Running
<1>2. /\ worker'.pc = worker.pc /\ worker'.call = worker.call /\ worker'.cold = worker.cold
      /\ worker'.url = worker.url /\ (worker.pc # "idle" => worker'.exited)
  BY <1>1 DEF Types, Workers
<1>3. DOMAIN pipe' = {}
  BY <1>1, EmptyIs
<1>4. ReachedOnce'
  BY <1>1, <1>2, <1>3 DEF Delivered, ReachedOnce, HasReached, InPipe
<1>5. Started'
  BY <1>1, <1>2 DEF Delivered, Started, HasReached
<1>6. Connected'
  BY <1>1, <1>2, <1>3 DEF Delivered, Connected
<1>7. OwnAnswer'
  BY <1>1, <1>2, <1>3 DEF Delivered, OwnAnswer, Request, HasReached
<1> QED  BY <1>4, <1>5, <1>6, <1>7 DEF Delivered

LEMMA DeliveredNotifies ==
  ASSUME IInv, BrowserdNotifies PROVE Delivered'
<1> DEFINE line == [id |-> 0, ok |-> TRUE, of |-> 0]
           l == Len(lines) + 1
<1>1. /\ Types /\ Delivered /\ Taken' = Taken /\ conn # NoConn
      /\ lines' = Append(lines, line) /\ lines \in Seq(Lines)
      /\ UNCHANGED <<worker, child, conn, conns, pipe, reached>>
  BY DEF IInv, Delivered, BrowserdNotifies, Taken, Types
<1>2. line \in Lines /\ line.id = 0
  BY DEF Lines
<1> HIDE DEF line
<1>3. /\ DOMAIN lines' = DOMAIN lines \cup {l} /\ lines'[l] = line
      /\ \A i \in DOMAIN lines : lines'[i] = lines[i]
  BY <1>1, <1>2, AppendIs
<1> HIDE DEF l
<1>4. ReachedOnce' /\ Started'
  BY <1>1 DEF Delivered, ReachedOnce, Started, HasReached, InPipe
<1>5. conn.no # 0 /\ conn.next_id \in Nat
  BY <1>1 DEF Delivered, Connected, Types
<1>6. Connected'
  <2>1. \A i \in DOMAIN lines : lines[i].id <= conn.next_id
    BY <1>1 DEF Delivered, Connected
  <2>2. \A i \in DOMAIN lines' : lines'[i].id <= conn'.next_id
    BY <1>1, <1>2, <1>3, <1>5, <2>1
  <2> QED  BY <1>1, <1>5, <2>2 DEF Delivered, Connected
<1>7. OwnAnswer'
  <2>1. worker.pc = "await call" => conn.next_id # 0
    BY <1>1 DEF Delivered, Connected
  <2> QED  BY <1>1, <1>2, <1>3, <2>1 DEF Delivered, OwnAnswer, Request, HasReached
<1> QED  BY <1>4, <1>6, <1>7 DEF Delivered

LEMMA DeliveredHandles ==
  ASSUME IInv, BrowserdHandles PROVE Delivered'
<1>1. /\ Types /\ Delivered /\ Taken' = Taken /\ pipe # <<>> /\ pipe' = Tail(pipe)
      /\ UNCHANGED <<worker, child, conn, conns>>
      /\ pipe \in Seq(Requests) /\ lines \in Seq(Lines) /\ reached \in Seq(Numbers)
  BY DEF IInv, Delivered, BrowserdHandles, Taken, Types
<1>2. /\ \A i \in DOMAIN pipe' :
           i \in Nat /\ i + 1 # 1 /\ i + 1 \in DOMAIN pipe /\ pipe'[i] = pipe[i + 1]
      /\ 1 \in DOMAIN pipe /\ Head(pipe) = pipe[1]
  BY <1>1, TailIs
<1>3. PICK r : r = Head(pipe)
  OBVIOUS
<1>4. /\ r = pipe[1] /\ r.what \in Calls \cup {NoCall} /\ r.what.n \in 0 .. MaxCalls
      /\ r.conn \in Nat /\ r.id \in Nat /\ (r.what # NoCall => r.what.n # 0)
  BY <1>1, <1>2, <1>3, PipeIs
<1>5. PICK ok \in BOOLEAN :
        /\ reached' = IF ok /\ r.what # NoCall THEN Append(reached, r.what.n) ELSE reached
        /\ lines' = IF r.conn = conn.no
                    THEN Append(lines, [id |-> r.id, ok |-> ok, of |-> r.what.n])
                    ELSE lines
  BY <1>3 DEF BrowserdHandles
<1>6. \A n : HasReached(n)' <=> HasReached(n) \/ (ok /\ r.what # NoCall /\ n = r.what.n)
  <2>1. CASE ok /\ r.what # NoCall
    <3>1. r.what.n \in Numbers
      BY <1>4, <2>1, CallsAre DEF Numbers
    <3>2. /\ DOMAIN reached' = DOMAIN reached \cup {Len(reached) + 1}
          /\ Len(reached) + 1 \notin DOMAIN reached
          /\ \A i \in DOMAIN reached : reached'[i] = reached[i]
          /\ reached'[Len(reached) + 1] = r.what.n
      BY <1>1, <1>5, <2>1, <3>1, AppendIs
    <3> QED  BY <2>1, <3>2 DEF HasReached
  <2>2. CASE ~ (ok /\ r.what # NoCall)
    BY <1>5, <2>2 DEF HasReached
  <2> QED  BY <2>1, <2>2
<1>7. \A n : InPipe(n)' => InPipe(n)
  BY <1>2 DEF InPipe
<1>8. r.what # NoCall =>
        /\ InPipe(r.what.n) /\ ~ InPipe(r.what.n)'
        /\ r.what.n \in 1 .. MaxCalls
  <2> SUFFICES ASSUME r.what # NoCall
               PROVE  InPipe(r.what.n) /\ ~ InPipe(r.what.n)' /\ r.what.n \in 1 .. MaxCalls
    OBVIOUS
  <2>1. InPipe(r.what.n) /\ r.what.n # 0
    BY <1>2, <1>4 DEF InPipe
  <2>2. \A i \in DOMAIN pipe' : pipe'[i].what.n # r.what.n
    <3>1. \A i, j \in DOMAIN pipe :
            pipe[i].what.n = pipe[j].what.n /\ pipe[i].what.n # 0 => i = j
      BY <1>1 DEF Delivered, ReachedOnce
    <3>2. \A i \in DOMAIN pipe' : i \in Nat /\ i + 1 # 1
      BY <1>2
    <3> QED  BY <1>2, <1>4, <2>1, <3>1, <3>2
  <2> PICK k : k = r.what.n
    OBVIOUS
  <2>3. ~ InPipe(k)'
    BY <2>2 DEF InPipe
  <2> QED  BY <1>4, <2>1, <2>3
<1>9. ReachedOnce'
  <2>1. \A n \in 1 .. MaxCalls : HasReached(n) \/ InPipe(n) => n <= Taken
    BY <1>1 DEF Delivered, ReachedOnce
  <2>2. \A n \in 1 .. MaxCalls : ~ (HasReached(n) /\ InPipe(n))
    BY <1>1 DEF Delivered, ReachedOnce
  <2>3. \A n \in 1 .. MaxCalls : HasReached(n)' \/ InPipe(n)' => n <= Taken'
    BY <1>1, <1>6, <1>7, <1>8, <2>1
  <2>4. \A n \in 1 .. MaxCalls : ~ (HasReached(n)' /\ InPipe(n)')
    BY <1>6, <1>7, <1>8, <2>2
  <2>5. \A i, j \in DOMAIN pipe' :
          pipe'[i].what.n = pipe'[j].what.n /\ pipe'[i].what.n # 0 => i = j
    <3>1. \A i, j \in DOMAIN pipe :
            pipe[i].what.n = pipe[j].what.n /\ pipe[i].what.n # 0 => i = j
      BY <1>1 DEF Delivered, ReachedOnce
    <3> QED  BY <1>2, <3>1
  <2> PICK k : k = worker.call.n
    OBVIOUS
  <2>6. worker.pc \notin {"idle", "await call"} =>
          /\ ~ InPipe(k)
          /\ HasReached(k) =>
               worker.cold /\ worker.pc \notin {"list", "handle", "cold", "ensure", "start"}
    BY <1>1 DEF Delivered, ReachedOnce
  <2>7. worker.pc \notin {"idle", "await call"} =>
          ~ InPipe(k)' /\ (HasReached(k)' => HasReached(k))
    BY <1>6, <1>7, <1>8, <2>6
  <2>8. k = worker'.call.n /\ worker' = worker
    BY <1>1
  <2>9. worker'.pc \notin {"idle", "await call"} =>
          /\ ~ InPipe(worker.call.n)'
          /\ HasReached(worker.call.n)' =>
               worker'.cold /\ worker'.pc \notin {"list", "handle", "cold", "ensure", "start"}
    BY <2>6, <2>7, <2>8 DEF InPipe, HasReached
  <2> QED  BY <2>3, <2>4, <2>5, <2>9 DEF ReachedOnce
<1>10. HasReached(worker.call.n) => HasReached(worker.call.n)'
  <2> PICK k : k = worker.call.n /\ k = worker'.call.n
    BY <1>1
  <2> SUFFICES ASSUME HasReached(k) PROVE HasReached(k)'
    BY DEF HasReached
  <2> QED  BY <1>6
<1>11. Started'
  BY <1>1, <1>10 DEF Delivered, Started
<1>12. /\ \A i \in DOMAIN pipe' : \E j \in DOMAIN pipe : pipe'[i] = pipe[j]
       /\ \A i \in DOMAIN lines' :
            \/ \E j \in DOMAIN lines : lines'[i] = lines[j]
            \/ /\ r.conn = conn.no
               /\ lines'[i] = [id |-> r.id, ok |-> ok, of |-> r.what.n]
  <2>1. \A i \in DOMAIN pipe' : \E j \in DOMAIN pipe : pipe'[i] = pipe[j]
    BY <1>2
  <2> DEFINE line == [id |-> r.id, ok |-> ok, of |-> r.what.n]
  <2>2. line \in Lines
    BY <1>4 DEF Lines
  <2>3. CASE r.conn = conn.no
    <3>1. lines' = Append(lines, line)
      BY <1>5, <2>3
    <3> HIDE DEF line
    <3>2. /\ DOMAIN lines' = DOMAIN lines \cup {Len(lines) + 1}
          /\ lines'[Len(lines) + 1] = line
          /\ \A i \in DOMAIN lines : lines'[i] = lines[i]
      BY <1>1, <2>2, <3>1, AppendIs
    <3>3. \A i \in DOMAIN lines' :
            (\E j \in DOMAIN lines : lines'[i] = lines[j]) \/ lines'[i] = line
      BY <3>2
    <3> QED  BY <2>1, <2>3, <3>3 DEF line
  <2>4. CASE r.conn # conn.no
    BY <1>5, <2>1, <2>4
  <2> QED  BY <2>3, <2>4
<1>13. r.conn # 0 /\ (r.conn = conn.no => r.id <= conn.next_id)
  BY <1>1, <1>2, <1>4, NoConnIs DEF Delivered, Connected
<1>14. Connected'
  <2>1. \A i \in DOMAIN lines' : lines'[i].id <= conn.next_id
    <3>1. \A j \in DOMAIN lines : lines[j].id <= conn.next_id
      BY <1>1 DEF Delivered, Connected
    <3>2. ASSUME NEW i \in DOMAIN lines', r.conn = conn.no,
                 lines'[i] = [id |-> r.id, ok |-> ok, of |-> r.what.n]
          PROVE  lines'[i].id <= conn.next_id
      <4>1. lines'[i].id = r.id
        BY ONLY <3>2
      <4> QED  BY <1>13, <3>2, <4>1
    <3>3. ASSUME NEW i \in DOMAIN lines', NEW j \in DOMAIN lines, lines'[i] = lines[j]
          PROVE  lines'[i].id <= conn.next_id
      BY <3>1, <3>3
    <3> QED  BY <1>12, <3>2, <3>3
  <2>2. conn.no = 0 => lines' = <<>>
    BY <1>1, <1>5, <1>13 DEF Delivered, Connected
  <2> QED  BY <1>1, <1>12, <2>1, <2>2 DEF Delivered, Connected
<1>15. OwnAnswer'
  <2> SUFFICES ASSUME worker.pc = "await call" PROVE OwnAnswer'
    BY <1>1 DEF OwnAnswer
  <2> PICK request : request = Request /\ request = Request'
    BY <1>1 DEF Request
  <2>1. /\ \A i \in DOMAIN pipe :
             pipe[i].conn = conn.no /\ pipe[i].id = conn.next_id => pipe[i].what = request
        /\ \A i \in DOMAIN lines :
             lines[i].id = conn.next_id =>
               /\ lines[i].of = request.n
               /\ lines[i].ok /\ ~ worker.cold => HasReached(worker.call.n)
    BY <1>1 DEF Delivered, OwnAnswer
  <2>2. \A i \in DOMAIN pipe' :
          pipe'[i].conn = conn.no /\ pipe'[i].id = conn.next_id => pipe'[i].what = request
    BY <1>12, <2>1
  <2>3. r.conn = conn.no /\ r.id = conn.next_id => r.what = request
    BY <1>2, <1>4, <2>1
  <2>4. ok /\ r.what = request /\ ~ worker.cold => HasReached(worker.call.n)'
    <3> SUFFICES ASSUME ok, r.what = request, ~ worker.cold
                 PROVE  HasReached(worker.call.n)'
      OBVIOUS
    <3>1. request = worker.call /\ worker.call \in Calls
      BY <1>1 DEF Request, IInv, QueueInOrder
    <3> PICK k : k = r.what.n /\ k = worker'.call.n
      BY <1>1, <3>1
    <3>2. HasReached(k)'
      BY <1>6, <3>1, NoCallIs
    <3> QED  BY <3>2 DEF HasReached
  <2>5. \A i \in DOMAIN lines' :
          lines'[i].id = conn.next_id =>
            /\ lines'[i].of = request.n
            /\ lines'[i].ok /\ ~ worker.cold => HasReached(worker.call.n)'
    <3>1. ASSUME NEW i \in DOMAIN lines', NEW j \in DOMAIN lines, lines'[i] = lines[j],
                 lines'[i].id = conn.next_id
          PROVE  /\ lines'[i].of = request.n
                 /\ lines'[i].ok /\ ~ worker.cold => HasReached(worker.call.n)'
      BY <1>10, <2>1, <3>1
    <3>2. ASSUME NEW i \in DOMAIN lines', r.conn = conn.no,
                 lines'[i] = [id |-> r.id, ok |-> ok, of |-> r.what.n],
                 lines'[i].id = conn.next_id
          PROVE  /\ lines'[i].of = request.n
                 /\ lines'[i].ok /\ ~ worker.cold => HasReached(worker.call.n)'
      <4>1. r.id = conn.next_id /\ lines'[i].of = r.what.n /\ lines'[i].ok = ok
        BY ONLY <3>2
      <4> QED  BY <2>3, <2>4, <3>2, <4>1
    <3> QED  BY <1>12, <3>1, <3>2
  <2> QED  BY <1>1, <2>2, <2>5 DEF OwnAnswer
<1> QED  BY <1>9, <1>11, <1>14, <1>15 DEF Delivered

-----------------------------------------------------------------------------
(* The invariant *)

\* The calls and the worker; browserd and the connection.
Front == /\ queue \in Seq(Calls) /\ queued \in 0 .. MaxCalls /\ worker \in Workers
         /\ answers \in Seq(Answers) /\ Ordered
Back == /\ child \in {"none", "up", "dead"}
        /\ conn \in [no : Nat, next_id : Nat] /\ conns \in Nat
        /\ pipe \in Seq(Requests) /\ lines \in Seq(Lines) /\ reached \in Seq(Numbers)

LEMMA IInvIs == IInv <=> Front /\ Back /\ Delivered
BY DEF IInv, Front, Back, Delivered, Types, Ordered

LEMMA FrontMoves ==
  ASSUME IInv, worker' \in Workers, worker.pc # "idle", worker'.pc # "idle",
         worker'.call = worker.call, UNCHANGED <<queue, queued, answers>>
  PROVE  Front'
BY OrderedMoves DEF IInv, Types, Front, Ordered

LEMMA FrontGoes ==
  ASSUME IInv, NEW pc \in Places, pc # "idle", worker.pc # "idle", Go(pc),
         UNCHANGED <<queue, queued, answers>>
  PROVE  Front'
<1>1. worker' \in Workers /\ worker'.pc = pc /\ worker'.call = worker.call
  BY GoIs DEF IInv, Types
<1> QED  BY <1>1, FrontMoves

LEMMA FrontEnds ==
  ASSUME IInv, NEW kind \in {"no tabs", "refused", "error", "ok"}, NEW of \in 0 .. MaxCalls,
         Answer(kind, of), worker.pc # "idle", UNCHANGED <<queue, queued>>
  PROVE  Front'
<1>1. AnswersOnce
  BY AnswerIs DEF IInv
<1>2. Ordered'
  BY <1>1, OrderedAnswer DEF IInv, Ordered
<1> QED  BY <1>1, <1>2, IdleIs DEF AnswersOnce, Front, IInv, Types

LEMMA FrontFails ==
  ASSUME IInv, Fail, worker.pc # "idle", UNCHANGED <<queue, queued>>
  PROVE  Front'
<1>1. Answer("error", 0) /\ 0 \in 0 .. MaxCalls
  BY DEF Fail
<1> QED  BY <1>1, FrontEnds

LEMMA FrontWorker ==
  ASSUME IInv, WorkerStep PROVE Front'
<1>1. CASE Take
  BY <1>1, TakeIs DEF IInv, Types, Ordered, Front, Take
<1>2. CASE CheckTabList
  <2>1. CASE Running
    BY <1>2, <2>1, FrontGoes DEF CheckTabList, Places
  <2>2. CASE ~ Running
    <3>1. Answer("no tabs", 0)
      BY <1>2, <2>2, Zenon DEF CheckTabList
    <3>2. 0 \in 0 .. MaxCalls
      OBVIOUS
    <3> QED  BY <1>2, <3>1, <3>2, FrontEnds DEF CheckTabList
  <2> QED  BY <2>1, <2>2
<1>3. CASE HandleCall
  <2>1. CASE ~ Running /\ worker.call.tool \notin Openers
    <3>1. Answer("refused", 0) /\ 0 \in 0 .. MaxCalls
      BY <1>3, <2>1 DEF HandleCall
    <3> QED  BY <1>3, <3>1, FrontEnds DEF HandleCall
  <2>2. CASE ~ (~ Running /\ worker.call.tool \notin Openers)
    <3>1. worker' = [worker EXCEPT !.pc = "cold", !.url = ~Running]
          /\ worker.pc # "idle" /\ UNCHANGED <<queue, queued, answers>>
      BY <1>3, <2>2 DEF HandleCall
    <3>2. worker' \in Workers /\ worker'.pc = "cold" /\ worker'.call = worker.call
      BY <3>1 DEF IInv, Types, Workers, Places
    <3> QED  BY <3>1, <3>2, FrontMoves
  <2> QED  BY <2>1, <2>2
<1>4. CASE CheckCold
  <2>1. /\ worker' = [worker EXCEPT !.pc = "ensure", !.cold = ~Running]
        /\ worker.pc # "idle" /\ UNCHANGED <<queue, queued, answers>>
    BY <1>4 DEF CheckCold
  <2>2. worker' \in Workers /\ worker'.pc = "ensure" /\ worker'.call = worker.call
    BY <2>1 DEF IInv, Types, Workers, Places
  <2> QED  BY <2>1, <2>2, FrontMoves
<1>5. CASE Ensure
  <2>1. (Go("call") \/ Go("start")) /\ worker.pc # "idle" /\ UNCHANGED <<queue, queued, answers>>
    BY <1>5 DEF Ensure
  <2> QED  BY <2>1, FrontGoes DEF Places
<1>6. CASE Start
  <2>1. Go("connect") /\ worker.pc # "idle" /\ UNCHANGED <<queue, queued, answers>>
    BY <1>6 DEF Start
  <2> QED  BY <2>1, FrontGoes DEF Places
<1>7. CASE StartFails \/ ConnectFails \/ RpcFails
  BY <1>7, FrontFails DEF StartFails, ConnectFails, RpcFails, Awaiting
<1>8. CASE ConnectIpc
  BY <1>8, FrontGoes DEF ConnectIpc, Places
<1>9. CASE Initialize
  BY <1>9, FrontGoes DEF Initialize, Rpc, Places
<1>10. CASE CallTool
  BY <1>10, FrontGoes DEF CallTool, Rpc, Places
<1>11. CASE Ignore
  BY <1>11, FrontMoves DEF Ignore, Awaiting, IInv, Types
<1>12. CASE ReadResponse
  <2>1. worker.pc # "idle" /\ UNCHANGED <<queue, queued>> /\ lines # <<>>
    BY <1>12 DEF ReadResponse, Awaiting
  <2>2. CASE Go("call") /\ UNCHANGED answers
    BY <2>1, <2>2, FrontGoes DEF Places
  <2>3. CASE Answer("ok", Head(lines).of)
    <3>1. Head(lines) \in Lines
      BY <2>1, TailIs DEF IInv, Types
    <3>2. Head(lines).of \in 0 .. MaxCalls
      BY <3>1 DEF Lines
    <3> QED  BY <2>1, <2>3, <3>2, FrontEnds
  <2>4. CASE Fail
    BY <2>1, <2>4, FrontFails
  <2> QED  BY <1>12, <2>2, <2>3, <2>4 DEF ReadResponse
<1> QED  BY <1>1, <1>2, <1>3, <1>4, <1>5, <1>6, <1>7, <1>8, <1>9, <1>10, <1>11, <1>12
         DEF WorkerStep

LEMMA FrontNext ==
  ASSUME IInv, Next PROVE Front'
<1>1. ASSUME NEW tool \in Tools, HandleToolAsync(tool) PROVE Front'
  BY <1>1, OrderedQueue DEF IInv, Types, Ordered, Front, HandleToolAsync
<1>2. CASE WorkerStep
  BY <1>2, FrontWorker
<1>3. CASE BrowserdHandles \/ BrowserdNotifies
  BY <1>3 DEF BrowserdHandles, BrowserdNotifies, IInv, Types, Front, Ordered, QueueInOrder,
              AnsweredOnce, AnsweredAll, IsAnswered, Taken
<1>4. CASE BrowserdExits
  <2>1. /\ worker' = IF worker.pc = "idle" THEN worker ELSE [worker EXCEPT !.exited = TRUE]
        /\ UNCHANGED <<queue, queued, answers>> /\ worker \in Workers
    BY <1>4 DEF BrowserdExits, IInv, Types
  <2>2. CASE worker.pc = "idle"
    BY <2>1, <2>2 DEF IInv, Types, Front, Ordered, QueueInOrder, AnsweredOnce, AnsweredAll,
                      IsAnswered, Taken
  <2>3. CASE worker.pc # "idle"
    <3>1. worker' \in Workers /\ worker'.pc = worker.pc /\ worker'.call = worker.call
      BY <2>1, <2>3 DEF Workers
    <3> QED  BY <2>1, <2>3, <3>1, FrontMoves
  <2> QED  BY <2>2, <2>3
<1> QED  BY <1>1, <1>2, <1>3, <1>4 DEF Next

LEMMA NothingHeld ==
  /\ NoConn \in [no : Nat, next_id : Nat] /\ <<>> \in Seq(Lines) /\ <<>> \in Seq(Requests)
BY EmptyIs DEF NoConn

LEMMA BackWorker ==
  ASSUME IInv, WorkerStep PROVE Back'
<1> USE NothingHeld DEF IInv, Types, Back
<1>1. CASE Take
  BY <1>1 DEF Take, browserd
<1>2. CASE CheckTabList \/ HandleCall \/ CheckCold
  <2>1. Poll /\ UNCHANGED <<conns, pipe, reached>>
    BY <1>2 DEF CheckTabList, HandleCall, CheckCold
  <2> QED  BY <2>1, PollIs
<1>5. CASE Ensure
  BY <1>5 DEF Ensure
<1>6. CASE Start
  <2>1. CASE Running
    BY <1>6, <2>1 DEF Start
  <2>2. CASE ~ Running
    <3>1. /\ child' = "up" /\ pipe' = <<>> /\ UNCHANGED <<conn, conns, lines>>
          /\ reached' = IF worker.url THEN Append(reached, worker.call.n) ELSE reached
      BY <1>6, <2>2 DEF Start
    <3>2. worker.call.n \in Numbers
      BY <1>6, CallsAre DEF Start, QueueInOrder, Numbers
    <3>3. reached' \in Seq(Numbers)
      BY <3>1, <3>2, AppendIs
    <3> QED  BY <3>1, <3>3
  <2> QED  BY <2>1, <2>2
<1>7. CASE StartFails \/ ConnectFails \/ RpcFails
  BY <1>7 DEF StartFails, ConnectFails, RpcFails, Fail
<1>8. CASE ConnectIpc
  BY <1>8 DEF ConnectIpc, browserd
<1>9. CASE Initialize
  <2>1. Requested
    BY <1>9, RpcIs DEF Initialize
  <2> QED  BY <1>9, <2>1 DEF Requested, Initialize
<1>10. CASE CallTool
  <2>1. Request \in Calls \cup {NoCall}
    BY <1>10 DEF Request, QueueInOrder, CallTool
  <2>2. Requested
    BY <1>10, <2>1, RpcIs DEF CallTool
  <2> QED  BY <1>10, <2>2 DEF Requested, CallTool
<1>11. CASE Ignore
  BY <1>11, ReadIs DEF Ignore
<1>12. CASE ReadResponse
  <2>1. UNCHANGED <<conns, child, pipe, reached>> /\ lines # <<>>
    BY <1>12 DEF ReadResponse
  <2>2. \/ lines' = Tail(lines) /\ conn' = conn
        \/ lines' = <<>> /\ conn' = NoConn
    BY <1>12 DEF ReadResponse, Fail
  <2> QED  BY <2>1, <2>2, ReadIs
<1> QED  BY <1>1, <1>2, <1>5, <1>6, <1>7, <1>8, <1>9, <1>10, <1>11, <1>12
         DEF WorkerStep

LEMMA BackNext ==
  ASSUME IInv, Next PROVE Back'
<1>1. CASE WorkerStep
  BY <1>1, BackWorker
<1>2. CASE \E tool \in Tools : HandleToolAsync(tool)
  BY <1>2 DEF HandleToolAsync, browserd, IInv, Types, Back
<1>3. CASE BrowserdHandles
  <2>1. /\ pipe \in Seq(Requests) /\ pipe # <<>> /\ pipe' = Tail(pipe)
        /\ UNCHANGED <<child, conn, conns>>
        /\ lines \in Seq(Lines) /\ reached \in Seq(Numbers)
    BY <1>3 DEF BrowserdHandles, IInv, Types
  <2>2. pipe' \in Seq(Requests) /\ Head(pipe) \in Requests
    BY <2>1, TailIs
  <2>3. PICK r \in Requests : r = Head(pipe)
    BY <2>2
  <2>4. PICK ok \in BOOLEAN :
        /\ reached' = IF ok /\ r.what # NoCall THEN Append(reached, r.what.n) ELSE reached
        /\ lines' = IF r.conn = conn.no
                    THEN Append(lines, [id |-> r.id, ok |-> ok, of |-> r.what.n])
                    ELSE lines
    BY <1>3, <2>3 DEF BrowserdHandles
  <2>5. r.what # NoCall => r.what.n \in Numbers
    BY <2>3, CallsAre DEF Requests, Numbers
  <2>6. reached' \in Seq(Numbers)
    BY <2>1, <2>4, <2>5, AppendIs
  <2>7. r.what.n \in 0 .. MaxCalls /\ r.id \in Nat
    BY <2>3, CallsAre, NoCallIs DEF Requests
  <2> DEFINE line == [id |-> r.id, ok |-> ok, of |-> r.what.n]
  <2>8. line \in Lines
    BY <2>7 DEF Lines
  <2>9. lines' = IF r.conn = conn.no THEN Append(lines, line) ELSE lines
    BY <2>4
  <2> HIDE DEF line
  <2>10. lines' \in Seq(Lines)
    BY <2>1, <2>8, <2>9, AppendIs
  <2> QED  BY <2>1, <2>2, <2>6, <2>10 DEF Back, IInv, Types
<1>4. CASE BrowserdNotifies
  <2> DEFINE line == [id |-> 0, ok |-> TRUE, of |-> 0]
  <2>1. lines' = Append(lines, line) /\ line \in Lines /\ lines \in Seq(Lines)
    BY <1>4 DEF BrowserdNotifies, Lines, IInv, Types
  <2> HIDE DEF line
  <2>2. lines' \in Seq(Lines)
    BY <2>1, AppendIs
  <2> QED  BY <1>4, <2>2 DEF BrowserdNotifies, Back, IInv, Types
<1>5. CASE BrowserdExits
  BY <1>5, NothingHeld DEF BrowserdExits, Back, IInv, Types
<1> QED  BY <1>1, <1>2, <1>3, <1>4, <1>5 DEF Next

LEMMA DeliveredWorker ==
  ASSUME IInv, WorkerStep PROVE Delivered'
<1>1. CASE Take
  BY <1>1, DeliveredTake DEF IInv, Ordered, Delivered
<1>2. CASE CheckTabList \/ HandleCall \/ CheckCold \/ Ensure \/ Start
  BY <1>2, DeliveredCheckTabList, DeliveredHandleCall, DeliveredCheckCold, DeliveredEnsure,
     DeliveredStart
<1>3. CASE StartFails \/ ConnectFails \/ RpcFails
  BY <1>3, DeliveredFails DEF StartFails, ConnectFails, RpcFails
<1>4. CASE ConnectIpc \/ Initialize \/ CallTool \/ Ignore \/ ReadResponse
  BY <1>4, DeliveredConnectIpc, DeliveredInitialize, DeliveredCallTool, DeliveredIgnore,
     DeliveredReadResponse
<1> QED  BY <1>1, <1>2, <1>3, <1>4 DEF WorkerStep

LEMMA DeliveredNext ==
  ASSUME IInv, Next PROVE Delivered'
<1>1. ASSUME NEW tool \in Tools, HandleToolAsync(tool) PROVE Delivered'
  <2>1. Taken' = Taken /\ UNCHANGED <<worker, child, conn, conns, pipe, lines, reached>>
    BY <1>1, OrderedQueue DEF HandleToolAsync, browserd, IInv, Ordered
  <2>2. ReachedOnce'
    BY <2>1 DEF IInv, ReachedOnce, HasReached, InPipe
  <2>3. Started' /\ Connected' /\ OwnAnswer'
    BY <2>1 DEF IInv, Started, Connected, OwnAnswer, HasReached, Request
  <2> QED  BY <2>2, <2>3 DEF Delivered
<1>2. CASE WorkerStep
  BY <1>2, DeliveredWorker
<1>3. CASE BrowserdHandles \/ BrowserdNotifies \/ BrowserdExits
  BY <1>3, DeliveredHandles, DeliveredNotifies, DeliveredExits
<1> QED  BY <1>1, <1>2, <1>3 DEF Next

\* The inductive invariant: calls are taken in order, none reaches browserd
\* twice, and a line with the number waited for is the answer to this request.
THEOREM Invariance == Spec => []IInv
<1>1. IInv /\ [Next]_vars => IInv'
  <2>1. ASSUME IInv, Next PROVE IInv'
    BY <2>1, FrontNext, BackNext, DeliveredNext, IInvIs DEF IInv, Front, Back, Delivered, Types, Ordered
  <2>2. ASSUME IInv, UNCHANGED vars PROVE IInv'
    <3>1. Types' /\ QueueInOrder' /\ AnsweredOnce' /\ AnsweredAll'
      BY <2>2 DEF vars, IInv, Types, QueueInOrder, AnsweredOnce, AnsweredAll, IsAnswered, Taken
    <3>2. ReachedOnce' /\ Started'
      BY <2>2 DEF vars, IInv, ReachedOnce, Started, HasReached, InPipe, Taken
    <3>3. Connected' /\ OwnAnswer'
      BY <2>2 DEF vars, IInv, Connected, OwnAnswer, HasReached, Request
    <3> QED  BY <3>1, <3>2, <3>3 DEF IInv
  <2> QED  BY <2>1, <2>2
<1> QED  BY <1>1, InitIInv, PTL DEF Spec

\* A call that was queued waits, is the one the worker is at, or is answered: no
\* error, lost connection or exit of browserd makes the worker drop one
\* (handle_tool_async and the worker's loop).
CallsAreKept ==
  \A n \in 1 .. queued :
    \/ \E i \in DOMAIN queue : queue[i].n = n
    \/ worker.pc # "idle" /\ worker.call.n = n
    \/ IsAnswered(n)

\* For any number of calls, exits and notifications, no call is lost.
THEOREM NoCallIsLost == Spec => []CallsAreKept
<1>1. ASSUME IInv, NEW n \in 1 .. queued
      PROVE  \/ \E i \in DOMAIN queue : queue[i].n = n
             \/ worker.pc # "idle" /\ worker.call.n = n
             \/ IsAnswered(n)
  <2>1. /\ Taken \in Int /\ Len(queue) \in Nat /\ queued \in Nat
        /\ Taken = queued - Len(queue) /\ queue \in Seq(Calls) /\ 0 <= Taken
    BY <1>1, TakenIs DEF IInv, Taken, Types
  <2>2. CASE n <= Taken
    BY <1>1, <2>1, <2>2 DEF IInv, AnsweredAll, QueueInOrder
  <2>3. CASE n > Taken
    <3>1. n - Taken \in DOMAIN queue
      BY <2>1, <2>3
    <3>2. queue[n - Taken].n = Taken + (n - Taken)
      BY <1>1, <3>1 DEF IInv, QueueInOrder
    <3> QED  BY <2>1, <3>1, <3>2
  <2> QED  BY <2>1, <2>2, <2>3
<1>2. IInv => CallsAreKept
  BY <1>1 DEF CallsAreKept
<1> QED  BY <1>2, Invariance, PTL

-----------------------------------------------------------------------------
(* The worker and browserd implement CallService *)

\* What CallService sees of an answer.
Given(a) == [call |-> a.call.n, result |-> ResultOf(a)]
GivenAll(s) == [i \in DOMAIN s |-> Given(s[i])]
ServiceAnswers == [call : Numbers, result : 0 .. MaxCalls]

\* A sequence is what it is before its last element, and that element.
LEMMA AppendEqual ==
  ASSUME NEW S, NEW s \in Seq(S), NEW x \in S, NEW t \in Seq(S),
         Len(t) = Len(s) + 1, t[Len(s) + 1] = x,
         \A i \in 1 .. Len(s) : t[i] = s[i]
  PROVE  t = Append(s, x)
<1>1. /\ Append(s, x) \in Seq(S) /\ Len(Append(s, x)) = Len(t) /\ Len(s) \in Nat
      /\ \A i \in 1 .. Len(s) : Append(s, x)[i] = s[i]
      /\ Append(s, x)[Len(s) + 1] = x
  BY AppendProperties
<1>2. \A i \in 1 .. Len(t) : t[i] = Append(s, x)[i]
  BY <1>1
<1> QED  BY <1>1, <1>2, SeqEqual

LEMMA GivenType ==
  ASSUME NEW a \in Answers PROVE Given(a) \in ServiceAnswers
<1>1. a.call.n \in Numbers /\ a.of \in 0 .. MaxCalls
  BY DEF Answers, Calls
<1>2. ResultOf(a) \in 0 .. MaxCalls
  BY <1>1 DEF ResultOf, Numbers
<1> QED  BY <1>1, <1>2 DEF Given, ServiceAnswers

LEMMA GivenAllIs ==
  ASSUME NEW s \in Seq(Answers)
  PROVE  /\ GivenAll(s) \in Seq(ServiceAnswers) /\ Len(GivenAll(s)) = Len(s)
         /\ \A i \in 1 .. Len(s) : GivenAll(s)[i] = Given(s[i])
         /\ Len(s) \in Nat
<1>1. Len(s) \in Nat /\ DOMAIN s = 1 .. Len(s) /\ \A i \in 1 .. Len(s) : s[i] \in Answers
  OBVIOUS
<1>2. \A i \in 1 .. Len(s) : Given(s[i]) \in ServiceAnswers
  BY <1>1, GivenType
<1> QED  BY <1>1, <1>2, IsASeq DEF GivenAll

LEMMA GivenOneMore ==
  ASSUME NEW s \in Seq(Answers), NEW a \in Answers
  PROVE  GivenAll(Append(s, a)) = Append(GivenAll(s), Given(a))
<1> DEFINE t == Append(s, a)
<1>1. /\ t \in Seq(Answers) /\ Len(t) = Len(s) + 1 /\ t[Len(s) + 1] = a
      /\ \A i \in 1 .. Len(s) : t[i] = s[i]
  BY AppendProperties
<1> HIDE DEF t
<1>2. /\ GivenAll(s) \in Seq(ServiceAnswers) /\ Len(GivenAll(s)) = Len(s)
      /\ \A i \in 1 .. Len(s) : GivenAll(s)[i] = Given(s[i])
      /\ Len(s) \in Nat /\ Given(a) \in ServiceAnswers
  BY GivenAllIs, GivenType
<1>3. /\ GivenAll(t) \in Seq(ServiceAnswers) /\ Len(GivenAll(t)) = Len(t)
      /\ \A i \in 1 .. Len(t) : GivenAll(t)[i] = Given(t[i])
  BY <1>1, GivenAllIs
<1>4. /\ Len(GivenAll(t)) = Len(GivenAll(s)) + 1
      /\ GivenAll(t)[Len(GivenAll(s)) + 1] = Given(a)
      /\ \A i \in 1 .. Len(GivenAll(s)) : GivenAll(t)[i] = GivenAll(s)[i]
  BY <1>1, <1>2, <1>3
<1>5. GivenAll(t) = Append(GivenAll(s), Given(a))
  BY <1>2, <1>3, <1>4, AppendEqual
<1> QED  BY <1>5 DEF t

\* What the abstract specification sees.
LEMMA ServiceSees ==
  /\ Service!service = <<reached, GivenAll(answers)>>
  /\ \A n : n \in Service!Done <=> HasReached(n)
  /\ \A n : n \in Service!Answered <=> \E i \in DOMAIN answers : answers[i].call.n = n
<1>1. Service!service = <<reached, GivenAll(answers)>>
  BY DEF Service!service, GivenAll, Given
<1>2. \A n : n \in Service!Done <=> HasReached(n)
  BY DEF Service!Done, HasReached
<1>3. Service!Answered = {GivenAll(answers)[i].call : i \in DOMAIN GivenAll(answers)}
  BY DEF Service!Answered, GivenAll, Given
<1>4. DOMAIN GivenAll(answers) = DOMAIN answers
      /\ \A i \in DOMAIN answers : GivenAll(answers)[i].call = answers[i].call.n
  BY DEF GivenAll, Given
<1> QED  BY <1>1, <1>2, <1>3, <1>4

LEMMA ServiceDoes ==
  ASSUME NEW n \in Numbers, Service!CarryOut(n) \/ Service!Succeed(n) \/ Service!Decline(n)
  PROVE  Service!ServiceNext
BY DEF Service!ServiceNext, Numbers

\* A url or a call that browserd has not acted on before.
LEMMA CarryOutStep ==
  ASSUME NEW n \in Numbers, ~ HasReached(n), reached' = Append(reached, n), UNCHANGED answers
  PROVE  Service!ServiceNext
<1>1. Service!CarryOut(n)
  BY ServiceSees DEF Service!CarryOut
<1> QED  BY <1>1, ServiceDoes

\* The call that is answered has no answer yet.
LEMMA AnswerStep ==
  ASSUME IInv, worker.pc # "idle", UNCHANGED reached,
         NEW kind \in {"no tabs", "refused", "error", "ok"}, NEW of \in 0 .. MaxCalls,
         Answer(kind, of),
         kind = "ok" /\ ~ worker.exited =>
           \/ of = worker.call.n /\ HasReached(worker.call.n)
           \/ of = 0 /\ (worker.call.tool \in Openers => HasReached(worker.call.n))
  PROVE  Service!ServiceNext
<1> DEFINE a == [call |-> worker.call, kind |-> kind, of |-> of, exited |-> worker.exited]
<1>1. /\ worker.call \in Calls /\ worker.call.n \in Numbers /\ worker.call.n # 0
      /\ answers \in Seq(Answers) /\ a \in Answers /\ answers' = Append(answers, a)
  BY CallsAre DEF IInv, Types, QueueInOrder, Answers, Workers, Answer, Numbers
<1>2. worker.call.n \notin Service!Answered
  BY ServiceSees DEF IInv, AnsweredOnce
<1>3. /\ ResultOf(a) = 0 \/ (ResultOf(a) = worker.call.n /\ HasReached(worker.call.n))
      /\ Given(a) = [call |-> worker.call.n, result |-> ResultOf(a)]
  BY <1>1 DEF ResultOf, Given
<1> HIDE DEF a
<1>4. GivenAll(answers') = Append(GivenAll(answers), [call |-> worker.call.n, result |-> ResultOf(a)])
  BY <1>1, <1>3, GivenOneMore
<1> PICK n \in Numbers : n = worker.call.n
  BY <1>1
<1>5. CASE ResultOf(a) = 0
  <2>1. Service!Decline(n)
    BY <1>2, <1>4, <1>5 DEF Service!Decline, Service!NoResult, GivenAll, Given
  <2> QED  BY <2>1, ServiceDoes
<1>6. CASE ResultOf(a) = worker.call.n /\ HasReached(worker.call.n)
  <2>1. Service!Succeed(n)
    BY <1>2, <1>4, <1>6, ServiceSees DEF Service!Succeed, GivenAll, Given
  <2> QED  BY <2>1, ServiceDoes
<1> QED  BY <1>3, <1>5, <1>6

LEMMA ZeroIs == 0 \in 0 .. MaxCalls
OBVIOUS

\* A failure or a refusal promises nothing.
LEMMA DeclineStep ==
  ASSUME IInv, worker.pc # "idle", UNCHANGED reached,
         Answer("no tabs", 0) \/ Answer("refused", 0) \/ Answer("error", 0)
  PROVE  Service!ServiceNext
BY ZeroIs, AnswerStep

\* A success: the line read is the answer to the call, which browserd has acted
\* on, or the tab list, browserd having been started with the call's url.
LEMMA ReadServes ==
  ASSUME IInv, ReadResponse
  PROVE  Service!ServiceNext \/ UNCHANGED <<reached, answers>>
<1>1. /\ worker.pc \in {"await initialize", "await call"} /\ lines # <<>> /\ UNCHANGED reached
      /\ Head(lines).id = conn.next_id
  BY DEF ReadResponse, Awaiting, Matches
<1>2. CASE Head(lines).ok /\ worker.pc = "await call" /\ Answer("ok", Head(lines).of)
  <2>1. lines \in Seq(Lines)
    BY DEF IInv, Types
  <2>2. 1 \in DOMAIN lines /\ Head(lines) = lines[1]
    BY <1>1, <2>1, TailIs
  <2>3. /\ Head(lines).of \in 0 .. MaxCalls /\ Head(lines).of = Request.n
        /\ ~ worker.cold => HasReached(worker.call.n)
    BY <1>1, <1>2, <2>2, LinesAre DEF IInv, OwnAnswer
  <2>4. worker.cold /\ ~ worker.exited => HasReached(worker.call.n)
    BY <1>2 DEF IInv, Started
  <2>5. Request.n = IF worker.cold THEN 0 ELSE worker.call.n
    BY NoCallIs DEF Request
  <2> QED  BY <1>1, <1>2, <2>3, <2>4, <2>5, AnswerStep
<1>3. CASE Fail
  BY <1>1, <1>3, DeclineStep DEF Fail
<1> QED  BY <1>1, <1>2, <1>3 DEF ReadResponse

LEMMA WorkerServes ==
  ASSUME IInv, WorkerStep
  PROVE  Service!ServiceNext \/ UNCHANGED <<reached, answers>>
<1>1. CASE CheckTabList \/ HandleCall
  <2>1. /\ worker.pc # "idle" /\ UNCHANGED reached
        /\ UNCHANGED answers \/ Answer("no tabs", 0) \/ Answer("refused", 0)
    BY <1>1 DEF CheckTabList, HandleCall
  <2> QED  BY <2>1, DeclineStep
<1>2. CASE StartFails \/ ConnectFails \/ RpcFails
  <2>1. worker.pc # "idle" /\ UNCHANGED reached /\ Answer("error", 0)
    BY <1>2 DEF StartFails, ConnectFails, RpcFails, Fail, Awaiting
  <2> QED  BY <2>1, DeclineStep
<1>3. CASE Start
  <2>1. CASE worker.url /\ ~ Running
    <3>1. /\ reached' = Append(reached, worker.call.n) /\ UNCHANGED answers
          /\ worker.pc = "start"
      BY <1>3, <2>1 DEF Start
    <3>2. worker.call.n \in Numbers /\ ~ HasReached(worker.call.n)
      BY <3>1, CallsAre DEF IInv, QueueInOrder, ReachedOnce, Numbers
    <3> QED  BY <3>1, <3>2, CarryOutStep
  <2>2. CASE ~ (worker.url /\ ~ Running)
    BY <1>3, <2>2 DEF Start
  <2> QED  BY <2>1, <2>2
<1>4. CASE ReadResponse
  BY <1>4, ReadServes
<1>5. CASE Take \/ CheckCold \/ Ensure \/ ConnectIpc \/ Initialize \/ CallTool \/ Ignore
  BY <1>5 DEF Take, CheckCold, Ensure, ConnectIpc, Initialize, CallTool, Ignore, browserd
<1> QED  BY <1>1, <1>2, <1>3, <1>4, <1>5 DEF WorkerStep

LEMMA BrowserdServes ==
  ASSUME IInv, BrowserdHandles
  PROVE  Service!ServiceNext \/ UNCHANGED <<reached, answers>>
<1>1. pipe \in Seq(Requests) /\ pipe # <<>> /\ UNCHANGED answers
  BY DEF IInv, Types, BrowserdHandles
<1>2. 1 \in DOMAIN pipe /\ Head(pipe) = pipe[1]
  BY <1>1, TailIs
<1>3. CASE UNCHANGED reached
  BY <1>1, <1>3
<1>4. CASE Head(pipe).what # NoCall /\ reached' = Append(reached, Head(pipe).what.n)
  <2>1. Head(pipe).what.n \in 1 .. MaxCalls
    BY <1>2, <1>4, PipeIs, CallsAre DEF IInv
  <2>2. InPipe(Head(pipe).what.n)
    BY <1>2 DEF InPipe
  <2>3. ~ HasReached(Head(pipe).what.n)
    BY <2>1, <2>2 DEF IInv, ReachedOnce
  <2> QED  BY <1>1, <1>4, <2>1, <2>3, CarryOutStep DEF Numbers
<1> QED  BY <1>3, <1>4 DEF BrowserdHandles

\* The worker and browserd implement CallService, for any number of calls,
\* exits of browserd, lost answers and notifications: browserd acts at most
\* once on a call, as its startup url or as a request, and a success is the
\* call's own result, browserd having acted on it.
THEOREM BrowserImplementsCallService == Spec => ImplementsCallService
<1>1. Init => Service!ServiceInit
  BY EmptyIs DEF Init, Service!ServiceInit
<1>2. IInv /\ [Next]_vars => [Service!ServiceNext]_(Service!service)
  <2>1. ASSUME UNCHANGED <<reached, answers>> PROVE UNCHANGED Service!service
    BY <2>1 DEF Service!service
  <2>2. ASSUME IInv, Next PROVE Service!ServiceNext \/ UNCHANGED <<reached, answers>>
    <3>1. CASE BrowserdNotifies \/ BrowserdExits \/ \E tool \in Tools : HandleToolAsync(tool)
      BY <3>1 DEF BrowserdNotifies, BrowserdExits, HandleToolAsync, browserd
    <3> QED  BY <2>2, <3>1, WorkerServes, BrowserdServes DEF Next
  <2>3. ASSUME UNCHANGED vars PROVE UNCHANGED <<reached, answers>>
    BY <2>3 DEF vars
  <2> QED  BY <2>1, <2>2, <2>3
<1> QED  BY <1>1, <1>2, Invariance, PTL
    DEF Spec, ImplementsCallService, Service!ServiceSpec
=============================================================================
