------------------------------- MODULE Browser -------------------------------
(***************************************************************************)
(* The browser service of the guest compositor                             *)
(* (apc-compositor/src/browser.rs): one worker thread that takes browser   *)
(* tool calls from a queue, starts browserd when a call may open a tab,    *)
(* connects to its socket, initializes MCP and passes the call on.         *)
(* browserd may exit at any moment; the worker learns of it only when it   *)
(* polls the child, which it does up to six times per call.                *)
(*                                                                         *)
(* A call is its number and its tool: "navigate" and "tab_new" (the two    *)
(* that open a tab, here always with a url), "tab_list" or "click", which  *)
(* stands for every other tool.                                            *)
(***************************************************************************)
EXTENDS Naturals, Sequences, FiniteSets

CONSTANTS
    Tools,      \* the tools the clients call
    MaxCalls,   \* bound: calls queued
    MaxExits,   \* bound: times browserd exits
    MaxNotes    \* bound: notifications browserd sends of its own accord

ASSUME ToolsAssumption == Tools \subseteq {"navigate", "tab_new", "tab_list", "click"}
ASSUME BoundsAssumption == MaxCalls \in Nat /\ MaxExits \in Nat /\ MaxNotes \in Nat

VARIABLES
    queue,      \* calls the worker has yet to take
    queued,     \* number of calls queued so far
    worker,     \* the worker: its place, its call, startup_url and cold_start
    child,      \* browserd: "none", "up", or "dead" and not yet polled
    conn,       \* the connection: its number, 0 for none, and its next_id
    conns,      \* connections made so far
    pipe,       \* requests browserd has yet to handle
    lines,      \* lines of the connection the worker has yet to read
    reached,    \* calls whose url or request browserd has acted on, in order
    answers,    \* answers given, per call (history)
    exits,      \* times browserd exited
    notes       \* notifications sent

browserd == <<child, pipe, lines, reached, exits, notes>>
vars == <<queue, queued, worker, child, conn, conns, pipe, lines, reached,
          answers, exits, notes>>

Openers == {"navigate", "tab_new"}
NoCall == [n |-> 0, tool |-> "none"]
NoConn == [no |-> 0, next_id |-> 0]
Idle == [pc |-> "idle", call |-> NoCall, url |-> FALSE, cold |-> FALSE, exited |-> FALSE]

Init ==
    /\ queue = <<>> /\ queued = 0 /\ worker = Idle
    /\ child = "none" /\ conn = NoConn /\ conns = 0
    /\ pipe = <<>> /\ lines = <<>>
    /\ reached = <<>> /\ answers = <<>>
    /\ exits = 0 /\ notes = 0

\* handle_tool_async; the worker never ends, so the send succeeds.
HandleToolAsync(tool) ==
    /\ queued < MaxCalls
    /\ queued' = queued + 1
    /\ queue' = Append(queue, [n |-> queued + 1, tool |-> tool])
    /\ UNCHANGED <<worker, conn, conns, browserd, answers>>

-----------------------------------------------------------------------------
(* The worker *)

Take ==
    /\ worker.pc = "idle" /\ queue # <<>>
    /\ queue' = Tail(queue)
    /\ worker' = [Idle EXCEPT !.pc = IF Head(queue).tool = "tab_list" THEN "list" ELSE "handle",
                              !.call = Head(queue)]
    /\ UNCHANGED <<queued, conn, conns, browserd, answers>>

Running == child = "up"

\* is_browserd_running: a child that has exited is forgotten, and with it the
\* connection.
Poll ==
    IF child = "dead" THEN child' = "none" /\ conn' = NoConn /\ lines' = <<>>
    ELSE UNCHANGED <<child, conn, lines>>

Answer(kind, of) ==
    /\ answers' = Append(answers, [call |-> worker.call, kind |-> kind, of |-> of,
                                   exited |-> worker.exited])
    /\ worker' = Idle

Go(pc) == worker' = [worker EXCEPT !.pc = pc]

CheckTabList ==
    /\ worker.pc = "list"
    /\ Poll
    /\ IF Running THEN Go("handle") /\ UNCHANGED answers
       ELSE Answer("no tabs", 0)
    /\ UNCHANGED <<queue, queued, conns, pipe, reached, exits, notes>>

HandleCallDropsUrl ==
    /\ worker.pc = "handle"
    /\ Poll
    /\ IF ~Running /\ worker.call.tool \notin Openers
       THEN Answer("refused", 0)
       ELSE Go("cold") /\ UNCHANGED answers
    /\ UNCHANGED <<queue, queued, conns, pipe, reached, exits, notes>>

HandleCall ==
    /\ worker.pc = "handle"
    /\ Poll
    /\ IF ~Running /\ worker.call.tool \notin Openers
       THEN Answer("refused", 0)
       ELSE /\ worker' = [worker EXCEPT !.pc = "cold", !.url = ~Running]
            /\ UNCHANGED answers
    /\ UNCHANGED <<queue, queued, conns, pipe, reached, exits, notes>>

\* cold_start is read anew, after the check that decided on startup_url.
CheckCold ==
    /\ worker.pc = "cold"
    /\ Poll
    /\ worker' = [worker EXCEPT !.pc = "ensure", !.cold = ~Running]
    /\ UNCHANGED <<queue, queued, conns, pipe, reached, answers, exits, notes>>

Ensure ==
    /\ worker.pc = "ensure"
    /\ IF conn # NoConn /\ Running
       THEN Go("call") /\ UNCHANGED <<child, conn, lines>>
       ELSE /\ Go("start")
            /\ conn' = NoConn /\ lines' = <<>>
            /\ child' = IF conn # NoConn /\ child = "dead" THEN "none" ELSE child
    /\ UNCHANGED <<queue, queued, conns, pipe, reached, answers, exits, notes>>

\* An error of any step: the connection is dropped, the child is kept.
Fail ==
    /\ Answer("error", 0)
    /\ conn' = NoConn /\ lines' = <<>>

\* start_browserd: browserd opens the startup url, or about:blank.
Start ==
    /\ worker.pc = "start"
    /\ UNCHANGED <<queue, queued, conn, conns, lines, exits, notes>>
    /\ \/ /\ Running
          /\ Go("connect")
          /\ UNCHANGED <<child, pipe, reached, answers>>
       \/ /\ ~Running
          /\ child' = "up" /\ pipe' = <<>>
          /\ reached' = IF worker.url THEN Append(reached, worker.call.n) ELSE reached
          /\ Go("connect")
          /\ UNCHANGED answers

\* The binary or its directories cannot be used, or spawn fails.
StartFails ==
    /\ worker.pc = "start" /\ ~Running
    /\ child' = "none"
    /\ Fail
    /\ UNCHANGED <<queue, queued, conns, pipe, reached, exits, notes>>

Rpc(what, pc) ==
    /\ conn' = [conn EXCEPT !.next_id = @ + 1]
    /\ pipe' = Append(pipe, [conn |-> conn.no, id |-> conn.next_id + 1, what |-> what])
    /\ Go(pc)

\* connect_ipc succeeds when browserd listens; until then it tries again.
ConnectIpc ==
    /\ worker.pc = "connect" /\ Running
    /\ conns' = conns + 1
    /\ conn' = [no |-> conns + 1, next_id |-> 0]
    /\ Go("initialize")
    /\ UNCHANGED <<queue, queued, browserd, answers>>

\* browserd exited, or thirty seconds have passed.
ConnectFails ==
    /\ worker.pc = "connect"
    /\ Fail
    /\ child' = IF child = "dead" THEN "none" ELSE child
    /\ UNCHANGED <<queue, queued, conns, pipe, reached, exits, notes>>

Initialize ==
    /\ worker.pc = "initialize"
    /\ Rpc(NoCall, "await initialize")
    /\ UNCHANGED <<queue, queued, conns, child, lines, reached, answers, exits, notes>>

RequestAlwaysTheCall == worker.call

\* After a cold start the tab list is asked for instead of the call.
Request == IF worker.cold THEN NoCall ELSE worker.call

CallTool ==
    /\ worker.pc = "call"
    /\ Rpc(Request, "await call")
    /\ UNCHANGED <<queue, queued, conns, child, lines, reached, answers, exits, notes>>

MatchesAny(line) == TRUE

Matches(line) == line.id = conn.next_id

Awaiting == worker.pc \in {"await initialize", "await call"}

Ignore ==
    /\ Awaiting /\ lines # <<>> /\ ~Matches(Head(lines))
    /\ lines' = Tail(lines)
    /\ UNCHANGED <<queue, queued, worker, conn, conns, child, pipe, reached,
                   answers, exits, notes>>

ReadResponse ==
    /\ Awaiting /\ lines # <<>> /\ Matches(Head(lines))
    /\ LET line == Head(lines)
       IN  \/ /\ line.ok /\ worker.pc = "await initialize"
              /\ Go("call") /\ lines' = Tail(lines)
              /\ UNCHANGED <<conn, answers>>
           \/ /\ line.ok /\ worker.pc = "await call"
              /\ Answer("ok", line.of) /\ lines' = Tail(lines)
              /\ UNCHANGED conn
           \/ ~line.ok /\ Fail
    /\ UNCHANGED <<queue, queued, conns, child, pipe, reached, exits, notes>>

RpcNeverFails == FALSE /\ UNCHANGED vars

\* The read timeout, or the end of the connection.
RpcFails ==
    /\ Awaiting /\ lines = <<>>
    /\ Fail
    /\ UNCHANGED <<queue, queued, conns, child, pipe, reached, exits, notes>>

WorkerStep ==
    \/ Take \/ CheckTabList \/ HandleCall \/ CheckCold \/ Ensure
    \/ Start \/ StartFails \/ ConnectIpc \/ ConnectFails
    \/ Initialize \/ CallTool \/ Ignore \/ ReadResponse \/ RpcFails

-----------------------------------------------------------------------------
(* browserd *)

\* It acts on a request even if the worker has dropped its connection since.
BrowserdHandles ==
    /\ Running /\ pipe # <<>>
    /\ LET r == Head(pipe)
       IN  \E ok \in BOOLEAN :
             /\ reached' = IF ok /\ r.what # NoCall THEN Append(reached, r.what.n) ELSE reached
             /\ lines' = IF r.conn = conn.no
                         THEN Append(lines, [id |-> r.id, ok |-> ok, of |-> r.what.n])
                         ELSE lines
    /\ pipe' = Tail(pipe)
    /\ UNCHANGED <<queue, queued, worker, child, conn, conns, answers, exits, notes>>

BrowserdNotifies ==
    /\ Running /\ conn # NoConn /\ notes < MaxNotes
    /\ notes' = notes + 1
    /\ lines' = Append(lines, [id |-> 0, ok |-> TRUE, of |-> 0])
    /\ UNCHANGED <<queue, queued, worker, child, conn, conns, pipe, reached,
                   answers, exits>>

BrowserdExits ==
    /\ Running /\ exits < MaxExits
    /\ exits' = exits + 1
    /\ child' = "dead" /\ pipe' = <<>>
    /\ worker' = IF worker.pc = "idle" THEN worker ELSE [worker EXCEPT !.exited = TRUE]
    /\ UNCHANGED <<queue, queued, conn, conns, lines, reached, answers, notes>>

Next ==
    \/ \E tool \in Tools : HandleToolAsync(tool)
    \/ WorkerStep
    \/ BrowserdHandles \/ BrowserdNotifies \/ BrowserdExits

Spec == Init /\ [][Next]_vars

\* Only the worker runs for certain; every wait of its has a time limit.
FairSpec == Spec /\ WF_vars(WorkerStep)

-----------------------------------------------------------------------------
(* Properties *)

\* Whose result an answer has.  An opener that started browserd is answered
\* with the tab list, browserd having opened its url; an answer given after
\* browserd exited in the middle of the call promises nothing.
ResultOf(a) ==
    IF a.kind # "ok" \/ a.exited THEN 0
    ELSE IF a.call.tool \in Openers /\ a.of = 0 THEN a.call.n ELSE a.of

Service == INSTANCE CallService WITH
    Calls <- 1 .. MaxCalls,
    done <- reached,
    answers <- [i \in DOMAIN answers |->
                  [call |-> answers[i].call.n, result |-> ResultOf(answers[i])]]

\* The worker and browserd implement CallService: browserd acts at most once
\* on a call, never on a startup url and on the call that brought it, and never
\* twice on a call whose answer was lost; a success is the call's own result,
\* whatever notifications, late answers and polls of the child come in between,
\* and a navigation answered with success has reached browserd.
ImplementsCallService == Service!ServiceSpec

\* Every call that is queued is answered, whatever browserd does.
EveryCallAnswered ==
    \A n \in 1 .. MaxCalls :
      (n <= queued) ~> (\E i \in DOMAIN answers : answers[i].call.n = n)
=============================================================================
