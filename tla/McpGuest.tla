------------------------------ MODULE McpGuest ------------------------------
(***************************************************************************)
(* The MCP server inside the guest (apc-compositor/src/mcp.rs): one thread *)
(* per vsock connection, which reads a line, has the compositor's event    *)
(* loop carry out a tool call and waits for its reply with a time limit.   *)
(* The event loop runs one command at a time; `shell_exec` and `fs_mount`  *)
(* are handed to threads of their own and browser tools to the queue of    *)
(* the single browser worker, all three answering later.                   *)
(*                                                                         *)
(* The module has no Next: McpStdio and McpHttp compose it with the host's *)
(* transports, which put lines in `inbox` and take replies from `outbox`.  *)
(*                                                                         *)
(* A line is what the two sides tell lines apart by: its tag n (which only *)
(* the properties read), its id (NoId when the "id" key is missing), its   *)
(* kind, and whether it parses as JSON.  The kinds are                     *)
(*   "tool"         a tools/call the event loop answers itself             *)
(*   "spawn"        shell_exec or fs_mount                                 *)
(*   "browser"      a browser tool                                         *)
(*   "capture"      screen_capture, which the host may answer              *)
(*   "reboot"       the host's own tool                                    *)
(*   "local"        initialize, tools/list, bad arguments, any other method*)
(*   "initialized"  the method notifications/initialized                   *)
(*   "garbage"      a line that is not a JsonRpcRequest                    *)
(*   "blank"        the empty line                                         *)
(***************************************************************************)
EXTENDS Naturals, Sequences, FiniteSets

CONSTANTS
    Conns,    \* connections to vsock port 9339
    OutCap    \* bound: replies a connection buffers before a write times out

ASSUME OutCapAssumption == OutCap \in Nat \ {0}

VARIABLES
    inbox,     \* per connection: lines sent to the guest and not yet read
    outbox,    \* per connection: replies written and not yet read by the host
    hungUp,    \* connections whose host end is closed
    conn,      \* per connection: its thread
    cmds,      \* the calloop channel: calls the event loop has yet to take
    workers,   \* calls a shell or mount thread is running
    browserq,  \* calls queued for the browser worker
    replies,   \* values in reply channels whose receiver is still there
    applied    \* calls whose effect has happened, in order (history)

guest == <<inbox, outbox, hungUp, conn, cmds, workers, browserq, replies, applied>>

NoId == 0       \* also JSON null, the id a reply to an unidentified line gets
NoLine == [n |-> 0, id |-> NoId, kind |-> "blank", json |-> FALSE]
Call(c, l) == [c |-> c, n |-> l.n, kind |-> l.kind]
ToolKinds == {"tool", "spawn", "browser", "capture"}

NoCall == <<>>

\* A reply to line l; `of` is the call whose result it carries, if any.
Reply(l, id, body, of) == [n |-> l.n, id |-> id, body |-> body, of |-> of]

GuestInit ==
    /\ inbox = [c \in Conns |-> <<>>]
    /\ outbox = [c \in Conns |-> <<>>]
    /\ hungUp = {}
    /\ conn = [c \in Conns |-> [pc |-> "none", line |-> NoLine]]
    /\ cmds = <<>> /\ browserq = <<>> /\ applied = <<>>
    /\ workers = {} /\ replies = {}

(***************************************************************************)
(* A connection: the host's connect succeeds at once, and the event loop   *)
(* accepts it and starts its thread when it gets to it.                    *)
(***************************************************************************)
Connected(c) == conn' = [conn EXCEPT ![c].pc = "pending"]

Accept(c) ==
    /\ conn[c].pc = "pending"
    /\ conn' = [conn EXCEPT ![c].pc = "read"]
    /\ UNCHANGED <<inbox, outbox, hungUp, cmds, workers, browserq, replies, applied>>

Send(c, l) == inbox' = [inbox EXCEPT ![c] = Append(@, l)]

(***************************************************************************)
(* The connection thread.  Writing a reply fails, and ends the connection, *)
(* when the host has hung up or has left OutCap replies unread for the     *)
(* five seconds of the write timeout; bytes written to a host that has     *)
(* just hung up may also be lost without an error.                         *)
(***************************************************************************)
Write(c, r) ==
    \/ /\ c \notin hungUp /\ Len(outbox[c]) < OutCap
       /\ outbox' = [outbox EXCEPT ![c] = Append(@, r)]
       /\ conn' = [conn EXCEPT ![c] = [pc |-> "read", line |-> NoLine]]
    \/ /\ c \in hungUp \/ Len(outbox[c]) = OutCap
       /\ conn' = [conn EXCEPT ![c] = [pc |-> "closed", line |-> NoLine]]
       /\ UNCHANGED outbox
    \/ /\ c \in hungUp
       /\ conn' = [conn EXCEPT ![c] = [pc |-> "read", line |-> NoLine]]
       /\ UNCHANGED outbox

Reading(c, kinds) ==
    /\ conn[c].pc = "read" /\ inbox[c] # <<>> /\ Head(inbox[c]).kind \in kinds
    /\ inbox' = [inbox EXCEPT ![c] = Tail(@)]

\* Lines that get no reply: empty ones and notifications/initialized.
ReadSilently(c) ==
    /\ Reading(c, {"blank", "initialized"})
    /\ UNCHANGED <<outbox, hungUp, conn, cmds, workers, browserq, replies, applied>>

\* Lines answered by the thread itself; a parse error has a null id.
AnswerLocally(c) ==
    /\ Reading(c, {"garbage", "local"})
    /\ LET l == Head(inbox[c])
       IN  IF l.kind = "garbage" THEN Write(c, Reply(l, NoId, "error", NoCall))
           ELSE Write(c, Reply(l, l.id, "local", NoCall))
    /\ UNCHANGED <<hungUp, cmds, workers, browserq, replies, applied>>

Dispatch(c) ==
    /\ Reading(c, ToolKinds)
    /\ cmds' = Append(cmds, Call(c, Head(inbox[c])))
    /\ conn' = [conn EXCEPT ![c] = [pc |-> "wait", line |-> Head(inbox[c])]]
    /\ UNCHANGED <<outbox, hungUp, workers, browserq, replies, applied>>

ReplyChannelPerConnection(c, n) == <<c, 0>>

\* dispatch_tool makes a fresh channel for every call.
ReplyChannel(c, n) == <<c, n>>

Waiting(c) == conn[c].pc = "wait"
Arrived(c) == {r \in replies : r.channel = ReplyChannel(c, conn[c].line.n)}

Receive(c) ==
    /\ Waiting(c)
    /\ \E r \in Arrived(c) :
         /\ Write(c, Reply(conn[c].line, conn[c].line.id, "ok", r.of))
         /\ replies' = replies \ {r}
    /\ UNCHANGED <<inbox, hungUp, cmds, workers, browserq, applied>>

\* recv gives up only when the channel is empty; the receiver is dropped.
TimeoutNever(c) == FALSE /\ UNCHANGED guest

TimeoutRetries(c) ==
    /\ Waiting(c) /\ Arrived(c) = {}
    /\ Write(c, Reply(conn[c].line, conn[c].line.id, "timeout", NoCall))
    /\ cmds' = Append(cmds, Call(c, conn[c].line))
    /\ UNCHANGED <<inbox, hungUp, workers, browserq, replies, applied>>

Timeout(c) ==
    /\ Waiting(c) /\ Arrived(c) = {}
    /\ Write(c, Reply(conn[c].line, conn[c].line.id, "timeout", NoCall))
    /\ UNCHANGED <<inbox, hungUp, cmds, workers, browserq, replies, applied>>

EndOfFile(c) ==
    /\ conn[c].pc = "read" /\ inbox[c] = <<>> /\ c \in hungUp
    /\ conn' = [conn EXCEPT ![c].pc = "closed"]
    /\ UNCHANGED <<inbox, outbox, hungUp, cmds, workers, browserq, replies, applied>>

ThreadStep(c) ==
    \/ ReadSilently(c) \/ AnswerLocally(c) \/ Dispatch(c)
    \/ Receive(c) \/ Timeout(c) \/ EndOfFile(c)

(***************************************************************************)
(* The event loop and what it hands calls to.  A reply for which nobody    *)
(* waits any more is dropped with its channel.                             *)
(***************************************************************************)
SendReply(call) ==
    replies' =
      IF Waiting(call.c) /\ ReplyChannel(call.c, conn[call.c].line.n)
                              = ReplyChannel(call.c, call.n)
      THEN replies \cup {[channel |-> ReplyChannel(call.c, call.n), of |-> <<call.c, call.n>>]}
      ELSE replies

\* A tool changes the compositor, the guest or what it shows; what it changes
\* is the matter of WindowManager and Mounts, that it does of this module.
Apply(call) == applied' = Append(applied, call)

LoopStepNewestFirst ==
    /\ cmds # <<>>
    /\ cmds' = SubSeq(cmds, 1, Len(cmds) - 1)
    /\ LET call == cmds[Len(cmds)]
       IN  CASE call.kind \in {"tool", "capture"} ->
                  /\ Apply(call)
                  /\ SendReply(call)
                  /\ UNCHANGED <<workers, browserq>>
             [] call.kind = "spawn" ->
                  /\ workers' = workers \cup {call}
                  /\ UNCHANGED <<browserq, replies, applied>>
             [] OTHER ->
                  /\ browserq' = Append(browserq, call)
                  /\ UNCHANGED <<workers, replies, applied>>
    /\ UNCHANGED <<inbox, outbox, hungUp, conn>>

LoopStep ==
    /\ cmds # <<>>
    /\ cmds' = Tail(cmds)
    /\ LET call == Head(cmds)
       IN  CASE call.kind \in {"tool", "capture"} ->
                  /\ Apply(call)
                  /\ SendReply(call)
                  /\ UNCHANGED <<workers, browserq>>
             [] call.kind = "spawn" ->
                  /\ workers' = workers \cup {call}
                  /\ UNCHANGED <<browserq, replies, applied>>
             [] OTHER ->
                  /\ browserq' = Append(browserq, call)
                  /\ UNCHANGED <<workers, replies, applied>>
    /\ UNCHANGED <<inbox, outbox, hungUp, conn>>

WorkerDone(call) ==
    /\ call \in workers
    /\ workers' = workers \ {call}
    /\ Apply(call)
    /\ SendReply(call)
    /\ UNCHANGED <<inbox, outbox, hungUp, conn, cmds, browserq>>

BrowserDone ==
    /\ browserq # <<>>
    /\ browserq' = Tail(browserq)
    /\ Apply(Head(browserq))
    /\ SendReply(Head(browserq))
    /\ UNCHANGED <<inbox, outbox, hungUp, conn, cmds, workers>>

(***************************************************************************)
(* The compositor ends and the guest's init starts it again: with the old  *)
(* one go its connections and all calls but the processes that shell and   *)
(* mount threads have started, which run on without anyone to reply to.    *)
(* What the old one had written may still be read by the host.             *)
(***************************************************************************)
Connections == {c \in Conns : conn[c].pc \in {"pending", "read", "wait"}}

CompositorRestarts ==
    /\ Connections # {}
    /\ conn' = [c \in Conns |-> IF c \in Connections
                               THEN [pc |-> "closed", line |-> NoLine] ELSE conn[c]]
    /\ inbox' = [c \in Conns |-> <<>>]
    /\ cmds' = <<>> /\ browserq' = <<>> /\ replies' = {}
    /\ UNCHANGED <<outbox, hungUp, workers, applied>>

GuestStep ==
    \/ \E c \in Conns : ThreadStep(c) \/ Accept(c)
    \/ LoopStep \/ BrowserDone \/ CompositorRestarts
    \/ \E call \in workers : WorkerDone(call)

=============================================================================
