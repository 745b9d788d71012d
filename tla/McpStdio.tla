------------------------------ MODULE McpStdio ------------------------------
(***************************************************************************)
(* The stdio transport (apc-host/src/mcp_stdio.rs): the host forwards the  *)
(* client's lines over one connection to the guest and, for every line it  *)
(* takes for a request, blocks until one line comes back and prints it.    *)
(* `reboot` is answered by the host, and `screen_capture` too when a frame *)
(* is at hand (apc-host/src/mcp_host.rs, mcp_capture.rs).  A client whose  *)
(* pipe to stdout is closed or full is left out.                           *)
(***************************************************************************)
EXTENDS McpGuest

CONSTANTS
    Shapes,    \* the lines a client writes: [kind, hasId, json]
    MaxLines   \* bound: lines the client writes

ASSUME ShapesAssumption ==
    Shapes \subseteq [kind : ToolKinds \cup {"reboot", "local", "initialized",
                                             "garbage", "blank"},
                      hasId : BOOLEAN, json : BOOLEAN]
ASSUME BoundsAssumption == MaxLines \in Nat
\* connect_with_retry is called once: the proxy has a single connection.
ASSUME ConnectionAssumption == \E c \in Conns : Conns = {c}

VARIABLES
    stdin,      \* lines the client has written and the proxy has not read
    written,    \* number of lines written so far
    proxy,      \* the proxy's loop, and the line it awaits an answer to
    stdout,     \* answers printed, each with the line it was printed for
    rebooting   \* "no" until REBOOT_SCHEDULED is set, then how that went

vars == <<guest, stdin, written, proxy, stdout, rebooting>>

TheConn == CHOOSE c \in Conns : TRUE

Init ==
    /\ GuestInit
    /\ stdin = <<>> /\ written = 0 /\ stdout = <<>> /\ rebooting = "no"
    /\ proxy = [pc |-> "connect", line |-> NoLine]

LineOf(shape, n) ==
    [n |-> n, id |-> IF shape.hasId THEN n ELSE NoId,
     kind |-> shape.kind, json |-> shape.json]

\* An MCP client may write its next line before the last is answered.
ClientWrites(shape) ==
    /\ written < MaxLines
    /\ written' = written + 1
    /\ stdin' = Append(stdin, LineOf(shape, written + 1))
    /\ UNCHANGED <<guest, proxy, stdout, rebooting>>

\* connect_with_retry succeeds within its minute or the proxy ends.
Connect ==
    /\ proxy.pc = "connect"
    /\ Connected(TheConn)
    /\ proxy' = [proxy EXCEPT !.pc = "line"]
    /\ UNCHANGED <<inbox, outbox, hungUp, cmds, workers, browserq, replies, applied,
                   stdin, written, stdout, rebooting>>

GiveUpConnecting ==
    /\ proxy.pc = "connect"
    /\ proxy' = [proxy EXCEPT !.pc = "exit"]
    /\ UNCHANGED <<guest, stdin, written, stdout, rebooting>>

IsNotificationOrGarbage(l) == ~l.json \/ l.id = NoId

\* A line that parses and has no id; one that does not parse is a request.
IsNotification(l) == l.json /\ l.id = NoId

PrintLine(l, r) == stdout' = Append(stdout, [line |-> l, answer |-> r])

TakesLine == proxy.pc = "line" /\ stdin # <<>> /\ stdin' = Tail(stdin)

\* What the host answers itself, which it does only if there is an id.
HostAnswers(l, body) ==
    IF l.id = NoId THEN UNCHANGED stdout
    ELSE PrintLine(l, Reply(l, l.id, body, NoCall))

\* schedule_host_restart sets REBOOT_SCHEDULED before it spawns the process
\* that replaces this one and the thread that ends it, either of which may fail.
HandleReboot ==
    /\ TakesLine
    /\ Head(stdin).kind = "reboot"
    /\ \/ /\ rebooting = "no"
          /\ \E outcome \in {"scheduled", "failed"} :
               rebooting' = outcome /\ HostAnswers(Head(stdin), outcome)
       \/ /\ rebooting # "no"
          /\ HostAnswers(Head(stdin), "already")
          /\ UNCHANGED rebooting
    /\ UNCHANGED <<guest, written, proxy>>

\* try_handle_screen_capture with a frame at hand, or without an id.
HandleCapture ==
    /\ TakesLine
    /\ Head(stdin).kind = "capture"
    /\ HostAnswers(Head(stdin), "frame")
    /\ UNCHANGED <<guest, written, proxy, rebooting>>

\* Everything else goes to the guest, and so does a capture the host has no
\* frame for or fails to convert; a notification is not waited for.
GoesToGuest(l) == l.kind # "reboot" /\ (l.kind = "capture" => l.id # NoId)

Forward ==
    /\ TakesLine
    /\ LET l == Head(stdin)
       IN  /\ GoesToGuest(l)
           /\ Send(TheConn, l)
           /\ proxy' = IF IsNotification(l) THEN proxy
                       ELSE [pc |-> "await", line |-> l]
    /\ UNCHANGED <<outbox, hungUp, conn, cmds, workers, browserq, replies, applied,
                   written, stdout, rebooting>>

PrintAnswer ==
    /\ proxy.pc = "await" /\ outbox[TheConn] # <<>>
    /\ outbox' = [outbox EXCEPT ![TheConn] = Tail(@)]
    /\ PrintLine(proxy.line, Head(outbox[TheConn]))
    /\ proxy' = [pc |-> "line", line |-> NoLine]
    /\ UNCHANGED <<inbox, hungUp, conn, cmds, workers, browserq, replies, applied,
                   stdin, written, rebooting>>

\* The guest closed the connection: read_line returns 0, or a write fails.
GuestGone ==
    /\ conn[TheConn].pc = "closed"
    /\ \/ proxy.pc = "await" /\ outbox[TheConn] = <<>>
       \/ proxy.pc = "line" /\ stdin # <<>> /\ GoesToGuest(Head(stdin))
    /\ proxy' = [pc |-> "exit", line |-> NoLine]
    /\ UNCHANGED <<guest, stdin, written, stdout, rebooting>>

\* The client closes its end: the loop over stdin is over, the process ends.
EndOfInput ==
    /\ proxy.pc = "line" /\ stdin = <<>>
    /\ proxy' = [pc |-> "exit", line |-> NoLine]
    /\ UNCHANGED <<guest, stdin, written, stdout, rebooting>>

\* The vm-reboot thread ends the process, and the VM with it.
RebootExit ==
    /\ rebooting = "scheduled" /\ proxy.pc # "exit"
    /\ proxy' = [pc |-> "exit", line |-> NoLine]
    /\ UNCHANGED <<guest, stdin, written, stdout, rebooting>>

ProxyStep ==
    \/ Connect \/ GiveUpConnecting
    \/ HandleReboot \/ HandleCapture \/ Forward
    \/ PrintAnswer \/ GuestGone

ProxyUnchanged == UNCHANGED <<stdin, written, proxy, stdout, rebooting>>

GuestRuns == proxy.pc # "exit" /\ GuestStep /\ ProxyUnchanged

Next ==
    \/ \E shape \in Shapes : ClientWrites(shape)
    \/ ProxyStep \/ EndOfInput \/ RebootExit
    \/ GuestRuns

Spec == Init /\ [][Next]_vars

(***************************************************************************)
(* Fairness: the proxy's and the connection's threads run, a receive with  *)
(* a time limit returns, and the event loop accepts the one connection.    *)
(* Nothing else is assumed of the event loop, nor of the shell threads and *)
(* the browser worker, which may hang for ever.                            *)
(***************************************************************************)
Fairness ==
    /\ WF_vars(ProxyStep)
    /\ WF_vars(proxy.pc # "exit" /\ ThreadStep(TheConn) /\ ProxyUnchanged)
    /\ WF_vars(proxy.pc # "exit" /\ Accept(TheConn) /\ ProxyUnchanged)

FairSpec == Spec /\ Fairness

-----------------------------------------------------------------------------
(* Properties *)

\* Every answer the proxy prints is the answer to the line it prints it for.
AnswersMatch ==
    \A i \in DOMAIN stdout : stdout[i].answer.n = stdout[i].line.n

Service == INSTANCE CallService WITH
    Calls <- 1 .. MaxLines,
    done <- [i \in DOMAIN applied |-> applied[i].n],
    answers <- [i \in DOMAIN stdout |->
                  [call |-> stdout[i].line.n,
                   result |-> IF stdout[i].answer.of = NoCall THEN 0
                              ELSE stdout[i].answer.of[2]]]

\* The proxy and the guest implement CallService for the lines of the client:
\* no call takes effect twice, and one that timed out leaves no result behind
\* that a later call could get.
ImplementsCallService == Service!ServiceSpec

Answered(n) == \E i \in DOMAIN stdout : stdout[i].line.n = n
Asked(n) == \E i \in DOMAIN stdin : stdin[i].n = n /\ stdin[i].id = n

\* Every request is answered, unless the proxy ends, however long the event
\* loop, a shell command or the browser takes.
EveryRequestAnswered ==
    \A n \in 1 .. MaxLines : Asked(n) ~> (Answered(n) \/ proxy.pc = "exit")
=============================================================================
