------------------------------ MODULE McpHttp ------------------------------
(***************************************************************************)
(* The Streamable HTTP transport (apc-host/src/mcp_http.rs): a thread per  *)
(* client, one POST each, whose messages it handles one after the other,   *)
(* every one forwarded over a new connection to the guest.  Of a request   *)
(* that the checks of path, origin, token, method, Accept header and shape *)
(* refuse, only the status is kept.                                        *)
(***************************************************************************)
EXTENDS McpGuest

CONSTANTS
    Clients,   \* HTTP clients, one POST each
    Batches    \* the bodies they send: sequences of [kind, hasId]

MessageKinds == ToolKinds \cup {"reboot", "local", "initialized", "garbage"}

\* Every message has a connection of its own; a line of a POST is not empty.
ASSUME ConnsAssumption == Conns \subseteq Clients \X (Nat \ {0})
ASSUME BatchesAssumption ==
    /\ Batches \subseteq Seq([kind : MessageKinds, hasId : BOOLEAN])
    /\ \A b \in Batches : b # <<>> /\ \A h \in Clients, i \in DOMAIN b : <<h, i>> \in Conns

VARIABLES
    body,       \* per client: the messages of its POST
    http,       \* per client: where its thread is, and the message it is at
    answers,    \* per client: the responses collected so far
    status,     \* per client: the HTTP status sent, 0 before
    rebooting   \* as in McpStdio; "exited" when the process has ended

transport == <<body, http, answers, status, rebooting>>
vars == <<guest, transport>>

Init ==
    /\ GuestInit
    /\ body = [h \in Clients |-> <<>>]
    /\ http = [h \in Clients |-> [pc |-> "idle", i |-> 0]]
    /\ answers = [h \in Clients |-> <<>>]
    /\ status = [h \in Clients |-> 0]
    /\ rebooting = "no"

Message(h, i) ==
    [n |-> i, id |-> IF body[h][i].hasId THEN i ELSE NoId,
     kind |-> body[h][i].kind, json |-> TRUE]

\* read_http_request fails: the connection is closed without a status.
Unreadable(h) ==
    /\ http[h].pc = "idle"
    /\ http' = [http EXCEPT ![h].pc = "done"]
    /\ UNCHANGED <<guest, body, answers, status, rebooting>>

\* Invalid JSON or no message, a wrong token, origin, path, method or Accept.
Refusals == {400, 401, 403, 404, 405, 406}

Refuse(h) ==
    /\ http[h].pc = "idle"
    /\ \E s \in Refusals : status' = [status EXCEPT ![h] = s]
    /\ http' = [http EXCEPT ![h].pc = "done"]
    /\ UNCHANGED <<guest, body, answers, rebooting>>

Post(h, b) ==
    /\ http[h].pc = "idle"
    /\ body' = [body EXCEPT ![h] = b]
    /\ http' = [http EXCEPT ![h] = [pc |-> "message", i |-> 1]]
    /\ UNCHANGED <<guest, answers, status, rebooting>>

AtMessage(h, kinds) ==
    /\ http[h].pc = "message" /\ http[h].i \in DOMAIN body[h]
    /\ body[h][http[h].i].kind \in kinds

NextMessage(h) == http' = [http EXCEPT ![h] = [pc |-> "message", i |-> @.i + 1]]

\* The host's answer to a message, collected only if the message has an id.
HostAnswers(h, kind) ==
    LET m == Message(h, http[h].i)
    IN  answers' = IF m.id = NoId THEN answers
                   ELSE [answers EXCEPT ![h] = Append(@, Reply(m, m.id, kind, NoCall))]

HandleReboot(h) ==
    /\ AtMessage(h, {"reboot"})
    /\ \/ /\ rebooting = "no"
          /\ \E outcome \in {"scheduled", "failed"} :
               rebooting' = outcome /\ HostAnswers(h, outcome)
       \/ /\ rebooting # "no"
          /\ HostAnswers(h, "already")
          /\ UNCHANGED rebooting
    /\ NextMessage(h)
    /\ UNCHANGED <<guest, body, status>>

HandleCapture(h) ==
    /\ AtMessage(h, {"capture"})
    /\ HostAnswers(h, "frame")
    /\ NextMessage(h)
    /\ UNCHANGED <<guest, body, status, rebooting>>

\* `?` on any message drops the responses collected before it.
FailKeepsAnswers(h) ==
    /\ status' = [status EXCEPT ![h] = 200]
    /\ http' = [http EXCEPT ![h].pc = "done"]

Fail(h) ==
    /\ status' = [status EXCEPT ![h] = 502]
    /\ http' = [http EXCEPT ![h].pc = "done"]

\* The framebuffer of a capture is too small for its dimensions.
CaptureFails(h) ==
    /\ AtMessage(h, {"capture"})
    /\ Message(h, http[h].i).id # NoId
    /\ Fail(h)
    /\ UNCHANGED <<guest, body, answers, rebooting>>

\* A new connection per message; for a notification it is dropped at once.
Forward(h) ==
    /\ AtMessage(h, ToolKinds \cup {"local", "initialized", "garbage"})
    /\ LET i == http[h].i
           m == Message(h, i)
       IN  /\ m.kind = "capture" => m.id # NoId
           /\ Connected(<<h, i>>)
           /\ Send(<<h, i>>, m)
           /\ IF m.id = NoId
              THEN NextMessage(h) /\ hungUp' = hungUp \cup {<<h, i>>}
              ELSE /\ http' = [http EXCEPT ![h].pc = "await"]
                   /\ UNCHANGED hungUp
    /\ UNCHANGED <<outbox, cmds, workers, browserq, replies, applied,
                   body, answers, status, rebooting>>

\* connect_guest gives up after a minute.
ConnectFails(h) ==
    /\ AtMessage(h, ToolKinds \cup {"local", "initialized", "garbage"})
    /\ body[h][http[h].i].kind = "capture" => body[h][http[h].i].hasId
    /\ Fail(h)
    /\ UNCHANGED <<guest, body, answers, rebooting>>

TakeAnswer(h) ==
    LET c == <<h, http[h].i>>
    IN  /\ http[h].pc = "await" /\ outbox[c] # <<>>
        /\ answers' = [answers EXCEPT ![h] = Append(@, Head(outbox[c]))]
        /\ outbox' = [outbox EXCEPT ![c] = Tail(@)]
        /\ hungUp' = hungUp \cup {c}
        /\ NextMessage(h)
        /\ UNCHANGED <<inbox, conn, cmds, workers, browserq, replies, applied,
                       body, status, rebooting>>

NoAnswerEver(h) == FALSE /\ UNCHANGED vars

\* The 180 seconds of the read timeout are over.
NoAnswer(h) ==
    /\ http[h].pc = "await" /\ outbox[<<h, http[h].i>>] = <<>>
    /\ Fail(h)
    /\ hungUp' = hungUp \cup {<<h, http[h].i>>}
    /\ UNCHANGED <<inbox, outbox, conn, cmds, workers, browserq, replies, applied,
                   body, answers, rebooting>>

Respond(h) ==
    /\ http[h].pc = "message" /\ http[h].i \notin DOMAIN body[h]
    /\ status' = [status EXCEPT ![h] = IF answers[h] = <<>> THEN 202 ELSE 200]
    /\ http' = [http EXCEPT ![h].pc = "done"]
    /\ UNCHANGED <<guest, body, answers, rebooting>>

HttpStep(h) ==
    \/ HandleReboot(h) \/ HandleCapture(h) \/ CaptureFails(h)
    \/ Forward(h) \/ ConnectFails(h) \/ TakeAnswer(h) \/ NoAnswer(h) \/ Respond(h)

\* The vm-reboot thread ends the process, with every thread and the VM.
RebootExit ==
    /\ rebooting = "scheduled" /\ rebooting' = "exited"
    /\ UNCHANGED <<guest, body, http, answers, status>>

Running == rebooting # "exited"

Next ==
    \/ /\ Running
       /\ \/ \E h \in Clients, b \in Batches : Post(h, b)
          \/ \E h \in Clients : Unreadable(h) \/ Refuse(h) \/ HttpStep(h)
          \/ GuestStep /\ UNCHANGED transport
    \/ RebootExit

Spec == Init /\ [][Next]_vars

\* Only the HTTP threads are assumed to run, their time limits included.
FairSpec == Spec /\ \A h \in Clients : WF_vars(Running /\ HttpStep(h))

-----------------------------------------------------------------------------
(* Properties *)

Expected(h) == {i \in DOMAIN body[h] : body[h][i].hasId}

\* A 200 carries one answer for each message that has an id, in their order,
\* and never one for another message; a 202 means that no message had one.
BatchAnswersMatch ==
    \A h \in Clients :
      /\ status[h] = 200 =>
           /\ {answers[h][k].n : k \in DOMAIN answers[h]} = Expected(h)
           /\ \A k, l \in DOMAIN answers[h] : k < l => answers[h][k].n < answers[h][l].n
      /\ status[h] = 202 => Expected(h) = {}

\* The tools the event loop runs for one POST take effect in the order of its
\* messages, past one that timed out, although every message has a connection
\* and a guest thread of its own.  It is so only from a message with an id on:
\* a notification is not waited for, and the next message may overtake it.
BatchInOrder ==
    \A p, q \in DOMAIN applied :
      (/\ p < q /\ applied[p].c[1] = applied[q].c[1]
       /\ {applied[p].kind, applied[q].kind} \subseteq {"tool", "capture"}
       /\ body[applied[q].c[1]][applied[q].n].hasId)
        => applied[p].n < applied[q].n

\* Every POST that is accepted gets a status, whatever the guest does, unless a
\* reboot, which another client may have asked for, ends the process first.
EveryPostAnswered ==
    \A h \in Clients :
      (http[h].pc \in {"message", "await"}) ~> (status[h] # 0 \/ ~Running)
=============================================================================
