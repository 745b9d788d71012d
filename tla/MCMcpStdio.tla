----------------------------- MODULE MCMcpStdio -----------------------------
(* McpStdio for TLC: what a client may write. *)
EXTENDS McpStdio

Shape(kind, hasId) == [kind |-> kind, hasId |-> hasId, json |-> TRUE]
NotJson(kind) == [kind |-> kind, hasId |-> FALSE, json |-> FALSE]

\* What a client keeping to the handshake writes: requests with an id, the one
\* notification the guest leaves unanswered, the host's own notifications, and
\* lines that are no JSON at all.
PoliteShapes ==
    {Shape(k, TRUE) : k \in ToolKinds \cup {"reboot", "local", "garbage"}}
      \cup {Shape("initialized", FALSE), Shape("capture", FALSE),
            Shape("reboot", FALSE), NotJson("garbage")}

\* notifications/cancelled, which MCP clients send, between two requests.
CancelAndRequest == {Shape("tool", TRUE), Shape("local", FALSE)}
=============================================================================
