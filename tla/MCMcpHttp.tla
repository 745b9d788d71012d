----------------------------- MODULE MCMcpHttp -----------------------------
(* McpHttp for TLC: connections, and the bodies two clients may post. *)
EXTENDS McpHttp

MaxBatch == 2
BatchConns == Clients \X (1 .. MaxBatch)

Msg(kind, hasId) == [kind |-> kind, hasId |-> hasId]

\* Bodies of one message: a tool call as a notification, a request the guest
\* never answers; of two: a notification before a slow call, two tool calls
\* the event loop runs, and the host's own tools.
SmallBatches ==
    {<<Msg("tool", FALSE)>>, <<Msg("initialized", TRUE)>>,
     <<Msg("local", FALSE), Msg("spawn", TRUE)>>,
     <<Msg("tool", TRUE), Msg("capture", TRUE)>>,
     <<Msg("reboot", TRUE), Msg("capture", FALSE)>>}
=============================================================================
