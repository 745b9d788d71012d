------------------------------- MODULE Mounts -------------------------------
(***************************************************************************)
(* How a host directory gets mounted: `fs_mount` starts an apc-fuse        *)
(* process in the guest (apc-compositor/src/mcp_dispatch.rs), which        *)
(* listens on the file-system port, accepts one connection, sends Init and *)
(* mounts (apc-fuse/src/main.rs, vfs.rs); the host's fs-server thread      *)
(* (apc-host/src/fs_server.rs) tries to connect every two seconds and      *)
(* serves one connection at a time, until the guest closes it.  fs_mount   *)
(* replies half a second after the start, from what became of the process. *)
(***************************************************************************)
EXTENDS Naturals, FiniteSets

CONSTANTS
    Mounts,    \* calls of fs_mount, each with its own host path and mount point
    Allowed    \* those whose host path the allowlist and the file system accept

ASSUME AllowedAssumption == Allowed \subseteq Mounts

VARIABLES
    fuse,      \* per mount: its apc-fuse process
    reply,     \* per mount: what fs_mount replied
    server,    \* what the fs-server thread does, and for which mount
    rooted     \* whether the connection being served has had a good Init

mountVars == <<fuse, reply, server, rooted>>

NoOne == [pc |-> "sleep", mount |-> "none"]
Serving(pc, m) == [pc |-> pc, mount |-> m]

\* Named for the module: HostFsProofs extends it together with HostFs.
MountsInit ==
    /\ fuse = [m \in Mounts |-> "none"]
    /\ reply = [m \in Mounts |-> "none"]
    /\ server = NoOne /\ rooted = FALSE

Become(m, s) == fuse' = [fuse EXCEPT ![m] = s]

\* The thread of fs_mount starts the process, or fails to.
FsMount(m) ==
    /\ fuse[m] = "none" /\ reply[m] = "none"
    /\ \/ Become(m, "starting") /\ UNCHANGED reply
       \/ reply' = [reply EXCEPT ![m] = "error"] /\ UNCHANGED fuse
    /\ UNCHANGED <<server, rooted>>

Listeners == {m \in Mounts : fuse[m] = "listening"}

\* bind fails while another process listens.
Listen(m) ==
    /\ fuse[m] = "starting"
    /\ Become(m, IF Listeners = {} THEN "listening" ELSE "failed")
    /\ UNCHANGED <<reply, server, rooted>>

ReplyAlwaysMounted(m) ==
    /\ fuse[m] # "none" /\ reply[m] = "none"
    /\ reply' = [reply EXCEPT ![m] = IF fuse[m] = "starting" THEN "error" ELSE "mounted"]
    /\ UNCHANGED <<fuse, server, rooted>>

\* After 500 ms: an error only if the process has failed by then.
Reply(m) ==
    /\ fuse[m] # "none" /\ reply[m] = "none"
    /\ reply' = [reply EXCEPT ![m] = IF fuse[m] = "failed" THEN "error" ELSE "mounted"]
    /\ UNCHANGED <<fuse, server, rooted>>

\* The fs-server connects; the listener accepts, closes its socket, sends Init.
Connect(m) ==
    /\ server = NoOne /\ fuse[m] = "listening"
    /\ Become(m, "init sent")
    /\ server' = Serving("serve", m) /\ rooted' = FALSE
    /\ UNCHANGED reply

HandleInitUnchecked(m) ==
    /\ server = Serving("serve", m) /\ fuse[m] = "init sent"
    /\ rooted' = TRUE
    /\ Become(m, "accepted")
    /\ UNCHANGED <<reply, server>>

HandleInitForgetsRoot(m) ==
    /\ server = Serving("serve", m) /\ fuse[m] = "init sent"
    /\ Become(m, IF m \in Allowed THEN "accepted" ELSE "failed")
    /\ UNCHANGED <<reply, server, rooted>>

\* FsOp::Init: the path is checked, and the root of the session set.
HandleInit(m) ==
    /\ server = Serving("serve", m) /\ fuse[m] = "init sent"
    /\ rooted' = (m \in Allowed)
    /\ Become(m, IF m \in Allowed THEN "accepted" ELSE "failed")
    /\ UNCHANGED <<reply, server>>

\* mount2 mounts and serves the kernel, or fails and ends the process.
Mount(m) ==
    /\ fuse[m] = "accepted"
    /\ Become(m, "mounted") \/ Become(m, "failed")
    /\ UNCHANGED <<reply, server, rooted>>

\* fs_unmount succeeds on a mounted path only; the process then ends.
FsUnmount(m) ==
    /\ fuse[m] = "mounted"
    /\ Become(m, "unmounted")
    /\ UNCHANGED <<reply, server, rooted>>

Ended(m) == fuse[m] \in {"failed", "unmounted"}

ServeNeverEnds(m) == FALSE /\ UNCHANGED mountVars

\* The end of the stream: the server goes back to its loop.
ServeEnds(m) ==
    /\ server = Serving("serve", m) /\ Ended(m)
    /\ server' = NoOne /\ rooted' = FALSE
    /\ UNCHANGED <<fuse, reply>>

FuseStep(m) == Listen(m) \/ Mount(m)
ServerStep == \E m \in Mounts : Connect(m) \/ HandleInit(m) \/ ServeEnds(m)

MountsNext ==
    \/ \E m \in Mounts : FsMount(m) \/ Reply(m) \/ FsUnmount(m) \/ FuseStep(m)
    \/ ServerStep

MountsSpec == MountsInit /\ [][MountsNext]_mountVars

\* Processes and the fs-server thread run; nobody has to mount or unmount.
FairSpec ==
    /\ MountsSpec /\ WF_mountVars(ServerStep)
    /\ \A m \in Mounts : WF_mountVars(FuseStep(m)) /\ WF_mountVars(Reply(m))

-----------------------------------------------------------------------------
(* Properties *)

\* The variables keep their types; a session is rooted while it is mounted, so
\* the kernel's operations are not refused, and only one mount is at a time.
TypeOK ==
    /\ fuse \in [Mounts -> {"none", "starting", "listening", "init sent", "accepted",
                            "mounted", "failed", "unmounted"}]
    /\ reply \in [Mounts -> {"none", "mounted", "error"}]
    /\ server \in [pc : {"serve"}, mount : Mounts] \cup {NoOne}
    /\ Cardinality(Listeners) <= 1
    /\ \A m \in Mounts : fuse[m] = "mounted" => server = Serving("serve", m) /\ rooted

\* A host directory that is not allowed is never mounted, however its mount
\* races with those of others for the port and for the server.
OnlyAllowedMounted == \A m \in Mounts : fuse[m] = "mounted" => m \in Allowed

\* A mount that fs_mount itself reports as failed is not mounted and never will
\* be.  (The error mcp.rs gives when its 30 s are over is not meant: that mount
\* may come about.)
ErrorIsFinal == \A m \in Mounts : reply[m] = "error" => fuse[m] \in {"none", "failed"}

\* A mount that waits for the host is settled in the end, one way or the other,
\* unless the host is busy with another that stays mounted.
WaitingMountSettled ==
    \A m \in Mounts :
      (fuse[m] = "listening")
        ~> (Ended(m) \/ \E k \in Mounts : fuse[k] = "mounted")
=============================================================================
