---------------------------- MODULE FrameService ----------------------------
(***************************************************************************)
(* What the display of apc-host promises to those who look at it, whatever *)
(* the pool of surfaces behind it does: frames are numbered in the order   *)
(* the guest presents them; the viewer's window and the captures each move *)
(* forward through them, may skip some, and a capture is never behind what *)
(* the window already shows.  HostDisplay implements this.                 *)
(***************************************************************************)
EXTENDS Naturals

VARIABLES
    presented,   \* the number of the newest frame
    shown,       \* the frame in the window, 0 before the first
    captured     \* the frame of the latest capture, 0 before the first

service == <<presented, shown, captured>>

ServiceInit == presented = 0 /\ shown = 0 /\ captured = 0

Present ==
    /\ presented' = presented + 1
    /\ UNCHANGED <<shown, captured>>

ShowFrame ==
    /\ shown' \in shown .. presented
    /\ UNCHANGED <<presented, captured>>

CaptureFrame ==
    /\ captured' \in {f \in 1 .. presented : f >= captured /\ f >= shown}
    /\ UNCHANGED <<presented, shown>>

ServiceNext == Present \/ ShowFrame \/ CaptureFrame

ServiceSpec == ServiceInit /\ [][ServiceNext]_service
=============================================================================
