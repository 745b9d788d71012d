-------------------------------- MODULE Redraw --------------------------------
(***************************************************************************)
(* Redraw scheduling and screen capture in the guest's compositor          *)
(* (apc-compositor/src/render.rs and the event loop of state.rs).          *)
(*                                                                         *)
(* What ought to be on the screen is a version number, `scene`.  Handlers  *)
(* of the event loop raise it and ask for a redraw; after each round of    *)
(* handlers the loop renders if one is queued and 16 ms have passed since  *)
(* the last.  Time is abstract: `cool` says that those 16 ms have passed,  *)
(* `late` that the 33 ms of the watchdog have.  The loop blocks while      *)
(* nothing happens, so that only the watchdog's timer lets a redraw that   *)
(* came too early be rendered at all.                                      *)
(*                                                                         *)
(* A client has one window, which is `shown` while it is in the space: not *)
(* before it is created, nor while it is minimized.  Only the windows in   *)
(* the space get frame callbacks.                                          *)
(*                                                                         *)
(* `kms` is smithay's DrmCompositor and the kernel below it, modelled from *)
(* the calls the code makes: a frame is pending from queue_frame to        *)
(* frame_submitted, one more may be queued behind it, and the kernel       *)
(* refuses a flip while another is under way.                              *)
(***************************************************************************)
EXTENDS Naturals, Screenshot

CONSTANTS Clients,       \* clients with a window
          MaxScene,      \* bound on the versions of the scene
          MaxFailures,   \* bound on failed renders, submissions and snapshots
          FrameWidth, FrameHeight,  \* the output's mode
          Requests       \* the regions and scales captures ask for

ASSUME RedrawAssumption ==
  /\ {MaxScene, MaxFailures, FrameWidth, FrameHeight} \subseteq Nat
  /\ MaxScene > 0
  /\ FrameWidth <= U32Max /\ FrameHeight <= U32Max
ASSUME RequestsAssumption ==
  Requests \subseteq [region : [x : Int, y : Int, width : Nat, height : Nat],
                      scale : [num : Int, den : Nat]]

VARIABLES
  legacy,      \* SMITHAY_USE_LEGACY is set, as start-compositor does
  running,     \* run() has rendered the first frame and entered the loop
  awake,       \* the loop has handled an event in this round
  redraw,      \* redraw_state
  needed,      \* redraw_needed of WaitingForVBlank
  scene,       \* version of what ought to be on the screen
  drawn,       \* version the damage tracker has drawn
  screen,      \* version on the screen
  kms,         \* frames of smithay and of the kernel, 0 for none
  vblank,      \* a VBlank event is waiting to be read
  timer,       \* the watchdog's timer
  cool, late,  \* 16 ms since last_render_at, 33 ms of a wait for a vblank
  requested,   \* screen_snapshot_requested
  snapshot,    \* version of last_screen_snapshot, 0 for None
  shown,       \* clients whose window is in the space
  waiting,     \* clients that wait for their frame callback
  capture,     \* the last answer of capture_screen
  failures,    \* how many steps have failed
  excused      \* history: nothing is to redraw the scene as it is

loopVars  == <<running, awake, vblank, timer, cool, late>>
stateVars == <<redraw, needed>>
sceneVars == <<scene, shown>>
drawVars  == <<drawn, screen, kms, requested, snapshot, waiting>>
redrawVars == <<legacy, loopVars, stateVars, drawVars, sceneVars, capture, failures, excused>>

NoCapture == [status |-> "no frame", version |-> 0]

\* The answer to a capture for which the given version is the last snapshot.
Answer(version, request) ==
  IF version = 0 THEN NoCapture
  ELSE IF CaptureOptionsAccepted(FrameWidth, FrameHeight, request.region, request.scale)
  THEN [status |-> "ok", version |-> version]
  ELSE [status |-> "bad options", version |-> 0]

RedrawInit ==
  /\ legacy \in BOOLEAN
  /\ running = FALSE /\ awake = FALSE
  /\ redraw = "Idle" /\ needed = FALSE
  /\ scene = 1 /\ drawn = 0 /\ screen = 0
  /\ kms = [pending |-> 0, queued |-> 0, flip |-> 0]
  /\ vblank = FALSE
  /\ timer = "armed" /\ cool = TRUE /\ late = FALSE
  /\ requested = FALSE /\ snapshot = 0
  /\ shown = {} /\ waiting = {}
  /\ capture = NoCapture
  /\ failures = 0
  /\ excused = FALSE

-----------------------------------------------------------------------------
\* queue_redraw, from the state it finds.
QueueRedraw(state, need) ==
  /\ redraw' = IF state = "Idle" THEN "Queued" ELSE state
  /\ needed' = IF state = "WaitingForVBlank" THEN TRUE ELSE need

\* send_frame_callbacks, to the windows in the space.
SendFrameCallbacks == waiting' = waiting \ shown

MayFail == failures < MaxFailures
Fails   == MayFail /\ failures' = failures + 1
Works   == UNCHANGED failures

\* Whether damage that did not reach the screen counts as drawn is smithay's
\* affair.
LoseFrame == drawn' \in {drawn, scene} /\ excused' = TRUE

\* render_frame up to the match: the primary plane is snapshot if a capture
\* has asked for it; if that fails the old snapshot stays.
TakeSnapshot(wanted) ==
  /\ requested' = FALSE
  /\ \/ wanted /\ snapshot' = scene /\ Works
     \/ wanted /\ snapshot' = snapshot /\ Fails
     \/ ~ wanted /\ snapshot' = snapshot /\ Works

\* Nothing to draw: the clients' callbacks are sent at once.  A capture that
\* comes here while a frame is in flight gives up the wait for it, and the
\* frame queued behind it stays there.
RenderEmpty(wanted) ==
  /\ drawn = scene
  /\ TakeSnapshot(wanted)
  /\ redraw' = "Idle" /\ needed' = FALSE
  /\ SendFrameCallbacks
  /\ excused' = (excused \/ kms.queued # 0)
  /\ UNCHANGED <<drawn, screen, kms>>

\* commit_frame: the frame is on the screen when it returns.
CommitFrame(wanted) ==
  /\ legacy /\ drawn # scene
  /\ TakeSnapshot(wanted)
  /\ redraw' = "Idle" /\ needed' = FALSE
  /\ drawn' = scene /\ screen' = scene
  /\ SendFrameCallbacks
  /\ excused' = FALSE
  /\ UNCHANGED kms

\* queue_frame: submitted to the kernel, or kept behind the pending frame.
QueueFrame(wanted) ==
  /\ ~ legacy /\ drawn # scene
  /\ TakeSnapshot(wanted)
  /\ \/ /\ kms.pending = 0 /\ kms.flip = 0
        /\ kms' = [kms EXCEPT !.pending = scene, !.flip = scene]
     \/ /\ kms.pending # 0
        /\ kms' = [kms EXCEPT !.queued = scene]
  /\ redraw' = "WaitingForVBlank" /\ needed' = FALSE
  /\ drawn' = scene
  /\ excused' = FALSE
  /\ UNCHANGED <<screen, waiting>>

\* The kernel refuses the flip, as one is under way.
QueueFrameBusy(wanted) ==
  /\ ~ legacy /\ drawn # scene
  /\ kms.pending = 0 /\ kms.flip # 0
  /\ TakeSnapshot(wanted)
  /\ redraw' = "Idle" /\ needed' = FALSE
  /\ LoseFrame
  /\ UNCHANGED <<screen, kms, waiting>>

\* Rendering fails, or, with the snapshot taken, the submission does.
RenderFails(wanted) ==
  /\ Fails
  /\ redraw' = "Idle" /\ needed' = FALSE
  /\ LoseFrame
  /\ \/ requested' = wanted /\ snapshot' = snapshot
     \/ /\ drawn # scene
        /\ requested' = FALSE /\ snapshot' = IF wanted THEN scene ELSE snapshot
  /\ UNCHANGED <<screen, kms, waiting>>

RenderFrame(wanted) ==
  /\ cool' = FALSE /\ late' = FALSE
  /\ \/ RenderEmpty(wanted) \/ CommitFrame(wanted) \/ QueueFrame(wanted)
     \/ QueueFrameBusy(wanted) \/ RenderFails(wanted)

-----------------------------------------------------------------------------
\* run(): the first frame, before the loop.
FirstFrame ==
  /\ ~ running
  /\ running' = TRUE
  /\ RenderFrame(requested)
  /\ UNCHANGED <<legacy, awake, vblank, timer, sceneVars, capture>>

\* One handler of the loop begins.
Handler == running /\ awake' = TRUE

\* A handler that changes what is seen.
ChangeScene == Handler /\ scene < MaxScene /\ scene' = scene + 1

\* commit: a client has drawn and waits for its frame callback.  Its buffer is
\* seen if its window is in the space and the buffer has changed; a redraw is
\* asked for in any case.
Commit(c) ==
  /\ Handler
  /\ waiting' = waiting \cup {c}
  /\ \/ c \in shown /\ ChangeScene
     \/ UNCHANGED scene
  /\ QueueRedraw(redraw, needed)
  /\ UNCHANGED <<legacy, running, vblank, timer, cool, late, drawn, screen, kms, requested,
                 snapshot, shown, capture, failures, excused>>

\* The handlers that change what is seen and ask for a redraw: pointer and
\* cursor, maximizing, drags and the tools.
Change ==
  /\ ChangeScene
  /\ QueueRedraw(redraw, needed)
  /\ UNCHANGED <<legacy, running, vblank, timer, cool, late, drawVars, shown, capture, failures,
                 excused>>

\* minimize_window.
Hide(c) ==
  /\ ChangeScene
  /\ c \in shown /\ shown' = shown \ {c}
  /\ QueueRedraw(redraw, needed)
  /\ UNCHANGED <<legacy, running, vblank, timer, cool, late, drawVars, capture, failures, excused>>

\* new_toplevel, unminimize_window and the move of a window that was minimized
\* while it is dragged.
Show(c) ==
  /\ ChangeScene
  /\ c \notin shown /\ shown' = shown \cup {c}
  /\ QueueRedraw(redraw, needed)
  /\ UNCHANGED <<legacy, running, vblank, timer, cool, late, drawVars, capture, failures, excused>>

\* What changes what is seen but asks for no redraw: the decoration handlers,
\* the end of a window (toplevel_destroyed, space.refresh) and the resizing by
\* dragging, which also brings back a window that was minimized meanwhile.
ChangeQuietly ==
  /\ ChangeScene
  /\ excused' = TRUE
  /\ \/ UNCHANGED <<shown, waiting>>
     \/ \E c \in Clients :
          \/ shown' = shown \ {c} /\ waiting' = waiting \ {c}
          \/ shown' = shown \cup {c} /\ UNCHANGED waiting
  /\ UNCHANGED <<legacy, running, vblank, timer, cool, late, stateVars, drawn, screen, kms,
                 requested, snapshot, capture, failures>>

\* frame_submitted: the pending frame is done, and the one behind it goes to
\* the kernel, unless that still shows the one before.
FrameSubmitted ==
  \/ /\ kms.queued = 0
     /\ kms' = [kms EXCEPT !.pending = 0]
     /\ UNCHANGED excused
  \/ /\ kms.queued # 0 /\ kms.flip = 0
     /\ kms' = [kms EXCEPT !.pending = kms.queued, !.flip = kms.queued, !.queued = 0]
     /\ UNCHANGED excused
  \/ /\ kms.queued # 0 /\ kms.flip # 0
     /\ kms' = [kms EXCEPT !.pending = 0, !.queued = 0]
     /\ excused' = TRUE

EndOfWaitSilently ==
  /\ FrameSubmitted
  /\ redraw' = IF needed THEN "Queued" ELSE "Idle"
  /\ needed' = FALSE /\ late' = FALSE
  /\ UNCHANGED waiting

\* The end of a wait, by vblank or watchdog: callbacks go out, and a redraw
\* asked for meanwhile is queued.
EndOfWait ==
  /\ FrameSubmitted
  /\ SendFrameCallbacks
  /\ redraw' = IF needed THEN "Queued" ELSE "Idle"
  /\ needed' = FALSE /\ late' = FALSE

\* The DRM event VBlank.  redraw_state is replaced by Idle before it is
\* looked at, so that a vblank nobody waits for forgets a queued redraw.
VBlank ==
  /\ Handler
  /\ vblank /\ vblank' = FALSE
  /\ IF redraw = "WaitingForVBlank"
     THEN EndOfWait
     ELSE /\ redraw' = "Idle"
          /\ excused' = (excused \/ redraw = "Queued")
          /\ UNCHANGED <<kms, waiting, needed, late>>
  /\ UNCHANGED <<legacy, running, timer, cool, sceneVars, drawn, screen,
                 requested, snapshot, capture, failures>>

WatchdogOnce ==
  /\ Handler
  /\ timer = "due" /\ timer' = "gone"
  /\ IF redraw = "WaitingForVBlank" /\ late
     THEN EndOfWait
     ELSE UNCHANGED <<stateVars, kms, waiting, late, excused>>
  /\ UNCHANGED <<legacy, running, vblank, cool, sceneVars, drawn, screen,
                 requested, snapshot, capture, failures>>

\* The watchdog's timer, which is armed again each time.
Watchdog ==
  /\ Handler
  /\ timer = "due" /\ timer' = "armed"
  /\ IF redraw = "WaitingForVBlank" /\ late
     THEN EndOfWait
     ELSE UNCHANGED <<stateVars, kms, waiting, late, excused>>
  /\ UNCHANGED <<legacy, running, vblank, cool, sceneVars, drawn, screen,
                 requested, snapshot, capture, failures>>

\* The variant that leaves a frame in flight alone.
CaptureScreenUnlessWaiting(request) ==
  /\ Handler
  /\ \/ redraw # "WaitingForVBlank" /\ RenderFrame(TRUE)
     \/ redraw = "WaitingForVBlank" /\ requested' = TRUE
        /\ UNCHANGED <<cool, late, stateVars, drawn, screen, kms, snapshot, waiting,
                       failures, excused>>
  /\ capture' = Answer(snapshot', request)
  /\ UNCHANGED <<legacy, running, vblank, timer, sceneVars>>

\* capture_screen, called by the tool: it renders whatever redraw_state is,
\* and answers with the last snapshot, whether or not that is of this frame.
CaptureScreen(request) ==
  /\ Handler
  /\ RenderFrame(TRUE)
  /\ capture' = Answer(snapshot', request)
  /\ UNCHANGED <<legacy, running, vblank, timer, sceneVars>>

AfterDispatchDropsEarly ==
  /\ awake /\ awake' = FALSE
  /\ \/ redraw = "Queued" /\ cool /\ RenderFrame(requested)
     \/ /\ redraw = "Queued" /\ ~ cool /\ redraw' = "Idle"
        /\ UNCHANGED <<cool, late, needed, drawVars, failures, excused>>
     \/ /\ redraw # "Queued"
        /\ UNCHANGED <<cool, late, stateVars, drawVars, failures, excused>>
  /\ UNCHANGED <<legacy, running, vblank, timer, sceneVars, capture>>

\* After a round of handlers, before the loop blocks again.
AfterDispatch ==
  /\ awake /\ awake' = FALSE
  /\ IF redraw = "Queued" /\ cool
     THEN RenderFrame(requested)
     ELSE UNCHANGED <<cool, late, stateVars, drawVars, failures, excused>>
  /\ UNCHANGED <<legacy, running, vblank, timer, sceneVars, capture>>

-----------------------------------------------------------------------------
\* The kernel has shown the frame it was flipping to.
FlipDone ==
  /\ kms.flip # 0
  /\ screen' = kms.flip
  /\ kms' = [kms EXCEPT !.flip = 0]
  /\ vblank' = TRUE
  /\ UNCHANGED <<legacy, running, awake, timer, cool, late, stateVars, drawn, requested,
                 snapshot, waiting, sceneVars, capture, failures, excused>>

\* Time passes: 16 ms of the timer, 16 ms since the last frame, 33 ms since
\* the submission.
TimerExpires ==
  /\ running /\ timer = "armed" /\ timer' = "due"
  /\ UNCHANGED <<legacy, running, awake, vblank, cool, late, stateVars, drawVars, sceneVars,
                 capture, failures, excused>>

CoolDown ==
  /\ ~ cool /\ cool' = TRUE
  /\ UNCHANGED <<legacy, running, awake, vblank, timer, late, stateVars, drawVars, sceneVars,
                 capture, failures, excused>>

GetLate ==
  /\ cool /\ ~ late /\ redraw = "WaitingForVBlank"
  /\ late' = TRUE
  /\ UNCHANGED <<legacy, running, awake, vblank, timer, cool, stateVars, drawVars, sceneVars,
                 capture, failures, excused>>

RedrawNext ==
  \/ FirstFrame
  \/ \E c \in Clients : Commit(c) \/ Hide(c) \/ Show(c)
  \/ Change \/ ChangeQuietly
  \/ VBlank \/ Watchdog
  \/ \E request \in Requests : CaptureScreen(request)
  \/ AfterDispatch
  \/ FlipDone \/ TimerExpires \/ CoolDown \/ GetLate

\* The loop runs, timers expire, and the kernel shows what it has accepted and
\* says so.  Clients, tools and captures need not do anything.
Fairness ==
  /\ WF_redrawVars(FirstFrame) /\ WF_redrawVars(AfterDispatch)
  /\ WF_redrawVars(Watchdog) /\ WF_redrawVars(VBlank)
  /\ WF_redrawVars(TimerExpires) /\ WF_redrawVars(CoolDown) /\ WF_redrawVars(GetLate)
  /\ WF_redrawVars(FlipDone)

RedrawSpec == RedrawInit /\ [][RedrawNext]_redrawVars /\ Fairness

-----------------------------------------------------------------------------
(* Properties *)

\* A capture shows the scene as it is when it is taken, also while another
\* frame is in flight, unless rendering or snapshotting failed in that very
\* call; and no capture shows an older scene than one before it
\* (capture_screen answers with the last snapshot whatever render_frame did).
CaptureIsFresh ==
  [][\A request \in Requests :
       capture'.status = "ok" /\ CaptureScreen(request) =>
         /\ capture'.version >= capture.version
         /\ capture'.version = scene \/ failures' > failures]_redrawVars

\* What the answer to a capture shows: no pixel lies outside the region or the
\* frame, whatever the region's coordinates overflow to, each is the source
\* pixel under its own upper left corner, and a legal request at full size is
\* not refused.
Legal(region) ==
  /\ region.x >= 0 /\ region.width > 0 /\ region.x + region.width <= FrameWidth
  /\ region.y >= 0 /\ region.height > 0 /\ region.y + region.height <= FrameHeight

Nearest(region, width, height, p, q) ==
  /\ q[1] \in region.x..(region.x + region.width - 1)
  /\ q[2] \in region.y..(region.y + region.height - 1)
  /\ (q[1] - region.x) * width <= p[1] * region.width
  /\ p[1] * region.width < (q[1] - region.x + 1) * width
  /\ (q[2] - region.y) * height <= p[2] * region.height
  /\ p[2] * region.height < (q[2] - region.y + 1) * height

PictureIsNearest ==
  [request \in Requests |->
     LET region == request.region
         scale  == request.scale
         width  == Scaled(region.width, scale)
         height == Scaled(region.height, scale)
         pixels == ScaledPixels(region, scale)
     IN \A p \in (0..(width - 1)) \X (0..(height - 1)) :
          Nearest(region, width, height, p, pixels[p])]

Shows(request, answer) ==
  /\ answer.status = "bad options" =>
       ~ (Legal(request.region) /\ request.scale.num = request.scale.den /\ request.scale.den # 0)
  /\ answer.status = "ok" => Legal(request.region) /\ PictureIsNearest[request]

\* A capture shows the region asked for, in the scale asked for
\* (validate_region, scaled_dimension and resize_nearest_rgba).
CaptureShowsRegion ==
  [][\A request \in Requests :
       CaptureScreen(request) => Shows(request, capture')]_redrawVars

\* The scene reaches the screen in the end, though redraws are rate-limited,
\* frames are in flight, captures render in between and the watchdog gives up
\* waiting.  It may not only if the last redraw failed, if nobody asked for
\* one, or if a vblank nobody waited for made the loop forget it.
SceneShown == (screen # scene) ~> (screen = scene \/ excused)

\* A client that waits for its frame callback gets it, with the same
\* exceptions: clients draw no further frame before.  One whose window is not
\* in the space gets none until it is there again (send_frame_callbacks).
CallbackSent ==
  \A c \in Clients :
    (c \in waiting \cap shown) ~> (c \notin waiting \cap shown \/ excused)

\* No change is forgotten, in either mode: what is not on the screen is queued
\* to be drawn, remembered for the end of the wait, or in flight, and a client
\* in the space that waits for its callback waits for a render or a vblank, one
\* that was minimized and shown again included.  The exceptions are again a
\* failed redraw, one that nobody asked for, and one forgotten at a vblank
\* nobody waited for (queue_redraw, render_frame, send_frame_callbacks and the
\* two handlers that end a wait).
NothingForgotten ==
  running /\ ~ excused =>
    /\ screen # scene => \/ redraw = "Queued"
                         \/ redraw = "WaitingForVBlank" /\ (needed \/ kms.queued = scene)
                         \/ kms.flip = scene
    /\ waiting \cap shown # {} => redraw # "Idle"
=============================================================================
