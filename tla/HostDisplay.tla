---------------------------- MODULE HostDisplay ----------------------------
(***************************************************************************)
(* The macOS framebuffer of apc-host (apc-host/src/display.rs): a pool of  *)
(* NUM_SURFACES IOSurfaces shared by the virtio-gpu thread, which          *)
(* configures the scanout and presents frames, the main thread, whose      *)
(* timer puts the newest frame into the viewer's layer (app/view.rs), and  *)
(* the threads that answer `screen_capture`.                               *)
(*                                                                         *)
(* As in HeadlessDisplay, a step is one critical section of the mutex or   *)
(* one access to an atomic that another thread may change (the dimensions  *)
(* are stored by the virtio-gpu thread only, last_seen by the main thread  *)
(* only), a frame is its sequence number, and a surface is its dimensions, *)
(* its frame and whether that frame is whole.  A pool is numbered by the   *)
(* configure call that made it; CoreAnimation reads the surface in the     *)
(* layer at any time, with no lock of this program.                        *)
(***************************************************************************)
EXTENDS Naturals, FiniteSets

CONSTANTS
    Readers,       \* threads inside capture_framebuffer
    Sizes,         \* widths and heights the guest configures
    NUM_SURFACES,  \* 4 in the code
    MaxFrames,     \* bound: frames presented in a behaviour
    MaxConfigs     \* bound: scanout configurations in a behaviour

ASSUME SurfacesAssumption == NUM_SURFACES \in Nat /\ NUM_SURFACES >= 4
ASSUME SizesAssumption == Sizes \subseteq Nat \ {0}
ASSUME BoundsAssumption == MaxFrames \in Nat /\ MaxConfigs \in Nat

Surfaces == 0 .. NUM_SURFACES - 1
None == NUM_SURFACES           \* Option::None of the three optional indices

VARIABLES
    surfaces, write_idx, ready_idx, display_idx, prev_display_idx,   \* SurfacePool
    made,       \* the configure call that made the pool, 0 before the first
    width, height, frame_seq, last_seen,   \* atomics, outside the mutex
    gpu,        \* where the virtio-gpu thread is
    target,     \* the dimensions of the configure call in progress
    configs,    \* configure calls so far
    view,       \* where the main thread's update_framebuffer is
    layer,      \* the surface in the layer: its pool, index and frame
    call,       \* per reader: where it is, and the dimensions it has loaded
    got,        \* per reader: the result of its latest call
    returned    \* the frame of the capture that returned last (history)

indices == <<write_idx, ready_idx, display_idx, prev_display_idx>>
pool == <<surfaces, indices, made>>
dims == <<width, height>>
gpuVars == <<gpu, target, configs>>
viewVars == <<view, layer>>
readers == <<call, got, returned>>
vars == <<pool, dims, frame_seq, last_seen, gpuVars, viewVars, readers>>

Null == [w |-> 0, h |-> 0, frame |-> 0, whole |-> TRUE]
Blank(w, h) == [w |-> w, h |-> h, frame |-> 0, whole |-> TRUE]
NoSurface == [made |-> 0, idx |-> None, frame |-> 0]
Idle == [pc |-> "idle", w |-> 0, h |-> 0]
NoCapture == [some |-> FALSE, w |-> 0, h |-> 0, pixels |-> Null]

Init ==
    /\ surfaces = [s \in Surfaces |-> Null]
    /\ write_idx = 0 /\ ready_idx = None
    /\ display_idx = None /\ prev_display_idx = None /\ made = 0
    /\ width = 0 /\ height = 0 /\ frame_seq = 0 /\ last_seen = 0
    /\ gpu = "idle" /\ target = <<0, 0>> /\ configs = 0
    /\ view = [pc |-> "idle", seq |-> 0, front |-> NoSurface]
    /\ layer = NoSurface
    /\ call = [r \in Readers |-> Idle]
    /\ got = [r \in Readers |-> NoCapture]
    /\ returned = 0

(***************************************************************************)
(* The virtio-gpu thread: cb_configure_scanout, cb_alloc_frame and         *)
(* cb_present_frame, one at a time.                                        *)
(***************************************************************************)
ConfigureWidth(w, h) ==
    /\ gpu = "idle" /\ configs < MaxConfigs
    /\ <<w, h>> # <<width, height>>
    /\ width' = w /\ target' = <<w, h>> /\ gpu' = "set_height"
    /\ configs' = configs + 1
    /\ UNCHANGED <<pool, height, frame_seq, last_seen, viewVars, readers>>

ConfigureHeight ==
    /\ gpu = "set_height"
    /\ height' = target[2] /\ gpu' = "create"
    /\ UNCHANGED <<pool, width, frame_seq, last_seen, target, configs, viewVars, readers>>

\* A surface cannot be created: the old pool stays, with the new dimensions.
CreateFails ==
    /\ gpu = "create" /\ gpu' = "idle"
    /\ UNCHANGED <<pool, dims, frame_seq, last_seen, target, configs, viewVars, readers>>

ConfigurePoolReusesSurfaces ==
    /\ gpu = "create" /\ gpu' = "idle"
    /\ surfaces' = [s \in Surfaces |->
                      IF target[1] <= surfaces[s].w THEN surfaces[s]
                      ELSE Blank(target[1], target[2])]
    /\ write_idx' = 0 /\ ready_idx' = None
    /\ display_idx' = None /\ prev_display_idx' = None
    /\ made' = configs
    /\ UNCHANGED <<dims, frame_seq, last_seen, target, configs, viewVars, readers>>

ConfigurePoolKeepsIndices ==
    /\ gpu = "create" /\ gpu' = "idle"
    /\ surfaces' = [s \in Surfaces |-> Blank(target[1], target[2])]
    /\ made' = configs
    /\ UNCHANGED <<indices, dims, frame_seq, last_seen, target, configs,
                   viewVars, readers>>

\* The old surfaces are released; the layer keeps the one it shows.
ConfigurePool ==
    /\ gpu = "create" /\ gpu' = "idle"
    /\ surfaces' = [s \in Surfaces |-> Blank(target[1], target[2])]
    /\ write_idx' = 0 /\ ready_idx' = None
    /\ display_idx' = None /\ prev_display_idx' = None
    /\ made' = configs
    /\ UNCHANGED <<dims, frame_seq, last_seen, target, configs, viewVars, readers>>

AllocFrame ==
    /\ gpu = "idle" /\ frame_seq < MaxFrames
    /\ surfaces[write_idx] # Null
    /\ surfaces' = [surfaces EXCEPT ![write_idx].frame = frame_seq + 1,
                                    ![write_idx].whole = FALSE]
    /\ gpu' = "filling"
    /\ UNCHANGED <<indices, made, dims, frame_seq, last_seen, target, configs,
                   viewVars, readers>>

FillFrame ==
    /\ gpu = "filling"
    /\ surfaces' = [surfaces EXCEPT ![write_idx].whole = TRUE]
    /\ gpu' = "filled"
    /\ UNCHANGED <<indices, made, dims, frame_seq, last_seen, target, configs,
                   viewVars, readers>>

PickWriteIgnoresPrevious(finished, shown, previous) ==
    LET free == Surfaces \ {finished, shown}
    IN  CHOOSE s \in free : \A t \in free : s <= t

PickWriteIgnoresShown(finished, shown, previous) ==
    LET free == Surfaces \ {finished, previous}
    IN  CHOOSE s \in free : \A t \in free : s <= t

\* The first surface that is not the finished one, the shown or the one before.
PickWrite(finished, shown, previous) ==
    LET free == Surfaces \ {finished, shown, previous}
    IN  CHOOSE s \in free : \A t \in free : s <= t

PresentFrame ==
    /\ gpu = "filled" /\ gpu' = "idle"
    /\ ready_idx' = write_idx
    /\ write_idx' = PickWrite(write_idx, display_idx, prev_display_idx)
    /\ frame_seq' = frame_seq + 1
    /\ UNCHANGED <<surfaces, display_idx, prev_display_idx, made, dims, last_seen,
                   target, configs, viewVars, readers>>

GpuStep ==
    \/ \E w, h \in Sizes : ConfigureWidth(w, h)
    \/ ConfigureHeight \/ CreateFails \/ ConfigurePool
    \/ AllocFrame \/ FillFrame \/ PresentFrame

(***************************************************************************)
(* The main thread: every tick of the display timer calls                  *)
(* update_framebuffer, which takes the front surface and shows it.         *)
(***************************************************************************)
ViewLoad ==
    /\ view.pc = "idle" /\ frame_seq # last_seen
    /\ view' = [view EXCEPT !.pc = "seen", !.seq = frame_seq]
    /\ UNCHANGED <<pool, dims, frame_seq, last_seen, gpuVars, layer, readers>>

ViewStore ==
    /\ view.pc = "seen"
    /\ last_seen' = view.seq
    /\ view' = [view EXCEPT !.pc = "lock"]
    /\ UNCHANGED <<pool, dims, frame_seq, gpuVars, layer, readers>>

\* get_front_surface's critical section; it returns a pointer, not a reference.
TakeFront ==
    /\ view.pc = "lock"
    /\ IF ready_idx = None
       THEN /\ view' = [view EXCEPT !.pc = "idle", !.seq = 0]
            /\ UNCHANGED indices
       ELSE /\ prev_display_idx' = display_idx
            /\ display_idx' = ready_idx /\ ready_idx' = None
            /\ view' = [pc |-> "show", seq |-> 0,
                        front |-> [made |-> made, idx |-> ready_idx,
                                   frame |-> surfaces[ready_idx].frame]]
            /\ UNCHANGED write_idx
    /\ UNCHANGED <<surfaces, made, dims, frame_seq, last_seen, gpuVars, layer, readers>>

ShowMarksSeen ==
    /\ view.pc = "show"
    /\ layer' = view.front /\ last_seen' = frame_seq
    /\ view' = [view EXCEPT !.pc = "idle", !.front = NoSurface]
    /\ UNCHANGED <<pool, dims, frame_seq, gpuVars, readers>>

\* update_framebuffer leaves the layer alone if it has this surface already.
Show ==
    /\ view.pc = "show"
    /\ layer' = view.front
    /\ view' = [view EXCEPT !.pc = "idle", !.front = NoSurface]
    /\ UNCHANGED <<pool, dims, frame_seq, last_seen, gpuVars, readers>>

ViewStep == ViewLoad \/ ViewStore \/ TakeFront \/ Show

(***************************************************************************)
(* A capture: the dimensions, then the pool, and under its mutex the rows  *)
(* of the front surface, or of the ready one while none is shown.          *)
(***************************************************************************)
LoadWidth(r) ==
    /\ call[r].pc = "idle"
    /\ call' = [call EXCEPT ![r] = [pc |-> "height", w |-> width, h |-> 0]]
    /\ got' = [got EXCEPT ![r] = NoCapture]
    /\ UNCHANGED <<pool, dims, frame_seq, last_seen, gpuVars, viewVars, returned>>

LoadHeight(r) ==
    /\ call[r].pc = "height"
    /\ call' = [call EXCEPT ![r] =
                  IF @.w = 0 \/ height = 0 THEN Idle
                  ELSE [@ EXCEPT !.pc = "lock", !.h = height]]
    /\ UNCHANGED <<pool, dims, frame_seq, last_seen, gpuVars, viewVars, got, returned>>

\* display_idx.or(ready_idx)
Front == IF display_idx # None THEN display_idx ELSE ready_idx

\* The surface's stride must hold a row; its number of rows is not checked.
Capture(r) ==
    /\ call[r].pc = "lock"
    /\ call' = [call EXCEPT ![r] = Idle]
    /\ IF Front # None /\ surfaces[Front] # Null /\ call[r].w <= surfaces[Front].w
       THEN /\ got' = [got EXCEPT ![r] = [some |-> TRUE, w |-> call[r].w, h |-> call[r].h,
                                          pixels |-> surfaces[Front]]]
            /\ returned' = surfaces[Front].frame
       ELSE UNCHANGED <<got, returned>>
    /\ UNCHANGED <<pool, dims, frame_seq, last_seen, gpuVars, viewVars>>

ReaderStep(r) == LoadWidth(r) \/ LoadHeight(r) \/ Capture(r)

Next == GpuStep \/ ViewStep \/ \E r \in Readers : ReaderStep(r)

Spec == Init /\ [][Next]_vars

\* The display timer keeps ticking; nothing is assumed of the other threads.
FairSpec == Spec /\ WF_vars(ViewStep)

-----------------------------------------------------------------------------
(* Properties *)

InPool(front) == front.idx # None /\ front.made = made

\* The surface in the layer, and the one about to go there, still hold the
\* frame they were taken with: the guest is never handed a surface that
\* CoreAnimation may be reading, not even between get_front_surface and
\* setContents, when the layer still holds the surface before.
ShownIsUntouched ==
    \A front \in {layer, view.front} :
      InPool(front) =>
        surfaces[front.idx].whole /\ surfaces[front.idx].frame = front.frame

\* A capture reads with the mutex held while the guest fills a surface without
\* it, and still never returns a half-written frame nor one never presented.
CaptureIsWhole ==
    \A r \in Readers : got[r].some => got[r].pixels.whole /\ got[r].pixels.frame > 0

Service == INSTANCE FrameService WITH
    presented <- frame_seq, shown <- layer.frame, captured <- returned

\* The pool of surfaces implements FrameService: however often the scanout is
\* configured and however the three threads interleave, neither the viewer nor
\* a capture goes back in time, and no capture is behind the viewer, though
\* the layer is set long after the mutex of the pool was released.
ImplementsFrameService == Service!ServiceSpec

\* A capture reads only rows that its surface has, unless a configure call is
\* under way, has changed the dimensions since they were loaded, or has left
\* the pool behind because a surface could not be created.
RowsExist ==
    [][\A r \in Readers :
         (/\ ~got[r].some /\ got'[r].some
          /\ gpu \notin {"set_height", "create"} /\ made = configs
          /\ <<call[r].w, call[r].h>> = <<width, height>>)
            => got'[r].h <= got'[r].pixels.h]_vars

\* A frame that is presented reaches the layer, it or a newer one, unless a
\* configure call drops the pool: no order of the sequence numbers, which are
\* read outside the mutex, makes the timer take it for one already seen, and
\* what the timer takes it shows.
LastFrameShown ==
    \A f \in 1 .. MaxFrames, m \in 1 .. MaxConfigs :
      (ready_idx # None /\ frame_seq = f /\ made = m) ~> (layer.frame >= f \/ made # m)
=============================================================================
