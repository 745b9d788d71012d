-------------------------- MODULE HeadlessDisplay --------------------------
(***************************************************************************)
(* The headless framebuffer of apc-host (apc-host/src/headless.rs): a pool *)
(* of NUM_BUFFERS pixel buffers shared by the virtio-gpu thread, which     *)
(* configures the scanout and allocates, fills and presents frames, and by *)
(* the threads that answer `screen_capture`.  Those use the entry point    *)
(* capture_latest_framebuffer; the other one, capture_framebuffer, polls   *)
(* for new frames and has no caller in the repository.                     *)
(*                                                                         *)
(* The mutex protects the pool (buffers and the three indices); the        *)
(* dimensions and the two sequence numbers are atomics outside it.  A step *)
(* here is one critical section or one access to an atomic that another    *)
(* thread may change; the dimensions are stored by the virtio-gpu thread   *)
(* only, whose own comparison with them needs no step.  A frame is its     *)
(* sequence number, a buffer is its dimensions, the frame it holds and     *)
(* whether that frame is `whole`, that is, not being filled.               *)
(***************************************************************************)
EXTENDS Naturals, FiniteSets

CONSTANTS
    Readers,      \* threads inside capture_latest_framebuffer
    Pollers,      \* threads inside capture_framebuffer, which nothing calls yet
    Sizes,        \* widths and heights the guest configures
    NUM_BUFFERS,  \* 3 in the code
    MaxFrames,    \* bound: frames presented in a behaviour
    MaxConfigs    \* bound: scanout configurations in a behaviour

ASSUME BuffersAssumption == NUM_BUFFERS \in Nat /\ NUM_BUFFERS >= 3
ASSUME SizesAssumption == Sizes \subseteq Nat \ {0}
ASSUME BoundsAssumption == MaxFrames \in Nat /\ MaxConfigs \in Nat
ASSUME CallersAssumption == Readers \cap Pollers = {}

Buffers == 0 .. NUM_BUFFERS - 1
None == NUM_BUFFERS            \* Option::None of ready_idx and read_idx
Index == Buffers \cup {None}
Callers == Readers \cup Pollers

VARIABLES
    buffers, write_idx, ready_idx, read_idx,   \* BufferPool, under the mutex
    width, height, frame_seq, last_seen,       \* atomics, outside the mutex
    gpu,      \* where the virtio-gpu thread is
    target,   \* the dimensions of the configure call in progress
    configs,  \* configurations made so far
    call,     \* per caller: where it is, and the atomics it has loaded
    got,      \* per caller: the result of its latest call
    polled    \* the frame that polling handed out last (history)

pool == <<buffers, write_idx, ready_idx, read_idx>>
dims == <<width, height>>
callers == <<call, got, polled>>
vars == <<pool, dims, frame_seq, last_seen, gpu, target, configs, callers>>

Blank(w, h) == [w |-> w, h |-> h, frame |-> 0, whole |-> TRUE]
NoCapture == [some |-> FALSE, w |-> 0, h |-> 0, pixels |-> Blank(0, 0)]
Start(pc, seq) == [pc |-> pc, w |-> 0, h |-> 0, seq |-> seq]
Idle == Start("idle", 0)

Init ==
    /\ buffers = [b \in Buffers |-> Blank(0, 0)]
    /\ write_idx = 0 /\ ready_idx = None /\ read_idx = None
    /\ width = 0 /\ height = 0 /\ frame_seq = 0 /\ last_seen = 0
    /\ gpu = "idle" /\ target = <<0, 0>> /\ configs = 0
    /\ call = [c \in Callers |-> Idle]
    /\ got = [c \in Callers |-> NoCapture]
    /\ polled = 0

(***************************************************************************)
(* The virtio-gpu thread.  It is one thread of libkrun, so a configure and *)
(* a frame never overlap.  Configuring the dimensions already in force     *)
(* returns early and changes nothing.                                      *)
(***************************************************************************)
ConfigureWidth(w, h) ==
    /\ gpu = "idle" /\ configs < MaxConfigs
    /\ <<w, h>> # <<width, height>>
    /\ width' = w /\ target' = <<w, h>> /\ gpu' = "set_height"
    /\ configs' = configs + 1
    /\ UNCHANGED <<pool, height, frame_seq, last_seen, callers>>

ConfigureHeight ==
    /\ gpu = "set_height"
    /\ height' = target[2] /\ gpu' = "swap_pool"
    /\ UNCHANGED <<pool, width, frame_seq, last_seen, target, configs, callers>>

ConfigurePoolKeepsBuffers ==
    /\ gpu = "swap_pool"
    /\ buffers' = IF buffers[0].w # 0 THEN buffers
                  ELSE [b \in Buffers |-> Blank(target[1], target[2])]
    /\ write_idx' = 0 /\ ready_idx' = None /\ read_idx' = None
    /\ gpu' = "idle"
    /\ UNCHANGED <<dims, frame_seq, last_seen, target, configs, callers>>

ConfigurePool ==
    /\ gpu = "swap_pool"
    /\ buffers' = [b \in Buffers |-> Blank(target[1], target[2])]
    /\ write_idx' = 0 /\ ready_idx' = None /\ read_idx' = None
    /\ gpu' = "idle"
    /\ UNCHANGED <<dims, frame_seq, last_seen, target, configs, callers>>

\* The pointer is handed out and the mutex released: the guest fills the
\* buffer with no lock held, until FillFrame.
AllocFrame ==
    /\ gpu = "idle" /\ frame_seq < MaxFrames
    /\ buffers[write_idx].w * buffers[write_idx].h # 0
    /\ buffers' = [buffers EXCEPT ![write_idx].frame = frame_seq + 1,
                                  ![write_idx].whole = FALSE]
    /\ gpu' = "filling"
    /\ UNCHANGED <<write_idx, ready_idx, read_idx, dims, frame_seq, last_seen,
                   target, configs, callers>>

FillFrame ==
    /\ gpu = "filling"
    /\ buffers' = [buffers EXCEPT ![write_idx].whole = TRUE]
    /\ gpu' = "filled"
    /\ UNCHANGED <<write_idx, ready_idx, read_idx, dims, frame_seq, last_seen,
                   target, configs, callers>>

\* The first buffer that is neither the finished one nor the one being read.
PickWriteNotFinished(finished, read) ==
    LET free == {b \in Buffers : b # read}
    IN  CHOOSE b \in free : \A c \in free : b <= c

PickWriteSuccessor(finished, read) == finished + 1

PickWrite(finished, read) ==
    LET free == {b \in Buffers : b # finished /\ b # read}
    IN  CHOOSE b \in free : \A c \in free : b <= c

PresentFrame ==
    /\ gpu = "filled"
    /\ ready_idx' = write_idx
    /\ write_idx' = PickWrite(write_idx, read_idx)
    /\ frame_seq' = frame_seq + 1
    /\ gpu' = "idle"
    /\ UNCHANGED <<buffers, read_idx, dims, last_seen, target, configs, callers>>

GpuStep ==
    \/ \E w, h \in Sizes : ConfigureWidth(w, h)
    \/ ConfigureHeight \/ ConfigurePool
    \/ AllocFrame \/ FillFrame \/ PresentFrame

(***************************************************************************)
(* A capture.  capture_latest_framebuffer starts at the dimensions;        *)
(* capture_framebuffer first loads both sequence numbers, one after the    *)
(* other, and stores the one unless they are equal.                        *)
(***************************************************************************)
PollLoad(p) ==
    /\ call[p].pc = "idle"
    /\ call' = [call EXCEPT ![p] = Start("compare", frame_seq)]
    /\ got' = [got EXCEPT ![p] = NoCapture]
    /\ UNCHANGED <<pool, dims, frame_seq, last_seen, gpu, target, configs, polled>>

PollCompare(p) ==
    /\ call[p].pc = "compare"
    /\ call' = [call EXCEPT ![p] = IF @.seq = last_seen THEN Idle
                                   ELSE Start("store", @.seq)]
    /\ UNCHANGED <<pool, dims, frame_seq, last_seen, gpu, target, configs, got, polled>>

PollStore(p) ==
    /\ call[p].pc = "store"
    /\ last_seen' = call[p].seq
    /\ call' = [call EXCEPT ![p] = Start("width", 0)]
    /\ UNCHANGED <<pool, dims, frame_seq, gpu, target, configs, got, polled>>

CaptureStart(r) ==
    /\ call[r].pc = "idle"
    /\ call' = [call EXCEPT ![r] = Start("width", 0)]
    /\ got' = [got EXCEPT ![r] = NoCapture]
    /\ UNCHANGED <<pool, dims, frame_seq, last_seen, gpu, target, configs, polled>>

LoadWidth(c) ==
    /\ call[c].pc = "width"
    /\ call' = [call EXCEPT ![c].pc = "height", ![c].w = width]
    /\ UNCHANGED <<pool, dims, frame_seq, last_seen, gpu, target, configs, got, polled>>

LoadHeight(c) ==
    /\ call[c].pc = "height"
    /\ call' = [call EXCEPT ![c] =
                  IF call[c].w = 0 \/ height = 0 THEN Idle
                  ELSE [call[c] EXCEPT !.pc = "lock", !.h = height]]
    /\ UNCHANGED <<pool, dims, frame_seq, last_seen, gpu, target, configs, got, polled>>

\* The result of a call that clones buffer b, or of one that finds none.
Return(c, b) ==
    /\ call' = [call EXCEPT ![c] = Idle]
    /\ got' = [got EXCEPT ![c] =
                 IF b = None THEN NoCapture
                 ELSE [some |-> TRUE, w |-> call[c].w, h |-> call[c].h,
                       pixels |-> buffers[b]]]

LatestPrefersRead == IF read_idx # None THEN read_idx ELSE ready_idx

\* ready_idx.or(read_idx)
Latest == IF ready_idx # None THEN ready_idx ELSE read_idx

CaptureLatest(r) ==
    /\ call[r].pc = "lock"
    /\ Return(r, Latest)
    /\ UNCHANGED <<pool, dims, frame_seq, last_seen, gpu, target, configs, polled>>

TakeReadyKeepsIt(p) ==
    /\ call[p].pc = "lock"
    /\ Return(p, ready_idx)
    /\ read_idx' = IF ready_idx = None THEN read_idx ELSE ready_idx
    /\ polled' = IF ready_idx = None THEN polled ELSE buffers[ready_idx].frame
    /\ UNCHANGED <<buffers, write_idx, ready_idx, dims, frame_seq, last_seen,
                   gpu, target, configs>>

TakeReady(p) ==
    /\ call[p].pc = "lock"
    /\ Return(p, ready_idx)
    /\ read_idx' = IF ready_idx = None THEN read_idx ELSE ready_idx
    /\ polled' = IF ready_idx = None THEN polled ELSE buffers[ready_idx].frame
    /\ ready_idx' = None
    /\ UNCHANGED <<buffers, write_idx, dims, frame_seq, last_seen,
                   gpu, target, configs>>

ReaderStep(r) == CaptureStart(r) \/ LoadWidth(r) \/ LoadHeight(r) \/ CaptureLatest(r)
PollerStep(p) ==
    \/ PollLoad(p) \/ PollCompare(p) \/ PollStore(p)
    \/ LoadWidth(p) \/ LoadHeight(p) \/ TakeReady(p)

Next ==
    \/ GpuStep
    \/ \E r \in Readers : ReaderStep(r)
    \/ \E p \in Pollers : PollerStep(p)

Spec == Init /\ [][Next]_vars

-----------------------------------------------------------------------------
(* Properties *)

Extent == Sizes \cup {0}
Frames == 0 .. MaxFrames
Pixels == [w : Extent, h : Extent, frame : Frames, whole : BOOLEAN]
Calls == [pc : {"idle", "compare", "store", "width", "height", "lock"},
          w : Extent, h : Extent, seq : Frames]
Captures == [some : BOOLEAN, w : Extent, h : Extent, pixels : Pixels]

\* Every variable keeps its type; in particular no index leaves the pool.
TypeOK ==
    /\ buffers \in [Buffers -> Pixels]
    /\ write_idx \in Buffers /\ ready_idx \in Index /\ read_idx \in Index
    /\ width \in Extent /\ height \in Extent
    /\ frame_seq \in Frames /\ last_seen \in Frames
    /\ gpu \in {"idle", "set_height", "swap_pool", "filling", "filled"}
    /\ target \in Extent \X Extent /\ configs \in 0 .. MaxConfigs
    /\ call \in [Callers -> Calls]
    /\ got \in [Callers -> Captures]
    /\ polled \in Frames

\* No capture, by either entry point and in any interleaving with the guest
\* filling a buffer outside the mutex, returns a half-written frame.
NoTornCapture == \A c \in Callers : got[c].some => got[c].pixels.whole

Returns(c) == ~got[c].some /\ got'[c].some

\* A capture that succeeds returns the newest presented frame as of its
\* critical section: never an older frame, never a never-presented (blank)
\* buffer of a pool that was just swapped in.
CaptureIsLatest ==
    [][\A c \in Callers : Returns(c) => got'[c].pixels.frame = frame_seq]_vars

\* What capture_framebuffer's doc comment promises its callers, however many:
\* it hands out a frame only if no earlier call, by any thread, handed out that
\* frame or a newer one, though a thread may compare numbers that are stale by
\* then and put last_seen back.
PollReturnsNewFrame ==
    [][\A p \in Pollers : Returns(p) => got'[p].pixels.frame > polled]_vars

Skewed(g) == g.some /\ <<g.w, g.h>> # <<g.pixels.w, g.pixels.h>>

\* A capture reads the dimensions, which are atomics, before it locks the pool.
\* It may report those of one configuration with the pixels of another, but
\* only while a configure call is in progress, or when one has changed the
\* dimensions since the capture loaded them.
SkewNeedsReconfiguration ==
    [][\A c \in Callers :
         (Returns(c) /\ gpu \notin {"set_height", "swap_pool"}
                     /\ <<call[c].w, call[c].h>> = <<width, height>>)
            => ~Skewed(got'[c])]_vars
=============================================================================
