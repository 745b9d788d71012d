--------------------------- MODULE MacViewerProofs ---------------------------
(***************************************************************************)
(* Proofs about the two sides of the macOS viewer, which share no state:   *)
(* the framebuffer it shows (HostDisplay) and the input it forwards        *)
(* (HostInput).                                                            *)
(*                                                                         *)
(* Of the framebuffer, for any number of surfaces (four or more), readers, *)
(* sizes, frames and configurations: the surface in the layer is left      *)
(* alone, captures are whole, and the pool implements FrameService.        *)
(*                                                                         *)
(* Of the input, for any buttons, keys, flags, positions and queue         *)
(* lengths: no event is stranded in a queue, nothing stays pressed in the  *)
(* guest, and clicks land where the user clicked.  NothingStuck and        *)
(* ClickOnTarget speak of empty queues and of single events; what is       *)
(* inductive is where the queues lead to: the codes the guest will hold,   *)
(* and the place its pointer will be at, when it has taken all that is     *)
(* queued.                                                                 *)
(***************************************************************************)
EXTENDS HostDisplay, HostInput, SequenceTheorems, TLAPS

Index == Surfaces \cup {None}
Pixels == [w : Nat, h : Nat, frame : Nat, whole : BOOLEAN]
Fronts == [made : Nat, idx : Index, frame : Nat]
Calls == [pc : {"idle", "height", "lock"}, w : Nat, h : Nat]
Captures == [some : BOOLEAN, w : Nat, h : Nat, pixels : Pixels]

\* The values of the pool and of the atomics around it.
PoolTypes ==
    /\ surfaces \in [Surfaces -> Pixels]
    /\ write_idx \in Surfaces
    /\ ready_idx \in Index /\ display_idx \in Index /\ prev_display_idx \in Index
    /\ made \in Nat /\ frame_seq \in Nat /\ last_seen \in Nat
    /\ width \in Nat /\ height \in Nat

\* The values the three kinds of threads hold.
ThreadTypes ==
    /\ gpu \in {"idle", "set_height", "create", "filling", "filled"}
    /\ target \in Nat \X Nat /\ configs \in Nat
    /\ view \in [pc : {"idle", "seen", "lock", "show"}, seq : Nat, front : Fronts]
    /\ layer \in Fronts
    /\ call \in [Readers -> Calls]
    /\ got \in [Readers -> Captures]
    /\ returned \in Nat

\* The surface the guest fills is none of those anybody else may use.
WriteSurfacePrivate == write_idx \notin {ready_idx, display_idx, prev_display_idx}

\* Only that surface is ever half-written, and only between the allocation of
\* a frame and its end; a frame in flight has the next number.
OnlyWriteSurfaceTorn ==
    /\ \A s \in Surfaces : ~surfaces[s].whole => s = write_idx /\ gpu = "filling"
    /\ gpu \in {"filling", "filled"} => surfaces[write_idx].frame = frame_seq + 1

\* A pool is numbered by the configure call that made it; while a later call
\* is under way, the pool is an earlier one's.
PoolsNumbered ==
    /\ made <= configs
    /\ gpu \in {"set_height", "create"} => made < configs
    /\ layer.made <= made /\ view.front.made <= made

\* Of this pool, the layer has the displayed surface, or the one before while
\* the main thread is between get_front_surface and setContents.
LayerHasDisplayed ==
    /\ InPool(view.front) => view.pc = "show" /\ view.front.idx = display_idx
    /\ InPool(layer) =>
          IF view.pc = "show" THEN InPool(view.front) /\ layer.idx = prev_display_idx
          ELSE layer.idx = display_idx

\* The ready surface has the newest frame; the displayed one, a frame at least
\* as new as every frame handed out, to the layer or to a capture.
DisplayedIsNewest ==
    /\ ready_idx # None => frame_seq > 0 /\ surfaces[ready_idx].frame = frame_seq
    /\ display_idx # None =>
          /\ surfaces[display_idx].frame \in 1 .. frame_seq
          /\ layer.frame <= surfaces[display_idx].frame
          /\ view.front.frame <= surfaces[display_idx].frame
          /\ returned <= surfaces[display_idx].frame

\* No frame is handed out before it is presented, and the layer moves forward.
HandedOutInOrder ==
    /\ layer.frame <= frame_seq /\ view.front.frame <= frame_seq
    /\ returned <= frame_seq
    /\ view.pc = "show" => layer.frame <= view.front.frame

\* The atomics and the pool agree unless a configure call is between them or
\* has left the old pool behind.
PoolHasDimensions ==
    /\ gpu = "set_height" => target[1] = width
    /\ gpu = "create" => target = <<width, height>>
    /\ (gpu \notin {"set_height", "create"} /\ made = configs) =>
          \A s \in Surfaces : surfaces[s].w = width /\ surfaces[s].h = height

\* The inductive invariant.
IInv ==
    /\ PoolTypes
    /\ ThreadTypes
    /\ WriteSurfacePrivate
    /\ OnlyWriteSurfaceTorn
    /\ PoolsNumbered
    /\ LayerHasDisplayed
    /\ DisplayedIsNewest
    /\ HandedOutInOrder
    /\ PoolHasDimensions
    /\ ShownIsUntouched
    /\ CaptureIsWhole

-----------------------------------------------------------------------------
LEMMA NoneIsNoSurface == None \notin Surfaces
BY SurfacesAssumption DEF None, Surfaces

\* present_frame's search for a write surface always succeeds: of four or more
\* one is neither finished, nor displayed, nor displayed before.
LEMMA PickWriteIsFree ==
    ASSUME NEW finished \in Surfaces, NEW shown \in Index, NEW previous \in Index
    PROVE  /\ PickWrite(finished, shown, previous) \in Surfaces
           /\ PickWrite(finished, shown, previous) \notin {finished, shown, previous}
<1> DEFINE free == Surfaces \ {finished, shown, previous}
<1>1. \E s \in free : \A t \in free : s <= t
  <2>1. 0 \in Surfaces /\ 1 \in Surfaces /\ 2 \in Surfaces /\ 3 \in Surfaces
    BY SurfacesAssumption DEF Surfaces
  <2>2. CASE 0 \in free
    BY <2>2 DEF Surfaces
  <2>3. CASE 0 \notin free /\ 1 \in free
    BY <2>3 DEF Surfaces
  <2>4. CASE 0 \notin free /\ 1 \notin free /\ 2 \in free
    BY <2>4 DEF Surfaces
  <2>5. CASE 0 \notin free /\ 1 \notin free /\ 2 \notin free
    <3>1. 3 \in free
      BY <2>1, <2>5
    <3>2. \A t \in free : 3 <= t
      BY <2>5 DEF Surfaces
    <3> QED BY <3>1, <3>2
  <2> QED BY <2>2, <2>3, <2>4, <2>5
<1>2. PickWrite(finished, shown, previous) = CHOOSE s \in free : \A t \in free : s <= t
  BY DEF PickWrite
<1>3. PickWrite(finished, shown, previous) \in free
  BY <1>1, <1>2
<1> QED BY <1>3

\* The records the threads start from have their type.
LEMMA InitialTypes ==
    /\ Null \in Pixels
    /\ NoSurface \in Fronts
    /\ Idle \in Calls
    /\ NoCapture \in Captures
<1>1. Null \in Pixels
  BY DEF Null, Pixels
<1> QED BY <1>1 DEF NoSurface, Fronts, Index, Idle, Calls, NoCapture, Captures

LEMMA InitIInv == Init => IInv
<1> SUFFICES ASSUME Init PROVE IInv
  OBVIOUS
<1> USE SurfacesAssumption, NoneIsNoSurface, InitialTypes DEF Init
<1>1. PoolTypes
  BY DEF PoolTypes, Surfaces, Index
<1>2. ThreadTypes
  BY DEF ThreadTypes
<1>3. WriteSurfacePrivate /\ PoolsNumbered
  BY DEF WriteSurfacePrivate, PoolsNumbered, Surfaces, NoSurface
<1>4. OnlyWriteSurfaceTorn
  BY DEF OnlyWriteSurfaceTorn, Null
<1>5. LayerHasDisplayed /\ ShownIsUntouched
  BY DEF LayerHasDisplayed, ShownIsUntouched, InPool, NoSurface
<1>6. DisplayedIsNewest /\ HandedOutInOrder
  BY DEF DisplayedIsNewest, HandedOutInOrder, NoSurface
<1>7. PoolHasDimensions
  BY DEF PoolHasDimensions, Null
<1>8. CaptureIsWhole
  BY DEF CaptureIsWhole, NoCapture
<1> QED BY <1>1, <1>2, <1>3, <1>4, <1>5, <1>6, <1>7, <1>8 DEF IInv

\* The steps of a configure call preserve the invariant.
LEMMA ConfigureIInv ==
    ASSUME IInv,
           \/ \E w, h \in Sizes : ConfigureWidth(w, h)
           \/ ConfigureHeight \/ CreateFails \/ ConfigurePool
    PROVE  IInv'
<1> USE SurfacesAssumption, SizesAssumption, NoneIsNoSurface DEF IInv
<1>1. ASSUME NEW w \in Sizes, NEW h \in Sizes, ConfigureWidth(w, h)
      PROVE IInv'
  <2> USE <1>1 DEF ConfigureWidth, pool, indices, viewVars, readers
  <2>1. PoolTypes' /\ ThreadTypes'
    BY DEF PoolTypes, ThreadTypes
  <2>2. (WriteSurfacePrivate /\ OnlyWriteSurfaceTorn)'
    BY DEF WriteSurfacePrivate, OnlyWriteSurfaceTorn
  <2>3. (PoolsNumbered /\ PoolHasDimensions)'
    BY DEF PoolsNumbered, PoolHasDimensions, PoolTypes, ThreadTypes
  <2>4. (LayerHasDisplayed /\ ShownIsUntouched)'
    BY DEF LayerHasDisplayed, ShownIsUntouched, InPool
  <2>5. (DisplayedIsNewest /\ HandedOutInOrder /\ CaptureIsWhole)'
    BY DEF DisplayedIsNewest, HandedOutInOrder, CaptureIsWhole
  <2> QED BY <2>1, <2>2, <2>3, <2>4, <2>5
<1>2. ASSUME ConfigureHeight \/ CreateFails PROVE IInv'
  <2> USE <1>2 DEF ConfigureHeight, CreateFails, pool, indices, dims, viewVars, readers
  <2>1. PoolTypes' /\ ThreadTypes'
    BY DEF PoolTypes, ThreadTypes
  <2>2. (WriteSurfacePrivate /\ OnlyWriteSurfaceTorn)'
    BY DEF WriteSurfacePrivate, OnlyWriteSurfaceTorn
  <2>3. (PoolsNumbered /\ PoolHasDimensions)'
    BY DEF PoolsNumbered, PoolHasDimensions, PoolTypes, ThreadTypes
  <2>4. (LayerHasDisplayed /\ ShownIsUntouched)'
    BY DEF LayerHasDisplayed, ShownIsUntouched, InPool
  <2>5. (DisplayedIsNewest /\ HandedOutInOrder /\ CaptureIsWhole)'
    BY DEF DisplayedIsNewest, HandedOutInOrder, CaptureIsWhole
  <2> QED BY <2>1, <2>2, <2>3, <2>4, <2>5
<1>3. ASSUME ConfigurePool PROVE IInv'
  <2> USE <1>3 DEF ConfigurePool, dims, viewVars, readers
  <2>1. Blank(target[1], target[2]) \in Pixels
    BY DEF ThreadTypes, Blank, Pixels
  <2>2. PoolTypes' /\ ThreadTypes'
    BY <2>1 DEF PoolTypes, ThreadTypes, Surfaces, Index
  <2>3. (WriteSurfacePrivate /\ OnlyWriteSurfaceTorn)'
    BY DEF WriteSurfacePrivate, OnlyWriteSurfaceTorn, Blank, Surfaces
  <2>4. (PoolsNumbered /\ PoolHasDimensions)'
    BY DEF PoolsNumbered, PoolHasDimensions, PoolTypes, ThreadTypes, Fronts, Blank
  <2>5. ~InPool(layer)' /\ ~InPool(view.front)'
    BY DEF InPool, PoolsNumbered, PoolTypes, ThreadTypes, Fronts
  <2>6. (LayerHasDisplayed /\ ShownIsUntouched)'
    BY <2>5 DEF LayerHasDisplayed, ShownIsUntouched, InPool
  <2>7. (DisplayedIsNewest /\ HandedOutInOrder /\ CaptureIsWhole)'
    BY DEF DisplayedIsNewest, HandedOutInOrder, CaptureIsWhole
  <2> QED BY <2>2, <2>3, <2>4, <2>6, <2>7
<1> QED BY <1>1, <1>2, <1>3

\* Writing a frame into the write surface disturbs neither the layer's surface
\* nor one a capture may read.
LEMMA FrameIInv ==
    ASSUME IInv, AllocFrame \/ FillFrame \/ PresentFrame
    PROVE  IInv'
<1> USE SurfacesAssumption, NoneIsNoSurface DEF IInv
<1>1. CASE AllocFrame \/ FillFrame
  <2> USE <1>1 DEF AllocFrame, FillFrame, indices, dims, viewVars, readers
  <2>1. PoolTypes' /\ ThreadTypes'
    <3>1. surfaces[write_idx] \in Pixels /\ frame_seq + 1 \in Nat
      BY DEF PoolTypes
    <3>2. /\ [surfaces[write_idx] EXCEPT !.frame = frame_seq + 1, !.whole = FALSE] \in Pixels
          /\ [surfaces[write_idx] EXCEPT !.whole = TRUE] \in Pixels
      BY <3>1 DEF Pixels
    <3>3. surfaces' \in [Surfaces -> Pixels]
      BY <3>2 DEF PoolTypes
    <3> QED BY <3>3 DEF PoolTypes, ThreadTypes
  <2>2. \A s \in Surfaces \ {write_idx} : surfaces'[s] = surfaces[s]
    BY DEF PoolTypes
  <2>3. (WriteSurfacePrivate /\ OnlyWriteSurfaceTorn)'
    BY DEF WriteSurfacePrivate, OnlyWriteSurfaceTorn, PoolTypes, Pixels
  <2>4. (PoolsNumbered /\ PoolHasDimensions)'
    BY DEF PoolsNumbered, PoolHasDimensions, PoolTypes, Pixels
  <2>5. LayerHasDisplayed'
    BY DEF LayerHasDisplayed, InPool
  <2>6. ShownIsUntouched'
    BY <2>2 DEF ShownIsUntouched, InPool, LayerHasDisplayed, WriteSurfacePrivate,
       PoolTypes, ThreadTypes, Fronts, Index
  <2>7. (DisplayedIsNewest /\ HandedOutInOrder /\ CaptureIsWhole)'
    BY <2>2 DEF DisplayedIsNewest, HandedOutInOrder, CaptureIsWhole,
       WriteSurfacePrivate, PoolTypes, Index
  <2> QED BY <2>1, <2>3, <2>4, <2>5, <2>6, <2>7
<1>2. CASE PresentFrame
  <2> USE <1>2 DEF PresentFrame, dims, viewVars, readers
  <2>1. write_idx' \in Surfaces /\ write_idx' \notin {ready_idx, display_idx, prev_display_idx}'
    BY PickWriteIsFree DEF PoolTypes
  <2>2. PoolTypes' /\ ThreadTypes'
    BY <2>1 DEF PoolTypes, ThreadTypes, Index
  <2>3. (WriteSurfacePrivate /\ OnlyWriteSurfaceTorn)'
    BY <2>1 DEF WriteSurfacePrivate, OnlyWriteSurfaceTorn
  <2>4. (PoolsNumbered /\ PoolHasDimensions)'
    BY DEF PoolsNumbered, PoolHasDimensions
  <2>5. (LayerHasDisplayed /\ ShownIsUntouched)'
    BY DEF LayerHasDisplayed, ShownIsUntouched, InPool
  <2>6. (DisplayedIsNewest /\ HandedOutInOrder /\ CaptureIsWhole)'
    BY DEF DisplayedIsNewest, HandedOutInOrder, CaptureIsWhole, OnlyWriteSurfaceTorn,
       PoolTypes, ThreadTypes, Pixels, Fronts, Index
  <2> QED BY <2>2, <2>3, <2>4, <2>5, <2>6
<1> QED BY <1>1, <1>2

\* The main thread's steps preserve the invariant.
LEMMA ViewStepIInv == IInv /\ ViewStep => IInv'
<1> SUFFICES ASSUME IInv, ViewStep PROVE IInv'
  OBVIOUS
<1> USE SurfacesAssumption, NoneIsNoSurface DEF IInv
<1>1. CASE ViewLoad \/ ViewStore \/ (TakeFront /\ ready_idx = None)
  <2> USE <1>1 DEF ViewLoad, ViewStore, TakeFront, pool, indices, dims, gpuVars, readers
  <2>1. PoolTypes' /\ ThreadTypes'
    <3> DEFINE Views == [pc : {"idle", "seen", "lock", "show"}, seq : Nat, front : Fronts]
    <3>1. view \in Views /\ frame_seq \in Nat
      BY DEF PoolTypes, ThreadTypes
    <3>2. /\ [view EXCEPT !.pc = "seen", !.seq = frame_seq] \in Views
          /\ [view EXCEPT !.pc = "lock"] \in Views
          /\ [view EXCEPT !.pc = "idle", !.seq = 0] \in Views
      BY <3>1
    <3>3. view' \in Views
      BY <3>2
    <3> QED BY <3>3 DEF PoolTypes, ThreadTypes
  <2>2. view.pc # "show" /\ view'.pc # "show" /\ view'.front = view.front
    BY DEF ThreadTypes
  <2>3. (WriteSurfacePrivate /\ OnlyWriteSurfaceTorn)'
    BY DEF WriteSurfacePrivate, OnlyWriteSurfaceTorn
  <2>4. (PoolsNumbered /\ PoolHasDimensions)'
    BY <2>2 DEF PoolsNumbered, PoolHasDimensions
  <2>5. (LayerHasDisplayed /\ ShownIsUntouched)'
    BY <2>2 DEF LayerHasDisplayed, ShownIsUntouched, InPool
  <2>6. (DisplayedIsNewest /\ HandedOutInOrder /\ CaptureIsWhole)'
    BY <2>2 DEF DisplayedIsNewest, HandedOutInOrder, CaptureIsWhole
  <2> QED BY <2>1, <2>3, <2>4, <2>5, <2>6
<1>2. CASE TakeFront /\ ready_idx # None
  <2> USE <1>2 DEF TakeFront, indices, dims, gpuVars, readers
  <2>1. ready_idx \in Surfaces /\ surfaces[ready_idx] \in Pixels
    BY DEF PoolTypes, Index
  <2>2. view'.front = [made |-> made, idx |-> ready_idx, frame |-> surfaces[ready_idx].frame]
    OBVIOUS
  <2>3. PoolTypes' /\ ThreadTypes'
    BY <2>1, <2>2 DEF PoolTypes, ThreadTypes, Fronts, Index, Pixels
  <2>4. (WriteSurfacePrivate /\ OnlyWriteSurfaceTorn)'
    BY DEF WriteSurfacePrivate, OnlyWriteSurfaceTorn, PoolTypes
  <2>5. (PoolsNumbered /\ PoolHasDimensions)'
    BY <2>2 DEF PoolsNumbered, PoolHasDimensions, PoolTypes
  <2>6. (LayerHasDisplayed /\ ShownIsUntouched)'
    BY <2>1, <2>2 DEF LayerHasDisplayed, ShownIsUntouched, InPool, OnlyWriteSurfaceTorn,
       WriteSurfacePrivate, PoolTypes, Pixels
  <2>7. (DisplayedIsNewest /\ HandedOutInOrder /\ CaptureIsWhole)'
    BY <2>1, <2>2 DEF DisplayedIsNewest, HandedOutInOrder, CaptureIsWhole, PoolTypes
  <2> QED BY <2>3, <2>4, <2>5, <2>6, <2>7
<1>3. CASE Show
  <2> USE <1>3 DEF Show, pool, indices, dims, gpuVars, readers
  <2>1. PoolTypes' /\ ThreadTypes'
    BY InitialTypes DEF PoolTypes, ThreadTypes
  <2>2. view'.front = NoSurface /\ view'.pc = "idle" /\ layer' = view.front
    BY DEF ThreadTypes
  <2>3. (WriteSurfacePrivate /\ OnlyWriteSurfaceTorn)'
    BY DEF WriteSurfacePrivate, OnlyWriteSurfaceTorn
  <2>4. (PoolsNumbered /\ PoolHasDimensions)'
    BY <2>2 DEF PoolsNumbered, PoolHasDimensions, NoSurface, PoolTypes
  <2>5. (LayerHasDisplayed /\ ShownIsUntouched)'
    BY <2>2 DEF LayerHasDisplayed, ShownIsUntouched, InPool, NoSurface
  <2>6. (DisplayedIsNewest /\ HandedOutInOrder /\ CaptureIsWhole)'
    BY <2>2 DEF DisplayedIsNewest, HandedOutInOrder, CaptureIsWhole, NoSurface,
       PoolTypes, Pixels, Index
  <2> QED BY <2>1, <2>3, <2>4, <2>5, <2>6
<1> QED BY <1>1, <1>2, <1>3 DEF ViewStep

\* A capturing thread's steps preserve the invariant: what it copies is not
\* the surface being filled, and is as new as anything handed out before.
LEMMA ReaderStepIInv ==
    ASSUME IInv, NEW r \in Readers, ReaderStep(r)
    PROVE  IInv'
<1> USE SurfacesAssumption, NoneIsNoSurface DEF IInv
<1>1. CASE LoadWidth(r) \/ LoadHeight(r)
  <2> USE <1>1 DEF LoadWidth, LoadHeight, pool, indices, dims, gpuVars, viewVars
  <2>1. call' \in [Readers -> Calls]
    <3>1. call[r] \in Calls /\ width \in Nat /\ height \in Nat
      BY DEF PoolTypes, ThreadTypes
    <3>2. /\ [pc |-> "height", w |-> width, h |-> 0] \in Calls
          /\ [call[r] EXCEPT !.pc = "lock", !.h = height] \in Calls
      BY <3>1 DEF Calls
    <3> QED BY <3>2, InitialTypes DEF ThreadTypes
  <2>2. got' \in [Readers -> Captures]
    BY InitialTypes DEF ThreadTypes
  <2>3. PoolTypes' /\ ThreadTypes'
    BY <2>1, <2>2 DEF PoolTypes, ThreadTypes
  <2>4. (WriteSurfacePrivate /\ OnlyWriteSurfaceTorn)'
    BY DEF WriteSurfacePrivate, OnlyWriteSurfaceTorn
  <2>5. (PoolsNumbered /\ PoolHasDimensions)'
    BY DEF PoolsNumbered, PoolHasDimensions
  <2>6. (LayerHasDisplayed /\ ShownIsUntouched)'
    BY DEF LayerHasDisplayed, ShownIsUntouched, InPool
  <2>7. (DisplayedIsNewest /\ HandedOutInOrder /\ CaptureIsWhole)'
    BY DEF DisplayedIsNewest, HandedOutInOrder, CaptureIsWhole, NoCapture, ThreadTypes
  <2> QED BY <2>3, <2>4, <2>5, <2>6, <2>7
<1>2. CASE Capture(r)
  <2> USE <1>2 DEF Capture, pool, indices, dims, gpuVars, viewVars
  <2>1. Front \in Index /\ (Front # None => surfaces[Front] \in Pixels)
    BY DEF PoolTypes, Front, Index
  <2>2. Front # None =>
          /\ surfaces[Front].whole
          /\ surfaces[Front].frame \in 1 .. frame_seq
    BY <2>1 DEF Front, PoolTypes, Index, WriteSurfacePrivate, OnlyWriteSurfaceTorn,
       DisplayedIsNewest
  <2>3. display_idx # None => Front = display_idx
    BY DEF Front
  <2>4. call' \in [Readers -> Calls] /\ got' \in [Readers -> Captures]
    <3>1. call[r].w \in Nat /\ call[r].h \in Nat
      BY DEF ThreadTypes, Calls
    <3>2. Front # None =>
            [some |-> TRUE, w |-> call[r].w, h |-> call[r].h, pixels |-> surfaces[Front]]
              \in Captures
      BY <2>1, <3>1 DEF Captures
    <3>3. call' \in [Readers -> Calls]
      BY InitialTypes DEF ThreadTypes
    <3>4. got' \in [Readers -> Captures]
      BY <3>2 DEF ThreadTypes
    <3> QED BY <3>3, <3>4
  <2>5. PoolTypes' /\ ThreadTypes'
    BY <2>1, <2>4 DEF PoolTypes, ThreadTypes, Pixels
  <2>6. (WriteSurfacePrivate /\ OnlyWriteSurfaceTorn)'
    BY DEF WriteSurfacePrivate, OnlyWriteSurfaceTorn
  <2>7. (PoolsNumbered /\ PoolHasDimensions)'
    BY DEF PoolsNumbered, PoolHasDimensions
  <2>8. (LayerHasDisplayed /\ ShownIsUntouched)'
    BY DEF LayerHasDisplayed, ShownIsUntouched, InPool
  <2>9. (DisplayedIsNewest /\ HandedOutInOrder)'
    BY <2>2, <2>3 DEF DisplayedIsNewest, HandedOutInOrder, PoolTypes
  <2>10. CaptureIsWhole'
    BY <2>1, <2>2 DEF CaptureIsWhole, ThreadTypes
  <2> QED BY <2>5, <2>6, <2>7, <2>8, <2>9, <2>10
<1> QED BY <1>1, <1>2 DEF ReaderStep

LEMMA NextIInv == IInv /\ [Next]_vars => IInv'
<1> SUFFICES ASSUME IInv, [Next]_vars PROVE IInv'
  OBVIOUS
<1>1. CASE Next
  BY <1>1, ConfigureIInv, FrameIInv, ViewStepIInv, ReaderStepIInv DEF Next, GpuStep
<1>2. CASE UNCHANGED vars
  <2> USE <1>2 DEF IInv, vars, pool, indices, dims, gpuVars, viewVars, readers
  <2>1. PoolTypes' /\ ThreadTypes'
    BY DEF PoolTypes, ThreadTypes
  <2>2. (WriteSurfacePrivate /\ OnlyWriteSurfaceTorn)'
    BY DEF WriteSurfacePrivate, OnlyWriteSurfaceTorn
  <2>3. (PoolsNumbered /\ PoolHasDimensions)'
    BY DEF PoolsNumbered, PoolHasDimensions
  <2>4. (LayerHasDisplayed /\ ShownIsUntouched)'
    BY DEF LayerHasDisplayed, ShownIsUntouched, InPool
  <2>5. (DisplayedIsNewest /\ HandedOutInOrder /\ CaptureIsWhole)'
    BY DEF DisplayedIsNewest, HandedOutInOrder, CaptureIsWhole
  <2> QED BY <2>1, <2>2, <2>3, <2>4, <2>5
<1> QED BY <1>1, <1>2

-----------------------------------------------------------------------------
\* The inductive invariant holds in every reachable state.
THEOREM Invariance == Spec => []IInv
<1> QED BY InitIInv, NextIInv, PTL DEF Spec

\* The guest never writes into a surface that CoreAnimation may be reading,
\* though the layer is set long after the pool's mutex was released.
THEOREM LayerIsLeftAlone == Spec => []ShownIsUntouched
<1>1. IInv => ShownIsUntouched
  BY DEF IInv
<1> QED BY <1>1, Invariance, PTL

\* screen_capture never returns a half-written frame nor one never presented.
THEOREM CapturesAreWhole == Spec => []CaptureIsWhole
<1>1. IInv => CaptureIsWhole
  BY DEF IInv
<1> QED BY <1>1, Invariance, PTL

\* What a step does to the numbers FrameService speaks of.
LEMMA StepIsServiceStep ==
    ASSUME IInv, Next
    PROVE  Service!ServiceNext \/ UNCHANGED <<frame_seq, layer.frame, returned>>
<1> USE DEF IInv
<1>1. CASE PresentFrame
  <2>1. Service!Present
    BY <1>1 DEF PresentFrame, viewVars, readers, Service!Present
  <2> QED BY <2>1 DEF Service!ServiceNext
<1>2. CASE Show
  <2>1. layer'.frame \in layer.frame .. frame_seq
    BY <1>2 DEF Show, HandedOutInOrder, PoolTypes, ThreadTypes, Fronts
  <2>2. Service!ShowFrame
    BY <1>2, <2>1 DEF Show, readers, Service!ShowFrame
  <2> QED BY <2>2 DEF Service!ServiceNext
<1>3. ASSUME NEW r \in Readers, Capture(r), returned' # returned
      PROVE  Service!ServiceNext
  <2> USE NoneIsNoSurface
  <2>1. Front # None /\ returned' = surfaces[Front].frame
    BY <1>3 DEF Capture
  <2>2. /\ returned' \in 1 .. frame_seq
        /\ returned' >= returned /\ returned' >= layer.frame
    BY <2>1 DEF Front, DisplayedIsNewest, HandedOutInOrder, PoolTypes, ThreadTypes,
       Fronts
  <2>3. Service!CaptureFrame
    BY <1>3, <2>2 DEF Capture, viewVars, Service!CaptureFrame
  <2> QED BY <2>3 DEF Service!ServiceNext
<1>4. CASE ~PresentFrame /\ ~Show /\ ~ \E r \in Readers : Capture(r)
  BY <1>4 DEF Next, GpuStep, ConfigureWidth, ConfigureHeight, CreateFails,
     ConfigurePool, AllocFrame, FillFrame, ViewStep, ViewLoad, ViewStore, TakeFront,
     ReaderStep, LoadWidth, LoadHeight, viewVars, readers
<1>5. ASSUME NEW r \in Readers, Capture(r), returned' = returned
      PROVE  UNCHANGED <<frame_seq, layer.frame, returned>>
  BY <1>5 DEF Capture, viewVars
<1> QED BY <1>1, <1>2, <1>3, <1>4, <1>5

\* The pool, the atomics and the three threads implement FrameService: neither
\* the viewer nor a capture goes back in time, and none is ahead of the guest.
THEOREM PoolImplementsFrameService == Spec => ImplementsFrameService
<1>1. Init => Service!ServiceInit
  BY DEF Init, NoSurface, Service!ServiceInit
<1>2. IInv /\ [Next]_vars => [Service!ServiceNext]_(Service!service)
  <2>1. ASSUME UNCHANGED vars PROVE UNCHANGED Service!service
    BY <2>1 DEF vars, viewVars, readers, Service!service
  <2> QED BY <2>1, StepIsServiceStep DEF Service!service
<1> QED BY <1>1, <1>2, Invariance, PTL
    DEF Spec, ImplementsFrameService, Service!ServiceSpec

\* A capture reads only rows that its surface has, unless a configure call is
\* under way or has left the old pool behind.
THEOREM CapturedRowsExist == Spec => RowsExist
<1>1. ASSUME IInv, Next, NEW r \in Readers, ~got[r].some /\ got'[r].some,
             gpu \notin {"set_height", "create"}, made = configs,
             <<call[r].w, call[r].h>> = <<width, height>>
      PROVE  got'[r].h <= got'[r].pixels.h
  <2> USE NoneIsNoSurface DEF IInv
  <2>1. CASE GpuStep \/ ViewStep
    BY <1>1, <2>1 DEF GpuStep, ConfigureWidth, ConfigureHeight, CreateFails,
       ConfigurePool, AllocFrame, FillFrame, PresentFrame, ViewStep, ViewLoad, ViewStore,
       TakeFront, Show, readers
  <2>2. ASSUME NEW q \in Readers, LoadWidth(q) \/ LoadHeight(q)
        PROVE  FALSE
    BY <1>1, <2>2 DEF LoadWidth, LoadHeight, NoCapture, ThreadTypes
  <2>3. ASSUME NEW q \in Readers, Capture(q)
        PROVE  got'[r].h <= got'[r].pixels.h
    <3>1. q = r /\ Front # None /\ got'[r].h = call[r].h /\ got'[r].pixels = surfaces[Front]
      BY <1>1, <2>3 DEF Capture, ThreadTypes
    <3>2. surfaces[Front].h = height
      BY <1>1, <3>1 DEF Front, PoolTypes, Index, PoolHasDimensions
    <3> QED BY <1>1, <3>1, <3>2 DEF PoolTypes
  <2> QED BY <1>1, <2>1, <2>2, <2>3 DEF Next, ReaderStep
<1>2. IInv /\ [Next]_vars =>
        [\A r \in Readers :
           (/\ ~got[r].some /\ got'[r].some
            /\ gpu \notin {"set_height", "create"} /\ made = configs
            /\ <<call[r].w, call[r].h>> = <<width, height>>)
              => got'[r].h <= got'[r].pixels.h]_vars
  BY <1>1
<1> QED BY <1>2, Invariance, PTL DEF Spec, RowsExist

\* The numbers that the timer compares never run ahead of the frames, and tell it
\* of a frame that is ready until it is about to take it.
SeenInOrder ==
    /\ last_seen <= frame_seq /\ view.seq <= frame_seq
    /\ ready_idx # None => last_seen < frame_seq \/ view.pc \in {"seen", "lock"}

LEMMA NextSeen == IInv /\ SeenInOrder /\ [Next]_vars => SeenInOrder'
<1> SUFFICES ASSUME IInv, SeenInOrder, [Next]_vars PROVE SeenInOrder'
  OBVIOUS
<1>1. /\ frame_seq \in Nat /\ last_seen \in Nat /\ view.seq \in Nat
      /\ view \in [pc : {"idle", "seen", "lock", "show"}, seq : Nat, front : Fronts]
  BY DEF IInv, PoolTypes, ThreadTypes
<1> USE <1>1 DEF SeenInOrder
<1>2. CASE UNCHANGED <<ready_idx, frame_seq, last_seen, view>>
  BY <1>2
<1>3. CASE ConfigurePool
  BY <1>3 DEF ConfigurePool, viewVars
<1>4. CASE PresentFrame
  BY <1>4 DEF PresentFrame, viewVars
<1>5. CASE ViewLoad
  <2>1. view'.pc = "seen" /\ view'.seq = frame_seq /\ UNCHANGED <<frame_seq, last_seen>>
    BY <1>5 DEF ViewLoad
  <2> QED  BY <2>1
<1>6. CASE ViewStore
  <2>1. view'.pc = "lock" /\ view'.seq = view.seq /\ last_seen' = view.seq
        /\ UNCHANGED frame_seq
    BY <1>6 DEF ViewStore
  <2> QED  BY <2>1
<1>7. CASE TakeFront
  <2>1. /\ ready_idx' = None /\ view'.seq = 0 /\ UNCHANGED <<frame_seq, last_seen>>
    <3>1. CASE ready_idx = None
      BY <1>7, <3>1 DEF TakeFront, indices
    <3>2. CASE ready_idx # None
      BY <1>7, <3>2 DEF TakeFront
    <3> QED  BY <3>1, <3>2
  <2> QED  BY <2>1
<1>8. CASE Show
  <2>1. /\ view.pc = "show" /\ view'.pc = "idle" /\ view'.seq = view.seq
        /\ UNCHANGED <<ready_idx, frame_seq, last_seen>>
    BY <1>8 DEF Show, pool, indices
  <2> QED  BY <2>1
<1>9. CASE \/ \E w, h \in Sizes : ConfigureWidth(w, h)
           \/ ConfigureHeight \/ CreateFails \/ AllocFrame \/ FillFrame
           \/ \E r \in Readers : ReaderStep(r)
  BY <1>2, <1>9 DEF ConfigureWidth, ConfigureHeight, CreateFails, AllocFrame, FillFrame,
       ReaderStep, LoadWidth, LoadHeight, Capture, pool, indices, viewVars
<1>10. CASE UNCHANGED vars
  BY <1>2, <1>10 DEF vars, pool, indices, viewVars
<1> QED  BY <1>3, <1>4, <1>5, <1>6, <1>7, <1>8, <1>9, <1>10 DEF Next, GpuStep, ViewStep

\* Every surface taken from the pool goes to the layer.
TakenGoesToLayer ==
    display_idx # None =>
      \E front \in {layer, view.front} : InPool(front) /\ front.idx = display_idx

LEMMA NextTaken == IInv /\ TakenGoesToLayer /\ [Next]_vars => TakenGoesToLayer'
<1> SUFFICES ASSUME IInv, TakenGoesToLayer, [Next]_vars PROVE TakenGoesToLayer'
  OBVIOUS
<1> USE DEF TakenGoesToLayer, InPool
<1>1. view \in [pc : {"idle", "seen", "lock", "show"}, seq : Nat, front : Fronts]
  BY DEF IInv, ThreadTypes
<1>2. CASE UNCHANGED <<display_idx, made, layer>> /\ view'.front = view.front
  BY <1>2
<1>3. CASE ConfigurePool
  BY <1>3 DEF ConfigurePool
<1>4. CASE ViewLoad \/ ViewStore
  BY <1>1, <1>2, <1>4 DEF ViewLoad, ViewStore, pool, indices
<1>5. CASE TakeFront
  <2>1. CASE ready_idx = None
    BY <1>1, <1>2, <1>5, <2>1 DEF TakeFront, indices
  <2>2. CASE ready_idx # None
    <3>1. display_idx' = ready_idx /\ UNCHANGED made
          /\ view'.front = [made |-> made, idx |-> ready_idx, frame |-> surfaces[ready_idx].frame]
      BY <1>5, <2>2 DEF TakeFront
    <3> QED  BY <2>2, <3>1
  <2> QED  BY <2>1, <2>2
<1>6. CASE Show
  <2>1. /\ view.pc = "show" /\ layer' = view.front /\ UNCHANGED <<display_idx, made>>
    BY <1>6 DEF Show, pool, indices
  <2>2. InPool(layer) => InPool(view.front)
    BY <2>1 DEF IInv, LayerHasDisplayed
  <2>3. InPool(view.front) => view.front.idx = display_idx
    BY DEF IInv, LayerHasDisplayed
  <2> QED  BY <2>1, <2>2, <2>3
<1>7. CASE \/ \E w, h \in Sizes : ConfigureWidth(w, h)
           \/ ConfigureHeight \/ CreateFails \/ AllocFrame \/ FillFrame \/ PresentFrame
           \/ \E r \in Readers : ReaderStep(r)
  BY <1>2, <1>7 DEF ConfigureWidth, ConfigureHeight, CreateFails, AllocFrame, FillFrame,
       PresentFrame, ReaderStep, LoadWidth, LoadHeight, Capture, pool, indices, viewVars
<1>8. CASE UNCHANGED vars
  BY <1>2, <1>8 DEF vars, pool, indices, viewVars
<1> QED  BY <1>3, <1>4, <1>5, <1>6, <1>7, <1>8 DEF Next, GpuStep, ViewStep

\* The safety half of LastFrameShown, from the pool to the layer: what waits in the
\* pool is the newest frame, and the timer will notice it, whatever frames are
\* presented between its two reads, of the sequence number and of the pool
\* (get_front_surface); and what the timer took is in the layer, with the frame it
\* was presented with, or is about to be put there (update_framebuffer).
NoFrameMissed ==
    /\ ready_idx # None =>
         /\ surfaces[ready_idx].frame = frame_seq
         /\ frame_seq # last_seen \/ view.pc \in {"seen", "lock"}
    /\ display_idx # None =>
         \E front \in {layer, view.front} :
           InPool(front) /\ front.frame = surfaces[display_idx].frame

\* No frame stays behind unnoticed or is taken and not shown, for any surfaces,
\* readers and configurations.
THEOREM NoFrameIsMissed == Spec => []NoFrameMissed
<1>1. Init => SeenInOrder /\ TakenGoesToLayer
  BY DEF Init, SeenInOrder, TakenGoesToLayer
<1>2. Spec => []SeenInOrder
  BY <1>1, NextSeen, Invariance, PTL DEF Spec
<1>3. Spec => []TakenGoesToLayer
  BY <1>1, NextTaken, Invariance, PTL DEF Spec
<1>4. IInv /\ SeenInOrder /\ TakenGoesToLayer => NoFrameMissed
  <2> SUFFICES ASSUME IInv, SeenInOrder, TakenGoesToLayer PROVE NoFrameMissed
    OBVIOUS
  <2>1. ASSUME display_idx # None
        PROVE  \E front \in {layer, view.front} :
                 InPool(front) /\ front.frame = surfaces[display_idx].frame
    BY <2>1 DEF TakenGoesToLayer, IInv, ShownIsUntouched
  <2> QED  BY <2>1 DEF IInv, PoolTypes, DisplayedIsNewest, SeenInOrder, NoFrameMissed
<1> QED  BY <1>2, <1>3, <1>4, Invariance, PTL

-----------------------------------------------------------------------------
(* The input *)

ModifierCodes == {42, 29, 56, 125}
Codes == ButtonCodes \union Keys \union ModifierCodes

MoveEvents == [type : {"abs"}, code : {0}, value : Positions, at : Positions]
ButtonEvents == [type : {"key"}, code : ButtonCodes, value : {0, 1}, at : Positions]
KeyEvents == [type : {"key"}, code : Keys \union ModifierCodes, value : {0, 1, 2}, at : {0}]
MouseEvents == MoveEvents \union ButtonEvents
EventSet == MouseEvents \union KeyEvents

InputTypes ==
  /\ buttons \in [Buttons -> ButtonCodes \union {0}]
  /\ keys \in SUBSET Keys /\ mods \in SUBSET Flags
  /\ cursor \in Positions
  /\ lastFlags \in SUBSET Flags /\ pressedKeys \in SUBSET Keys
  /\ queue \in [Devices -> Seq(EventSet)]
  /\ queue["mouse"] \in Seq(MouseEvents) /\ queue["keyboard"] \in Seq(KeyEvents)
  /\ readable \in [Devices -> BOOLEAN]
  /\ down \in SUBSET Codes

\* The codes held after the events of q, if those of `held` were before: the
\* last press or release of a code decides.
Changes(q, code) ==
  {i \in DOMAIN q : q[i].type = "key" /\ q[i].code = code /\ q[i].value # 2}
HeldAfter(q, held) ==
  {code \in Codes :
     IF Changes(q, code) = {} THEN code \in held
     ELSE \E i \in Changes(q, code) :
            (\A k \in Changes(q, code) : k <= i) /\ q[i].value = 1}

\* Unless two buttons overlapped, the guest comes to hold the one button that
\* is held, and bit 15 of LAST_MOUSE_BUTTONS tells whether there is one.
ButtonsSettle ==
  ~ mixed =>
    /\ \A b, c \in Buttons : buttons[b] # 0 /\ buttons[c] # 0 => b = c
    /\ lastButtons = IF \E b \in Buttons : buttons[b] # 0 THEN {15} ELSE {}
    /\ HeldAfter(queue["mouse"], down \intersect ButtonCodes)
         = {buttons[b] : b \in Buttons} \ {0}

\* Unless the view missed a change, its records are right, and the guest comes
\* to hold the keys and the modifiers that are held.
KeysSettle ==
  ~ missed =>
    /\ pressedKeys = keys /\ lastFlags = mods
    /\ HeldAfter(queue["keyboard"], down \ ButtonCodes) = keys \union CodesOf(mods)

\* When the guest comes to the i-th event of q, its pointer is at p, unless a
\* tool has moved it.
PointerAt(q, i, p) ==
  LET moves == {j \in 1 .. (i - 1) : q[j].type = "abs"}
  IN  \/ \E j \in moves : (\A k \in moves : k <= j) /\ q[j].value = p
      \/ moves = {} /\ (pointer = p \/ toolMoved)

\* LAST_MOUSE_ABS is where the pointer will be when the queue is empty.
PointerFollows ==
  \/ lastAbs = -1
  \/ PointerAt(queue["mouse"], Len(queue["mouse"]) + 1, lastAbs)

\* The inductive invariant.
InputIInv ==
  /\ InputTypes
  /\ NoLostWakeup
  /\ ButtonsSettle
  /\ KeysSettle
  /\ PointerFollows
  /\ ClickOnTarget

-----------------------------------------------------------------------------
(* The operators *)

LEMMA CodesAreDisjoint ==
  /\ Keys \intersect ButtonCodes = {} /\ Keys \intersect ModifierCodes = {}
  /\ ButtonCodes \intersect ModifierCodes = {}
  /\ 0 \notin Codes
BY HostInputAssumption, KeysAssumption
   DEF MODIFIER_MAP, ModifierCodes, ButtonCodes, Codes, BTN_LEFT, BTN_RIGHT, BTN_MIDDLE

LEMMA CodesOfFlags ==
  ASSUME NEW flags
  PROVE  CodesOf(flags) = {c \in ModifierCodes :
                             \/ c = 42 /\ "shift" \in flags
                             \/ c = 29 /\ "control" \in flags
                             \/ c = 56 /\ "option" \in flags
                             \/ c = 125 /\ "command" \in flags}
BY DEF CodesOf, MODIFIER_MAP, ModifierCodes

\* Undoing and redoing the flags that differ turns one set into the other.
LEMMA CodesOfChanged ==
  ASSUME NEW old, NEW new
  PROVE  LET changed == (new \ old) \union (old \ new)
         IN  (CodesOf(old) \ CodesOf(changed)) \union CodesOf(changed \intersect new)
               = CodesOf(new)
<1> DEFINE changed == (new \ old) \union (old \ new)
           both == changed \intersect new
<1>1. \A flag : /\ flag \in changed <=> ((flag \in new) # (flag \in old))
                /\ flag \in both <=> flag \in new /\ flag \notin old
  OBVIOUS
<1> HIDE DEF changed, both
<1>2. (CodesOf(old) \ CodesOf(changed)) \union CodesOf(both) = CodesOf(new)
  BY <1>1, CodesOfFlags
<1> QED BY <1>2 DEF changed, both

\* No event, no change.
LEMMA HeldAfterNothing ==
  ASSUME NEW held \in SUBSET Codes
  PROVE  HeldAfter(<<>>, held) = held
BY DEF HeldAfter, Changes

\* One event does to the codes held what the guest does with it.
LEMMA HeldAfterOne ==
  ASSUME NEW e \in EventSet, NEW held \in SUBSET Codes
  PROVE  /\ e.type = "abs" \/ e.value = 2 => HeldAfter(<<e>>, held) = held
         /\ e.type = "key" /\ e.value = 1 => HeldAfter(<<e>>, held) = held \union {e.code}
         /\ e.type = "key" /\ e.value = 0 => HeldAfter(<<e>>, held) = held \ {e.code}
<1> DEFINE q == <<e>>
<1>1. \A c : Changes(q, c) = IF e.type = "key" /\ e.code = c /\ e.value # 2 THEN {1} ELSE {}
  BY DEF Changes
<1>2. q[1] = e
  OBVIOUS
<1> HIDE DEF q
<1>3. \A c \in Codes :
        c \in HeldAfter(q, held) <=>
          IF e.type = "key" /\ e.code = c /\ e.value # 2 THEN e.value = 1 ELSE c \in held
  BY <1>1, <1>2 DEF HeldAfter
<1>4. HeldAfter(q, held) \subseteq Codes
  BY DEF HeldAfter
<1>5. e.type = "key" => e.code \in Codes
  BY DEF EventSet, MouseEvents, MoveEvents, ButtonEvents, KeyEvents, Codes
<1>6. e.type = "abs" => e.type # "key"
  OBVIOUS
<1> QED BY <1>3, <1>4, <1>5, <1>6 DEF q

\* What is held after two batches is what is held after the second, if what is
\* held after the first was before it.
LEMMA HeldAfterBoth ==
  ASSUME NEW q \in Seq(EventSet), NEW s \in Seq(EventSet), NEW held \in SUBSET Codes
  PROVE  HeldAfter(q \o s, held) = HeldAfter(s, HeldAfter(q, held))
<1> DEFINE both == q \o s
<1>1. /\ both \in Seq(EventSet) /\ Len(both) = Len(q) + Len(s)
      /\ \A i \in 1 .. Len(q) : both[i] = q[i]
      /\ \A i \in 1 .. Len(s) : both[Len(q) + i] = s[i]
  BY ConcatProperties
<1>2. /\ DOMAIN q = 1 .. Len(q) /\ DOMAIN s = 1 .. Len(s) /\ DOMAIN both = 1 .. Len(both)
      /\ Len(q) \in Nat /\ Len(s) \in Nat
  BY <1>1, LenProperties
<1> HIDE DEF both
<1>3. ASSUME NEW c \in Codes, Changes(s, c) = {}
      PROVE  c \in HeldAfter(both, held) <=> c \in HeldAfter(q, held)
  <2>1. ASSUME NEW i \in Changes(both, c) PROVE i \in Changes(q, c)
    <3>1. CASE i > Len(q)
      <4>1. i - Len(q) \in 1 .. Len(s) /\ both[i] = s[i - Len(q)]
        <5>1. i \in 1 .. (Len(q) + Len(s))
          BY <1>1, <1>2 DEF Changes
        <5>2. i - Len(q) \in 1 .. Len(s) /\ Len(q) + (i - Len(q)) = i
          BY <1>2, <3>1, <5>1
        <5>3. both[Len(q) + (i - Len(q))] = s[i - Len(q)]
          BY <1>1, <5>2
        <5> QED BY <5>2, <5>3
      <4>2. i - Len(q) \in Changes(s, c)
        BY <1>2, <4>1 DEF Changes
      <4> QED BY <1>3, <4>2
    <3>2. CASE ~(i > Len(q))
      BY <1>1, <1>2, <3>2 DEF Changes
    <3> QED BY <3>1, <3>2
  <2>2. Changes(q, c) \subseteq Changes(both, c)
    BY <1>1, <1>2 DEF Changes
  <2>3. Changes(both, c) = Changes(q, c)
    BY <2>1, <2>2
  <2>4. \A i \in Changes(q, c) : both[i] = q[i]
    BY <1>1, <1>2 DEF Changes
  <2> QED BY <2>3, <2>4 DEF HeldAfter
<1>4. ASSUME NEW c \in Codes, Changes(s, c) # {}, NEW any
      PROVE  c \in HeldAfter(both, held) <=> c \in HeldAfter(s, any)
  <2>1. \A i \in 1 .. Len(s) : i \in Changes(s, c) <=> Len(q) + i \in Changes(both, c)
    BY <1>1, <1>2 DEF Changes
  <2>2. \A k \in Changes(both, c) : k > Len(q) => k - Len(q) \in Changes(s, c)
    BY <1>1, <1>2 DEF Changes
  <2>3. /\ Changes(s, c) \subseteq 1 .. Len(s)
        /\ Changes(both, c) \subseteq 1 .. (Len(q) + Len(s))
    BY <1>1, <1>2 DEF Changes
  <2>4. ASSUME NEW i \in Changes(s, c), \A k \in Changes(s, c) : k <= i, s[i].value = 1
        PROVE  c \in HeldAfter(both, held)
    <3>1. Len(q) + i \in Changes(both, c) /\ both[Len(q) + i].value = 1
      BY <1>1, <2>1, <2>3, <2>4
    <3>2. \A k \in Changes(both, c) : k <= Len(q) + i
      BY <1>2, <2>2, <2>3, <2>4
    <3> QED BY <3>1, <3>2 DEF HeldAfter
  <2>5. ASSUME NEW j \in Changes(both, c), \A k \in Changes(both, c) : k <= j, both[j].value = 1
        PROVE  c \in HeldAfter(s, any)
    <3>1. PICK i \in Changes(s, c) : TRUE
      BY <1>4
    <3>2. Len(q) + i <= j
      BY <2>1, <2>3, <2>5, <3>1
    <3>3. j - Len(q) \in Changes(s, c) /\ s[j - Len(q)].value = 1
      BY <1>1, <1>2, <2>2, <2>3, <2>5, <3>2
    <3>4. \A k \in Changes(s, c) : k <= j - Len(q)
      BY <1>2, <2>1, <2>3, <2>5
    <3> QED BY <1>4, <3>3, <3>4 DEF HeldAfter
  <2>6. Changes(both, c) # {}
    BY <1>4, <2>1, <2>3
  <2> QED BY <1>4, <2>4, <2>5, <2>6 DEF HeldAfter
<1>5. ASSUME NEW c \in Codes
      PROVE  c \in HeldAfter(both, held) <=> c \in HeldAfter(s, HeldAfter(q, held))
  <2>1. CASE Changes(s, c) = {}
    BY <1>3, <2>1 DEF HeldAfter
  <2>2. CASE Changes(s, c) # {}
    BY <1>4, <2>2
  <2> QED BY <2>1, <2>2
<1>6. \A x, y : HeldAfter(x, y) \subseteq Codes
  BY DEF HeldAfter
<1> DEFINE one == HeldAfter(both, held)
           two == HeldAfter(s, HeldAfter(q, held))
<1>7. one \subseteq Codes /\ two \subseteq Codes
  BY <1>6
<1>8. \A c \in Codes : c \in one <=> c \in two
  BY <1>5
<1> HIDE DEF one, two
<1>9. one = two
  BY <1>7, <1>8
<1> QED BY <1>9 DEF one, two, both

LEMMA Batches ==
  /\ MouseEvents \subseteq EventSet /\ KeyEvents \subseteq EventSet
  /\ \A q \in Seq(MouseEvents) : q \in Seq(EventSet)
  /\ \A q \in Seq(KeyEvents) : q \in Seq(EventSet)
BY DEF EventSet

\* What the view's handlers queue, and what it leads to.
LEMMA MoveBatchMoves ==
  ASSUME NEW p \in Positions, NEW held \in SUBSET Codes
  PROVE  MoveBatch(p) \in Seq(MouseEvents) /\ HeldAfter(MoveBatch(p), held) = held
<1>1. Event("abs", 0, p, p) \in MouseEvents
  BY DEF Event, MouseEvents, MoveEvents
<1>2. HeldAfter(<< Event("abs", 0, p, p) >>, held) = held
  BY <1>1, HeldAfterOne, Batches DEF Event
<1> QED BY <1>1, <1>2, HeldAfterNothing DEF MoveBatch

LEMMA ButtonBatchPresses ==
  ASSUME cursor \in Positions, NEW code \in ButtonCodes, NEW pressed \in BOOLEAN,
         NEW held \in SUBSET Codes
  PROVE  /\ ButtonBatch(code, pressed) \in Seq(MouseEvents)
         /\ HeldAfter(ButtonBatch(code, pressed), held) =
              IF (15 \in lastButtons) = pressed THEN held
              ELSE IF pressed THEN held \union {code} ELSE held \ {code}
<1> DEFINE e == Event("key", code, IF pressed THEN 1 ELSE 0, cursor)
<1>1. e \in MouseEvents
  BY DEF Event, MouseEvents, ButtonEvents
<1>2. HeldAfter(<<e>>, held) = IF pressed THEN held \union {code} ELSE held \ {code}
  <2>1. e.type = "key" /\ e.code = code /\ e.value = IF pressed THEN 1 ELSE 0
    BY DEF Event
  <2> HIDE DEF e
  <2> QED BY <1>1, <2>1, HeldAfterOne, Batches
<1>3. Bit(code) = 15
  BY DEF Bit, ButtonCodes, BTN_LEFT, BTN_RIGHT, BTN_MIDDLE
<1>4. ButtonBatch(code, pressed) = IF (15 \in lastButtons) = pressed THEN <<>> ELSE <<e>>
  BY <1>3 DEF ButtonBatch
<1> HIDE DEF e
<1> QED BY <1>1, <1>2, <1>4, HeldAfterNothing

LEMMA LinuxButtonIsButton == \A b \in Buttons : LinuxButton(b) \in ButtonCodes
BY DEF LinuxButton, ButtonCodes

LEMMA KeyEventPresses ==
  ASSUME NEW code \in Keys \union ModifierCodes, NEW value \in {0, 1, 2},
         NEW held \in SUBSET Codes
  PROVE  /\ << KeyEvent(code, value) >> \in Seq(KeyEvents)
         /\ HeldAfter(<< KeyEvent(code, value) >>, held) =
              IF value = 0 THEN held \ {code}
              ELSE IF value = 1 THEN held \union {code} ELSE held
<1> DEFINE e == KeyEvent(code, value)
<1>1. e \in KeyEvents /\ e.type = "key" /\ e.code = code /\ e.value = value
  BY DEF KeyEvent, Event, KeyEvents
<1> HIDE DEF e
<1>2. e \in EventSet
  BY <1>1, Batches
<1>3. HeldAfter(<<e>>, held) =
        IF value = 0 THEN held \ {code} ELSE IF value = 1 THEN held \union {code} ELSE held
  BY <1>1, <1>2, HeldAfterOne
<1>4. <<e>> \in Seq(KeyEvents)
  BY <1>1
<1> QED BY <1>3, <1>4 DEF e

LEMMA ModifierBatchPresses ==
  ASSUME NEW changed \in SUBSET Flags, NEW flags \in SUBSET Flags, NEW held \in SUBSET Codes
  PROVE  /\ ModifierBatch(changed, flags) \in Seq(KeyEvents)
         /\ HeldAfter(ModifierBatch(changed, flags), held) =
              (held \ CodesOf(changed)) \union CodesOf(changed \intersect flags)
<1> DEFINE Batch(flag, code) ==
             IF flag \in changed THEN << KeyEvent(code, IF flag \in flags THEN 1 ELSE 0) >>
             ELSE <<>>
           After(flag, code, h) ==
             IF flag \in changed
             THEN IF flag \in flags THEN h \union {code} ELSE h \ {code}
             ELSE h
<1>1. ASSUME NEW flag, NEW code \in ModifierCodes, NEW h \in SUBSET Codes
      PROVE  /\ Batch(flag, code) \in Seq(KeyEvents)
             /\ HeldAfter(Batch(flag, code), h) = After(flag, code, h)
             /\ After(flag, code, h) \in SUBSET Codes
  <2>1. CASE flag \in changed
    <3> DEFINE value == IF flag \in flags THEN 1 ELSE 0
    <3>1. value \in {0, 1, 2} /\ code \in Keys \union ModifierCodes
      OBVIOUS
    <3>2. Batch(flag, code) = << KeyEvent(code, value) >>
      BY <2>1
    <3>3. /\ << KeyEvent(code, value) >> \in Seq(KeyEvents)
          /\ HeldAfter(<< KeyEvent(code, value) >>, h) =
               IF value = 0 THEN h \ {code} ELSE IF value = 1 THEN h \union {code} ELSE h
      BY <3>1, KeyEventPresses
    <3> QED BY <2>1, <3>2, <3>3 DEF Codes
  <2>2. CASE flag \notin changed
    BY <2>2, HeldAfterNothing
  <2> QED BY <2>1, <2>2
<1>2. ModifierBatch(changed, flags) =
        Batch("shift", 42) \o Batch("control", 29) \o Batch("option", 56)
          \o Batch("command", 125)
  BY DEF ModifierBatch, MODIFIER_MAP
<1>3. (held \ CodesOf(changed)) \union CodesOf(changed \intersect flags) =
        After("command", 125, After("option", 56, After("control", 29, After("shift", 42, held))))
  BY CodesOfFlags DEF ModifierCodes, Codes
<1> HIDE DEF Batch, After
<1>4. 42 \in ModifierCodes /\ 29 \in ModifierCodes /\ 56 \in ModifierCodes /\ 125 \in ModifierCodes
  BY DEF ModifierCodes
<1> DEFINE one == Batch("shift", 42)
           two == one \o Batch("control", 29)
           three == two \o Batch("option", 56)
           four == three \o Batch("command", 125)
<1>5. ASSUME NEW s \in Seq(KeyEvents), NEW h \in SUBSET Codes, HeldAfter(s, held) = h,
             NEW flag, NEW code \in ModifierCodes
      PROVE  /\ s \o Batch(flag, code) \in Seq(KeyEvents)
             /\ HeldAfter(s \o Batch(flag, code), held) = After(flag, code, h)
             /\ After(flag, code, h) \in SUBSET Codes
  <2>1. Batch(flag, code) \in Seq(KeyEvents)
    BY <1>1
  <2>2. s \o Batch(flag, code) \in Seq(KeyEvents)
    BY <2>1
  <2>3. HeldAfter(s \o Batch(flag, code), held) = HeldAfter(Batch(flag, code), h)
    BY <1>5, <2>1, HeldAfterBoth, Batches
  <2> QED BY <1>1, <2>2, <2>3
<1> DEFINE h1 == After("shift", 42, held)
           h2 == After("control", 29, h1)
           h3 == After("option", 56, h2)
<1>6. one \in Seq(KeyEvents) /\ HeldAfter(one, held) = h1 /\ h1 \in SUBSET Codes
  BY <1>1, <1>4
<1> HIDE DEF one, h1
<1>7. two \in Seq(KeyEvents) /\ HeldAfter(two, held) = h2 /\ h2 \in SUBSET Codes
  BY <1>4, <1>5, <1>6
<1> HIDE DEF two, h2
<1>8. three \in Seq(KeyEvents) /\ HeldAfter(three, held) = h3 /\ h3 \in SUBSET Codes
  BY <1>4, <1>5, <1>7
<1> HIDE DEF three, h3
<1>9. four \in Seq(KeyEvents) /\ HeldAfter(four, held) = After("command", 125, h3)
  BY <1>4, <1>5, <1>8
<1> QED BY <1>2, <1>3, <1>9 DEF one, two, three, four, h1, h2, h3

\* Taking the first event, the guest gets nearer to what the queue leads to.
LEMMA HeldAfterHead ==
  ASSUME NEW q \in Seq(EventSet), q # <<>>, NEW held \in SUBSET Codes
  PROVE  HeldAfter(Tail(q), HeldAfter(<< Head(q) >>, held)) = HeldAfter(q, held)
<1>1. Head(q) \in EventSet /\ Tail(q) \in Seq(EventSet)
  BY HeadTailProperties
<1>2. q = << Head(q) >> \o Tail(q)
  BY HeadTailProperties
<1>3. << Head(q) >> \in Seq(EventSet)
  BY <1>1
<1> QED BY <1>1, <1>2, <1>3, HeldAfterBoth

-----------------------------------------------------------------------------
(* The queues *)

LEMMA MouseOrKeyboard ==
  Devices = {"keyboard", "mouse"} /\ "mouse" \in Devices /\ "keyboard" \in Devices
BY DEF Devices

\* push_batch keeps the other queue, and a byte in the pipe of this one.
LEMMA PushIsSound ==
  ASSUME InputTypes, NoLostWakeup, NEW device \in Devices, NEW events \in Seq(EventSet),
         Push(device, events)
  PROVE  /\ queue' \in [Devices -> Seq(EventSet)]
         /\ queue'[device] = queue[device] \o events
         /\ \A other \in Devices \ {device} : queue'[other] = queue[other]
         /\ readable' \in [Devices -> BOOLEAN]
         /\ NoLostWakeup'
<1>1. queue[device] \o events \in Seq(EventSet)
  BY DEF InputTypes
<1>2. queue' \in [Devices -> Seq(EventSet)] /\ readable' \in [Devices -> BOOLEAN]
  BY <1>1 DEF InputTypes, Push
<1>3. queue'[device] = queue[device] \o events
  BY DEF InputTypes, Push
<1>4. \A other \in Devices \ {device} : queue'[other] = queue[other]
  BY DEF InputTypes, Push
<1>5. events = <<>> => queue[device] \o events = queue[device]
  BY DEF InputTypes
<1>6. ASSUME NEW d \in Devices, queue'[d] # <<>> PROVE readable'[d]
  BY <1>5, <1>6 DEF InputTypes, NoLostWakeup, Push
<1> QED
  BY <1>2, <1>3, <1>4, <1>6 DEF NoLostWakeup

LEMMA PopIsSound ==
  ASSUME InputTypes, NoLostWakeup, NEW device \in Devices, Pop(device)
  PROVE  /\ queue' \in [Devices -> Seq(EventSet)]
         /\ queue[device] = <<>> => queue' = queue
         /\ queue[device] # <<>> => queue'[device] = Tail(queue[device])
         /\ \A other \in Devices \ {device} : queue'[other] = queue[other]
         /\ readable' \in [Devices -> BOOLEAN]
         /\ NoLostWakeup'
<1>1. CASE queue[device] = <<>>
  BY <1>1 DEF InputTypes, NoLostWakeup, Pop
<1>2. CASE queue[device] # <<>>
  <2>1. Tail(queue[device]) \in Seq(EventSet)
    BY <1>2 DEF InputTypes
  <2>2. readable[device]
    BY DEF Pop
  <2> QED
    BY <1>2, <2>1, <2>2 DEF InputTypes, NoLostWakeup, Pop
<1> QED
  BY <1>1, <1>2

\* What mouseDown and mouseUp queue, and what it leads to.
LEMMA ForwardButtonPushes ==
  ASSUME InputTypes, NEW b \in Buttons, NEW pressed \in BOOLEAN, NEW held \in SUBSET Codes
  PROVE  /\ MoveBatch(cursor) \o ButtonBatch(LinuxButton(b), pressed) \in Seq(MouseEvents)
         /\ HeldAfter(MoveBatch(cursor) \o ButtonBatch(LinuxButton(b), pressed), held) =
              IF (15 \in lastButtons) = pressed THEN held
              ELSE IF pressed THEN held \union {LinuxButton(b)}
              ELSE held \ {LinuxButton(b)}
<1> DEFINE moves == MoveBatch(cursor)
           presses == ButtonBatch(LinuxButton(b), pressed)
<1>1. moves \in Seq(MouseEvents) /\ HeldAfter(moves, held) = held
  BY MoveBatchMoves DEF InputTypes
<1>2. /\ presses \in Seq(MouseEvents)
      /\ HeldAfter(presses, held) =
           IF (15 \in lastButtons) = pressed THEN held
           ELSE IF pressed THEN held \union {LinuxButton(b)} ELSE held \ {LinuxButton(b)}
  BY ButtonBatchPresses, LinuxButtonIsButton DEF InputTypes
<1> HIDE DEF moves, presses
<1>3. HeldAfter(moves \o presses, held) = HeldAfter(presses, held)
  BY <1>1, <1>2, HeldAfterBoth, Batches
<1>4. moves \o presses \in Seq(MouseEvents)
  BY <1>1, <1>2
<1> QED BY <1>2, <1>3, <1>4 DEF moves, presses

\* The handlers of the mouse and of the keyboard each push on their queue
\* only; every other step but libkrun's leaves both alone.
LEMMA MousePushes ==
  ASSUME InputTypes, NoLostWakeup, NEW events \in Seq(MouseEvents), Push("mouse", events)
  PROVE  /\ queue' \in [Devices -> Seq(EventSet)]
         /\ queue'["mouse"] = queue["mouse"] \o events
         /\ queue'["mouse"] \in Seq(MouseEvents)
         /\ queue'["keyboard"] = queue["keyboard"]
         /\ readable' \in [Devices -> BOOLEAN] /\ NoLostWakeup'
<1>1. events \in Seq(EventSet)
  BY Batches
<1>2. queue["mouse"] \o events \in Seq(MouseEvents)
  BY DEF InputTypes
<1> QED BY <1>1, <1>2, MouseOrKeyboard, PushIsSound

LEMMA KeyboardPushes ==
  ASSUME InputTypes, NoLostWakeup, NEW events \in Seq(KeyEvents), Push("keyboard", events)
  PROVE  /\ queue' \in [Devices -> Seq(EventSet)]
         /\ queue'["keyboard"] = queue["keyboard"] \o events
         /\ queue'["keyboard"] \in Seq(KeyEvents)
         /\ queue'["mouse"] = queue["mouse"]
         /\ readable' \in [Devices -> BOOLEAN] /\ NoLostWakeup'
<1>1. events \in Seq(EventSet)
  BY Batches
<1>2. queue["keyboard"] \o events \in Seq(KeyEvents)
  BY DEF InputTypes
<1> QED BY <1>1, <1>2, MouseOrKeyboard, PushIsSound

LEMMA PushLeadsOn ==
  ASSUME InputTypes, NoLostWakeup, NEW held \in SUBSET Codes, NEW events
  PROVE  /\ events \in Seq(MouseEvents) /\ Push("mouse", events) =>
              HeldAfter(queue'["mouse"], held) =
                HeldAfter(events, HeldAfter(queue["mouse"], held))
         /\ events \in Seq(KeyEvents) /\ Push("keyboard", events) =>
              HeldAfter(queue'["keyboard"], held) =
                HeldAfter(events, HeldAfter(queue["keyboard"], held))
<1>1. queue["mouse"] \in Seq(EventSet) /\ queue["keyboard"] \in Seq(EventSet)
  BY Batches DEF InputTypes
<1>2. ASSUME events \in Seq(EventSet)
      PROVE  /\ HeldAfter(queue["mouse"] \o events, held) =
                  HeldAfter(events, HeldAfter(queue["mouse"], held))
             /\ HeldAfter(queue["keyboard"] \o events, held) =
                  HeldAfter(events, HeldAfter(queue["keyboard"], held))
  BY <1>1, <1>2, HeldAfterBoth
<1>3. ASSUME events \in Seq(MouseEvents), Push("mouse", events)
      PROVE  queue'["mouse"] = queue["mouse"] \o events /\ events \in Seq(EventSet)
  BY <1>3, MousePushes, Batches
<1>4. ASSUME events \in Seq(KeyEvents), Push("keyboard", events)
      PROVE  queue'["keyboard"] = queue["keyboard"] \o events /\ events \in Seq(EventSet)
  BY <1>4, KeyboardPushes, Batches
<1> QED BY <1>2, <1>3, <1>4

-----------------------------------------------------------------------------
(* The invariant, conjunct by conjunct *)

LEMMA InputInitIInv == InputInit => InputIInv
<1> SUFFICES ASSUME InputInit PROVE InputIInv
  OBVIOUS
<1> USE DEF InputInit
<1>1. InputTypes /\ NoLostWakeup
  BY MouseOrKeyboard DEF InputTypes, NoLostWakeup
<1>2. ButtonsSettle /\ KeysSettle
  <2>1. HeldAfter(<<>>, {}) = {}
    BY HeldAfterNothing
  <2>2. CodesOf({}) = {}
    BY CodesOfFlags
  <2> QED BY <2>1, <2>2, MouseOrKeyboard DEF ButtonsSettle, KeysSettle
<1>3. PointerFollows /\ ClickOnTarget
  BY MouseOrKeyboard DEF PointerFollows, ClickOnTarget
<1> QED BY <1>1, <1>2, <1>3 DEF InputIInv

LEMMA TypesStep ==
  InputTypes /\ NoLostWakeup /\ [InputNext]_inputVars => InputTypes' /\ NoLostWakeup'
<1> SUFFICES ASSUME InputTypes, NoLostWakeup, [InputNext]_inputVars
             PROVE  InputTypes' /\ NoLostWakeup'
  OBVIOUS
<1>1. ASSUME NEW b \in Buttons, MouseDown(b) \/ MouseUp(b) PROVE InputTypes' /\ NoLostWakeup'
  <2>1. PICK pressed \in BOOLEAN : ForwardButton(b, pressed)
    BY <1>1 DEF MouseDown, MouseUp
  <2> DEFINE events == MoveBatch(cursor) \o ButtonBatch(LinuxButton(b), pressed)
  <2>2. events \in Seq(MouseEvents) /\ Push("mouse", events)
    BY <2>1, ForwardButtonPushes DEF ForwardButton
  <2> HIDE DEF events
  <2> QED BY <1>1, <2>1, <2>2, MousePushes, LinuxButtonIsButton
      DEF MouseDown, MouseUp, ForwardButton, InputTypes, guestVars
<1>2. ASSUME NEW p \in Positions, MouseMoved(p) PROVE InputTypes' /\ NoLostWakeup'
  <2>1. MoveBatch(p) \in Seq(MouseEvents) /\ Push("mouse", MoveBatch(p))
    BY <1>2, MoveBatchMoves DEF MouseMoved
  <2> QED BY <1>2, <2>1, MousePushes DEF MouseMoved, InputTypes, guestVars
<1>3. ASSUME NEW k \in Keys, KeyDown(k) \/ KeyUp(k) PROVE InputTypes' /\ NoLostWakeup'
  <2>1. PICK value \in {0, 1, 2} : Push("keyboard", << KeyEvent(k, value) >>)
    BY <1>3 DEF KeyDown, KeyUp
  <2>2. << KeyEvent(k, value) >> \in Seq(KeyEvents)
    BY KeyEventPresses
  <2> QED BY <1>3, <2>1, <2>2, KeyboardPushes DEF KeyDown, KeyUp, InputTypes, guestVars
<1>4. ASSUME NEW flags \in SUBSET Flags, FlagsChanged(flags) PROVE InputTypes' /\ NoLostWakeup'
  <2> DEFINE changed == (flags \ lastFlags) \union (lastFlags \ flags)
  <2>1. changed \in SUBSET Flags
    BY DEF InputTypes
  <2>2. ModifierBatch(changed, flags) \in Seq(KeyEvents)
    BY <2>1, ModifierBatchPresses
  <2>3. Push("keyboard", ModifierBatch(changed, flags))
    BY <1>4 DEF FlagsChanged
  <2> QED BY <1>4, <2>2, <2>3, KeyboardPushes DEF FlagsChanged, InputTypes, guestVars
<1>5. CASE ResignFirstResponder
  <2>1. ModifierBatch(Flags, {}) \in Seq(KeyEvents)
    BY ModifierBatchPresses
  <2> QED BY <1>5, <2>1, KeyboardPushes DEF ResignFirstResponder, InputTypes, guestVars
<1>6. ASSUME NEW k \in Keys, NEW flags \in SUBSET Flags, ChangeUnseen(k, flags)
      PROVE InputTypes' /\ NoLostWakeup'
  BY <1>6 DEF ChangeUnseen, InputTypes, NoLostWakeup, hostVars, queueVars, guestVars
<1>7. CASE Deactivate \/ FocusViewer
  BY <1>7 DEF Deactivate, FocusViewer, InputTypes, NoLostWakeup, hostVars, queueVars, guestVars
<1>8. ASSUME NEW p \in Positions, ToolMoves(p) PROVE InputTypes' /\ NoLostWakeup'
  BY <1>8 DEF ToolMoves, InputTypes, NoLostWakeup, userVars, hostVars, queueVars
<1>9. ASSUME NEW d \in Devices, NextEvent(d) PROVE InputTypes' /\ NoLostWakeup'
  <2>1. /\ queue' \in [Devices -> Seq(EventSet)] /\ readable' \in [Devices -> BOOLEAN]
        /\ NoLostWakeup'
    BY <1>9, PopIsSound DEF NextEvent
  <2>2. queue'["mouse"] \in Seq(MouseEvents) /\ queue'["keyboard"] \in Seq(KeyEvents)
    <3>1. queue["mouse"] # <<>> => Tail(queue["mouse"]) \in Seq(MouseEvents)
      BY HeadTailProperties DEF InputTypes
    <3>2. queue["keyboard"] # <<>> => Tail(queue["keyboard"]) \in Seq(KeyEvents)
      BY HeadTailProperties DEF InputTypes
    <3>3. CASE d = "mouse"
      BY <1>9, <3>1, <3>3, PopIsSound, MouseOrKeyboard DEF NextEvent, InputTypes
    <3>4. CASE d = "keyboard"
      BY <1>9, <3>2, <3>4, PopIsSound, MouseOrKeyboard DEF NextEvent, InputTypes
    <3> QED BY <3>3, <3>4, MouseOrKeyboard
  <2>3. down' \in SUBSET Codes
    <3>1. CASE queue[d] = <<>>
      BY <1>9, <3>1 DEF NextEvent, InputTypes, guestVars
    <3>2. CASE queue[d] # <<>>
      <4>1. Head(queue[d]) \in EventSet
        BY <3>2, HeadTailProperties DEF InputTypes
      <4> DEFINE e == Head(queue[d])
      <4>2. GuestHandles(e)
        BY <1>9, <3>2 DEF NextEvent
      <4> HIDE DEF e
      <4>3. e \in EventSet
        BY <4>1 DEF e
      <4>4. e.type = "key" => e.code \in Codes /\ e.value \in {0, 1, 2}
        BY <4>3 DEF EventSet, MouseEvents, MoveEvents, ButtonEvents, KeyEvents, Codes
      <4> QED BY <4>2, <4>4 DEF GuestHandles, InputTypes
    <3> QED BY <3>1, <3>2
  <2> QED BY <1>9, <2>1, <2>2, <2>3 DEF NextEvent, InputTypes, userVars, hostVars
<1>10. CASE UNCHANGED inputVars
  BY <1>10 DEF inputVars, InputTypes, NoLostWakeup, userVars, hostVars, queueVars, guestVars
<1> QED
  BY <1>1, <1>2, <1>3, <1>4, <1>5, <1>6, <1>7, <1>8, <1>9, <1>10 DEF InputNext

\* What libkrun takes next changes the guest's codes of one device only, and
\* brings them nearer to what the queue of that device leads to.
LEMMA GuestGetsNearer ==
  ASSUME InputTypes, NoLostWakeup, NEW d \in Devices, NextEvent(d)
  PROVE  /\ HeldAfter(queue["mouse"], down \intersect ButtonCodes)'
              = HeldAfter(queue["mouse"], down \intersect ButtonCodes)
         /\ HeldAfter(queue["keyboard"], down \ ButtonCodes)'
              = HeldAfter(queue["keyboard"], down \ ButtonCodes)
<1>1. CASE queue[d] = <<>>
  BY <1>1, PopIsSound DEF NextEvent, guestVars
<1>2. CASE queue[d] # <<>>
  <2> DEFINE e == Head(queue[d])
             held == IF d = "mouse" THEN down \intersect ButtonCodes ELSE down \ ButtonCodes
  <2>1. GuestHandles(e) /\ queue'[d] = Tail(queue[d])
    BY <1>2, PopIsSound DEF NextEvent
  <2>2. \A other \in Devices \ {d} : queue'[other] = queue[other]
    BY PopIsSound DEF NextEvent
  <2>3. queue[d] \in Seq(EventSet) /\ e \in EventSet
    BY <1>2, HeadTailProperties DEF InputTypes
  <2>4. /\ d = "mouse" => e \in MouseEvents
        /\ d = "keyboard" => e \in KeyEvents
    BY <1>2, HeadTailProperties DEF InputTypes
  <2>5. held \in SUBSET Codes
    BY DEF InputTypes
  <2>6. HeldAfter(Tail(queue[d]), HeldAfter(<<e>>, held)) = HeldAfter(queue[d], held)
    BY <1>2, <2>3, <2>5, HeldAfterHead
  <2> HIDE DEF e
  <2>7. CASE d = "mouse"
    <3>1. e.type = "abs" \/ (e.type = "key" /\ e.value \in {0, 1} /\ e.code \in ButtonCodes)
      BY <2>4, <2>7 DEF MouseEvents, MoveEvents, ButtonEvents
    <3>2. HeldAfter(<<e>>, held) = down' \intersect ButtonCodes
      BY <2>1, <2>3, <2>5, <2>7, <3>1, HeldAfterOne DEF GuestHandles
    <3>3. down' \ ButtonCodes = down \ ButtonCodes
      BY <2>1, <3>1 DEF GuestHandles
    <3>4. queue'["mouse"] = Tail(queue["mouse"]) /\ queue'["keyboard"] = queue["keyboard"]
      BY <2>1, <2>2, <2>7, MouseOrKeyboard
    <3> QED BY <2>6, <2>7, <3>2, <3>3, <3>4
  <2>8. CASE d = "keyboard"
    <3>1. /\ e.type = "key" /\ e.value \in {0, 1, 2} /\ e.code \notin ButtonCodes
          /\ e.code \in Codes
      BY <2>4, <2>8, CodesAreDisjoint DEF KeyEvents, Codes
    <3>2. HeldAfter(<<e>>, held) = down' \ ButtonCodes
      BY <2>1, <2>3, <2>5, <2>8, <3>1, HeldAfterOne DEF GuestHandles
    <3>3. down' \intersect ButtonCodes = down \intersect ButtonCodes
      BY <2>1, <3>1 DEF GuestHandles
    <3>4. queue'["keyboard"] = Tail(queue["keyboard"]) /\ queue'["mouse"] = queue["mouse"]
      BY <2>1, <2>2, <2>8, MouseOrKeyboard
    <3> QED BY <2>6, <2>8, <3>2, <3>3, <3>4
  <2> QED BY <2>7, <2>8, MouseOrKeyboard
<1> QED BY <1>1, <1>2

LEMMA ButtonsStep ==
  InputTypes /\ NoLostWakeup /\ ButtonsSettle /\ [InputNext]_inputVars => ButtonsSettle'
<1> SUFFICES ASSUME InputTypes, NoLostWakeup, ButtonsSettle, [InputNext]_inputVars, ~ mixed'
             PROVE  ButtonsSettle'
  BY DEF ButtonsSettle
<1> DEFINE held == HeldAfter(queue["mouse"], down \intersect ButtonCodes)
<1>h. held \in SUBSET Codes /\ down \intersect ButtonCodes \in SUBSET Codes
  BY DEF HeldAfter, Codes
<1>1. ASSUME NEW b \in Buttons, MouseDown(b) PROVE ButtonsSettle'
  <2> DEFINE events == MoveBatch(cursor) \o ButtonBatch(LinuxButton(b), TRUE)
  <2>1. /\ ~ mixed /\ \A c \in Buttons : buttons[c] = 0
        /\ lastButtons = {} /\ held = {}
    BY <1>1 DEF MouseDown, ButtonsSettle
  <2>2. Push("mouse", events) /\ events \in Seq(MouseEvents)
    BY <1>1, ForwardButtonPushes DEF MouseDown, ForwardButton
  <2>3. HeldAfter(events, held) = {LinuxButton(b)}
    <3> HIDE DEF held
    <3>1. HeldAfter(events, held) = IF (15 \in lastButtons) = TRUE THEN held
                                    ELSE held \union {LinuxButton(b)}
      BY <1>h, ForwardButtonPushes
    <3> QED BY <2>1, <3>1
  <2> HIDE DEF events
  <2>4. HeldAfter(queue'["mouse"], down \intersect ButtonCodes) = {LinuxButton(b)}
    BY <1>h, <2>2, <2>3, PushLeadsOn
  <2>5. lastButtons' = {15}
    BY <1>1, <2>1, LinuxButtonIsButton
    DEF MouseDown, ForwardButton, ButtonsAfter, Bit, ButtonCodes, BTN_LEFT, BTN_RIGHT, BTN_MIDDLE
  <2>6. buttons' = [buttons EXCEPT ![b] = LinuxButton(b)] /\ down' = down
    BY <1>1 DEF MouseDown, guestVars
  <2>7. LinuxButton(b) \in ButtonCodes /\ LinuxButton(b) # 0
    BY LinuxButtonIsButton DEF ButtonCodes, BTN_LEFT, BTN_RIGHT, BTN_MIDDLE
  <2>8. {buttons'[c] : c \in Buttons} \ {0} = {LinuxButton(b)}
    BY <2>1, <2>6, <2>7 DEF InputTypes
  <2> QED BY <2>1, <2>4, <2>5, <2>6, <2>7, <2>8 DEF ButtonsSettle, InputTypes
<1>2. ASSUME NEW b \in Buttons, MouseUp(b) PROVE ButtonsSettle'
  <2> DEFINE events == MoveBatch(cursor) \o ButtonBatch(LinuxButton(b), FALSE)
  <2>1. /\ ~ mixed /\ buttons[b] = LinuxButton(b) /\ buttons[b] # 0
        /\ \A c \in Buttons \ {b} : buttons[c] = 0
        /\ lastButtons = {15}
    BY <1>2 DEF MouseUp, ButtonsSettle
  <2>2. held = {LinuxButton(b)}
    BY <2>1 DEF ButtonsSettle
  <2>3. Push("mouse", events) /\ events \in Seq(MouseEvents)
    BY <1>2, ForwardButtonPushes DEF MouseUp, ForwardButton
  <2>4. HeldAfter(events, held) = {}
    <3> HIDE DEF held
    <3>1. HeldAfter(events, held) = IF (15 \in lastButtons) = FALSE THEN held
                                    ELSE held \ {LinuxButton(b)}
      BY <1>h, ForwardButtonPushes
    <3> QED BY <2>1, <2>2, <3>1
  <2> HIDE DEF events
  <2>5. HeldAfter(queue'["mouse"], down \intersect ButtonCodes) = {}
    BY <1>h, <2>3, <2>4, PushLeadsOn
  <2>6. lastButtons' = {}
    BY <1>2, <2>1, LinuxButtonIsButton
    DEF MouseUp, ForwardButton, ButtonsAfter, Bit, ButtonCodes, BTN_LEFT, BTN_RIGHT, BTN_MIDDLE
  <2>7. buttons' = [buttons EXCEPT ![b] = 0] /\ down' = down
    BY <1>2 DEF MouseUp, guestVars
  <2> QED BY <2>1, <2>5, <2>6, <2>7 DEF ButtonsSettle, InputTypes
<1>3. ASSUME NEW p \in Positions, MouseMoved(p) PROVE ButtonsSettle'
  <2>1. MoveBatch(p) \in Seq(MouseEvents) /\ HeldAfter(MoveBatch(p), held) = held
    BY <1>h, MoveBatchMoves
  <2>2. HeldAfter(queue'["mouse"], down \intersect ButtonCodes) = held
    BY <1>3, <1>h, <2>1, PushLeadsOn DEF MouseMoved
  <2> QED BY <1>3, <2>2 DEF MouseMoved, ButtonsSettle, guestVars
<1>4. ASSUME NEW d \in Devices, NextEvent(d) PROVE ButtonsSettle'
  BY <1>4, GuestGetsNearer DEF NextEvent, ButtonsSettle, userVars, hostVars
<1>5. CASE queue'["mouse"] = queue["mouse"]
           /\ UNCHANGED <<buttons, lastButtons, down, mixed>>
  BY <1>5 DEF ButtonsSettle
<1>6. ASSUME NEW k \in Keys, KeyDown(k) \/ KeyUp(k)
      PROVE  queue'["mouse"] = queue["mouse"]
  BY <1>6, MouseOrKeyboard DEF KeyDown, KeyUp, Push, InputTypes
<1>7. ASSUME NEW flags \in SUBSET Flags, FlagsChanged(flags) \/ ResignFirstResponder
      PROVE  queue'["mouse"] = queue["mouse"]
  BY <1>7, MouseOrKeyboard DEF FlagsChanged, ResignFirstResponder, Push, InputTypes
<1> QED
  BY <1>1, <1>2, <1>3, <1>4, <1>5, <1>6, <1>7
  DEF InputNext, ToolMoves, KeyDown, KeyUp, FlagsChanged, ChangeUnseen, Deactivate,
      ResignFirstResponder, FocusViewer, inputVars, userVars, hostVars, queueVars, guestVars

LEMMA KeysStep ==
  InputTypes /\ NoLostWakeup /\ KeysSettle /\ [InputNext]_inputVars => KeysSettle'
<1> SUFFICES ASSUME InputTypes, NoLostWakeup, KeysSettle, [InputNext]_inputVars, ~ missed'
             PROVE  KeysSettle'
  BY DEF KeysSettle
<1> DEFINE held == HeldAfter(queue["keyboard"], down \ ButtonCodes)
<1>h. held \in SUBSET Codes /\ down \ ButtonCodes \in SUBSET Codes
  BY DEF HeldAfter, InputTypes
<1>1. ASSUME NEW k \in Keys, KeyDown(k) PROVE KeysSettle'
  <2> DEFINE value == IF k \in pressedKeys THEN 2 ELSE 1
             events == << KeyEvent(k, value) >>
  <2>1. /\ ~ missed /\ pressedKeys = keys /\ lastFlags = mods
        /\ held = keys \union CodesOf(mods)
    BY <1>1 DEF KeyDown, KeysSettle
  <2>2. Push("keyboard", events) /\ events \in Seq(KeyEvents)
    BY <1>1, KeyEventPresses DEF KeyDown
  <2>3. HeldAfter(events, held) = held \union {k}
    <3>1. HeldAfter(events, held) = IF value = 1 THEN held \union {k} ELSE held
      <4>1. value \in {1, 2}
        OBVIOUS
      <4> HIDE DEF held, value
      <4>2. HeldAfter(<< KeyEvent(k, value) >>, held) =
              IF value = 0 THEN held \ {k} ELSE IF value = 1 THEN held \union {k} ELSE held
        BY <1>h, <4>1, KeyEventPresses
      <4> QED BY <4>1, <4>2
    <3> QED BY <2>1, <3>1
  <2> HIDE DEF events
  <2>4. HeldAfter(queue'["keyboard"], down \ ButtonCodes) = held \union {k}
    BY <1>h, <2>2, <2>3, PushLeadsOn
  <2> QED BY <1>1, <2>1, <2>4 DEF KeyDown, KeysSettle, guestVars
<1>2. ASSUME NEW k \in Keys, KeyUp(k) PROVE KeysSettle'
  <2> DEFINE events == << KeyEvent(k, 0) >>
  <2>1. /\ ~ missed /\ pressedKeys = keys /\ lastFlags = mods
        /\ held = keys \union CodesOf(mods)
    BY <1>2 DEF KeyUp, KeysSettle
  <2>2. Push("keyboard", events) /\ events \in Seq(KeyEvents)
    BY <1>2, KeyEventPresses DEF KeyUp
  <2>3. HeldAfter(events, held) = held \ {k}
    <3> HIDE DEF held
    <3> QED BY <1>h, KeyEventPresses
  <2> HIDE DEF events
  <2>4. HeldAfter(queue'["keyboard"], down \ ButtonCodes) = held \ {k}
    BY <1>h, <2>2, <2>3, PushLeadsOn
  <2>5. k \notin CodesOf(mods)
    BY CodesOfFlags, CodesAreDisjoint
  <2> QED BY <1>2, <2>1, <2>4, <2>5 DEF KeyUp, KeysSettle, guestVars
<1>3. ASSUME NEW flags \in SUBSET Flags, FlagsChanged(flags) PROVE KeysSettle'
  <2> DEFINE changed == (flags \ lastFlags) \union (lastFlags \ flags)
             events == ModifierBatch(changed, flags)
  <2>1. /\ ~ missed /\ pressedKeys = keys /\ lastFlags = mods
        /\ held = keys \union CodesOf(mods)
    BY <1>3 DEF FlagsChanged, KeysSettle
  <2>2. changed \in SUBSET Flags
    BY DEF InputTypes
  <2>3. Push("keyboard", events) /\ events \in Seq(KeyEvents)
    BY <1>3, <2>2, ModifierBatchPresses DEF FlagsChanged
  <2>4. HeldAfter(events, held) = (held \ CodesOf(changed)) \union CodesOf(changed \intersect flags)
    <3> HIDE DEF held, changed
    <3> QED BY <1>h, <2>2, ModifierBatchPresses
  <2>5. (held \ CodesOf(changed)) \union CodesOf(changed \intersect flags)
          = keys \union CodesOf(flags)
    <3>1. changed = (flags \ mods) \union (mods \ flags)
      BY <2>1
    <3>2. (CodesOf(mods) \ CodesOf(changed)) \union CodesOf(changed \intersect flags)
            = CodesOf(flags)
      BY <3>1, CodesOfChanged
    <3>3. CodesOf(changed) \intersect Keys = {}
      BY CodesOfFlags, CodesAreDisjoint
    <3> HIDE DEF held, changed
    <3> QED BY <2>1, <3>2, <3>3 DEF InputTypes
  <2> HIDE DEF events
  <2>6. HeldAfter(queue'["keyboard"], down \ ButtonCodes) = keys \union CodesOf(flags)
    BY <1>h, <2>3, <2>4, <2>5, PushLeadsOn
  <2> QED BY <1>3, <2>1, <2>6 DEF FlagsChanged, KeysSettle, guestVars
<1>4. CASE ResignFirstResponder
  <2> DEFINE events == ModifierBatch(Flags, {})
  <2>1. /\ ~ missed /\ pressedKeys = keys /\ mods = {}
        /\ held = keys \union CodesOf({})
    BY <1>4 DEF ResignFirstResponder, KeysSettle
  <2>2. Push("keyboard", events) /\ events \in Seq(KeyEvents)
    BY <1>4, ModifierBatchPresses DEF ResignFirstResponder
  <2>3. HeldAfter(events, held) = (held \ CodesOf(Flags)) \union CodesOf(Flags \intersect {})
    <3> HIDE DEF held
    <3> QED BY <1>h, ModifierBatchPresses
  <2>4. (held \ CodesOf(Flags)) \union CodesOf(Flags \intersect {}) = keys \union CodesOf({})
    <3> HIDE DEF held
    <3> QED BY <2>1, CodesOfFlags, CodesAreDisjoint DEF InputTypes
  <2> HIDE DEF events
  <2>5. HeldAfter(queue'["keyboard"], down \ ButtonCodes) = keys \union CodesOf({})
    BY <1>h, <2>2, <2>3, <2>4, PushLeadsOn
  <2> QED BY <1>4, <2>1, <2>5 DEF ResignFirstResponder, KeysSettle, guestVars
<1>5. ASSUME NEW d \in Devices, NextEvent(d) PROVE KeysSettle'
  BY <1>5, GuestGetsNearer DEF NextEvent, KeysSettle, userVars, hostVars
<1>6. ASSUME NEW k \in Keys, NEW flags \in SUBSET Flags, ChangeUnseen(k, flags)
      PROVE  KeysSettle'
  BY <1>6 DEF ChangeUnseen, KeysSettle, hostVars, queueVars, guestVars
<1>7. CASE /\ queue'["keyboard"] = queue["keyboard"]
           /\ UNCHANGED <<keys, mods, pressedKeys, lastFlags, down, missed>>
  BY <1>7 DEF KeysSettle
<1>8. ASSUME NEW b \in Buttons, MouseDown(b) \/ MouseUp(b)
      PROVE  queue'["keyboard"] = queue["keyboard"]
  BY <1>8, MouseOrKeyboard DEF MouseDown, MouseUp, ForwardButton, Push, InputTypes
<1>9. ASSUME NEW p \in Positions, MouseMoved(p)
      PROVE  queue'["keyboard"] = queue["keyboard"]
  BY <1>9, MouseOrKeyboard DEF MouseMoved, Push, InputTypes
<1> QED
  BY <1>1, <1>2, <1>3, <1>4, <1>5, <1>6, <1>7, <1>8, <1>9
  DEF InputNext, MouseDown, MouseUp, ForwardButton, MouseMoved, ToolMoves, Deactivate,
      FocusViewer, inputVars, userVars, hostVars, queueVars, guestVars

-----------------------------------------------------------------------------
(* The pointer *)

\* Events pushed later do not change where an earlier one finds the pointer.
LEMMA PointerAtPrefix ==
  ASSUME NEW q \in Seq(EventSet), NEW s \in Seq(EventSet),
         NEW i \in 1 .. (Len(q) + 1), NEW p
  PROVE  PointerAt(q \o s, i, p) <=> PointerAt(q, i, p)
<1>1. \A j \in 1 .. (i - 1) : (q \o s)[j] = q[j]
  <2>1. \A j \in 1 .. (i - 1) : j \in 1 .. Len(q)
    BY LenProperties
  <2> QED BY <2>1, ConcatProperties
<1> DEFINE both == q \o s
<1> HIDE DEF both
<1>2. \A j \in 1 .. (i - 1) : both[j] = q[j]
  BY <1>1 DEF both
<1>3. {j \in 1 .. (i - 1) : both[j].type = "abs"} = {j \in 1 .. (i - 1) : q[j].type = "abs"}
  BY <1>2
<1>4. PointerAt(both, i, p) <=> PointerAt(q, i, p)
  BY <1>2, <1>3 DEF PointerAt
<1> QED BY <1>4 DEF both

\* After a move the pointer is there; a key or button event leaves it.
LEMMA PointerAtNext ==
  ASSUME NEW q \in Seq(EventSet), NEW i \in DOMAIN q, NEW p
  PROVE  /\ q[i].type = "abs" /\ q[i].value = p => PointerAt(q, i + 1, p)
         /\ q[i].type # "abs" => (PointerAt(q, i + 1, p) <=> PointerAt(q, i, p))
<1>1. i \in Nat /\ i >= 1
  BY LenProperties
<1>2. 1 .. ((i + 1) - 1) = (1 .. (i - 1)) \union {i}
  BY <1>1
<1>3. CASE q[i].type = "abs" /\ q[i].value = p
  <2>1. i \in {j \in 1 .. ((i + 1) - 1) : q[j].type = "abs"}
    BY <1>2, <1>3
  <2>2. \A k \in {j \in 1 .. ((i + 1) - 1) : q[j].type = "abs"} : k <= i
    BY <1>1
  <2> QED BY <1>3, <2>1, <2>2 DEF PointerAt
<1>4. CASE q[i].type # "abs"
  <2>1. {j \in 1 .. ((i + 1) - 1) : q[j].type = "abs"} = {j \in 1 .. (i - 1) : q[j].type = "abs"}
    BY <1>2, <1>4
  <2> QED BY <1>4, <2>1 DEF PointerAt
<1> QED BY <1>3, <1>4

\* Once the guest has taken the first event, the next ones find the pointer
\* where they would have found it.
LEMMA PointerAtTail ==
  ASSUME NEW q \in Seq(EventSet), q # <<>>, GuestHandles(Head(q)),
         NEW i \in 1 .. Len(q), NEW p, PointerAt(q, i + 1, p)
  PROVE  PointerAt(Tail(q), i, p)'
<1> DEFINE moves == {j \in 1 .. i : q[j].type = "abs"}
           later == {j \in 1 .. (i - 1) : Tail(q)[j].type = "abs"}
<1>1. /\ Len(q) \in Nat /\ Len(q) > 0 /\ Head(q) = q[1]
      /\ \A j \in 1 .. (i - 1) : Tail(q)[j] = q[j + 1]
  BY HeadTailProperties, LenProperties
<1>2. q[1] \in EventSet
  BY <1>1, ElementOfSeq
<1>3. \A j \in 1 .. (i - 1) : j \in later <=> j + 1 \in moves
  BY <1>1
<1>4. (i + 1) - 1 = i
  OBVIOUS
<1>5. \/ \E j \in moves : (\A k \in moves : k <= j) /\ q[j].value = p
      \/ moves = {} /\ (pointer = p \/ toolMoved)
  BY <1>4 DEF PointerAt
<1>6. ASSUME NEW j \in moves, \A k \in moves : k <= j, q[j].value = p, j # 1
      PROVE  PointerAt(Tail(q), i, p)'
  <2>1. j - 1 \in later /\ Tail(q)[j - 1].value = p
    BY <1>1, <1>3, <1>6
  <2>2. \A k \in later : k <= j - 1
    BY <1>3, <1>6
  <2> QED BY <2>1, <2>2 DEF PointerAt
<1>7. ASSUME 1 \in moves, \A k \in moves : k <= 1, q[1].value = p
      PROVE  PointerAt(Tail(q), i, p)'
  <2>1. later = {}
    BY <1>3, <1>7
  <2>2. pointer' = p
    BY <1>1, <1>7 DEF GuestHandles
  <2> QED BY <2>1, <2>2 DEF PointerAt
<1>8. ASSUME moves = {}, pointer = p \/ toolMoved
      PROVE  PointerAt(Tail(q), i, p)'
  <2>1. later = {}
    BY <1>3, <1>8
  <2>2. q[1].type # "abs"
    BY <1>8
  <2>3. pointer' = pointer /\ toolMoved' = toolMoved
    BY <1>1, <2>2 DEF GuestHandles
  <2> QED BY <1>8, <2>1, <2>3 DEF PointerAt
<1> QED BY <1>5, <1>6, <1>7, <1>8

\* ClickOnTarget in the terms of PointerAt.
LEMMA ClickOnTargetIsPointerAt ==
  ClickOnTarget <=>
    \A i \in DOMAIN queue["mouse"] :
      queue["mouse"][i].type = "key" => PointerAt(queue["mouse"], i, queue["mouse"][i].at)
BY DEF ClickOnTarget, PointerAt

\* A batch of mouseMoved: LAST_MOUSE_ABS is where the pointer will be, whether
\* the move is sent or, being one to the same place, is not.
LEMMA MovePointsAt ==
  ASSUME InputTypes, PointerFollows, ClickOnTarget, NEW p \in Positions
  PROVE  LET q == queue["mouse"] \o MoveBatch(p)
         IN  /\ q \in Seq(MouseEvents)
             /\ PointerAt(q, Len(q) + 1, p)
             /\ \A i \in DOMAIN q : q[i].type = "key" => PointerAt(q, i, q[i].at)
<1> DEFINE old == queue["mouse"]
           q == old \o MoveBatch(p)
<1>1. old \in Seq(MouseEvents) /\ old \in Seq(EventSet)
  BY Batches DEF InputTypes
<1>2. \A i \in DOMAIN old : old[i].type = "key" => PointerAt(old, i, old[i].at)
  BY ClickOnTargetIsPointerAt
<1>3. CASE lastAbs = p
  <2>1. q = old
    BY <1>1, <1>3 DEF MoveBatch
  <2>2. PointerAt(old, Len(old) + 1, p)
    BY <1>3, HostInputAssumption DEF PointerFollows
  <2> HIDE DEF q
  <2> QED BY <1>1, <1>2, <2>1, <2>2 DEF q
<1>4. CASE lastAbs # p
  <2> DEFINE e == Event("abs", 0, p, p)
  <2>1. e \in MouseEvents /\ e.type = "abs" /\ e.value = p
    BY DEF Event, MouseEvents, MoveEvents
  <2>2. MoveBatch(p) = <<e>> /\ e \in EventSet
    BY <1>4, <2>1, Batches DEF MoveBatch
  <2> HIDE DEF e, old
  <2>3. /\ q \in Seq(MouseEvents) /\ q \in Seq(EventSet)
        /\ Len(q) = Len(old) + 1 /\ q[Len(old) + 1] = e
        /\ \A i \in 1 .. Len(old) : q[i] = old[i]
        /\ Len(old) \in Nat /\ DOMAIN q = 1 .. Len(q) /\ DOMAIN old = 1 .. Len(old)
    BY <1>1, <2>1, <2>2, Batches, LenProperties
  <2>4. ASSUME NEW i \in 1 .. Len(old), NEW at
        PROVE  PointerAt(q, i, at) <=> PointerAt(old, i, at)
    <3>1. i \in 1 .. (Len(old) + 1) /\ MoveBatch(p) \in Seq(EventSet)
      BY <2>2, <2>3
    <3> QED BY <1>1, <3>1, PointerAtPrefix
  <2> HIDE DEF q
  <2>5. PointerAt(q, (Len(old) + 1) + 1, p)
    BY <2>1, <2>3, PointerAtNext
  <2>6. ASSUME NEW i \in DOMAIN q, q[i].type = "key" PROVE PointerAt(q, i, q[i].at)
    <3>1. i # Len(old) + 1
      BY <2>1, <2>3, <2>6
    <3>2. i \in DOMAIN old /\ q[i] = old[i]
      BY <2>3, <3>1
    <3> QED BY <1>2, <2>3, <2>4, <2>6, <3>2
  <2> QED BY <2>3, <2>5, <2>6 DEF q, old
<1> QED BY <1>3, <1>4

LEMMA PointerStep ==
  InputTypes /\ NoLostWakeup /\ PointerFollows /\ ClickOnTarget /\ [InputNext]_inputVars
    => PointerFollows' /\ ClickOnTarget'
<1> SUFFICES ASSUME InputTypes, NoLostWakeup, PointerFollows, ClickOnTarget, [InputNext]_inputVars
             PROVE  PointerFollows' /\ ClickOnTarget'
  OBVIOUS
<1>1. ASSUME NEW p \in Positions, MouseMoved(p) PROVE PointerFollows' /\ ClickOnTarget'
  <2> DEFINE q == queue["mouse"] \o MoveBatch(p)
  <2>1. queue'["mouse"] = q /\ lastAbs' = p
    BY <1>1, MoveBatchMoves, MousePushes DEF MouseMoved
  <2>2. /\ PointerAt(q, Len(q) + 1, p)
        /\ \A i \in DOMAIN q : q[i].type = "key" => PointerAt(q, i, q[i].at)
    BY MovePointsAt
  <2>3. UNCHANGED <<pointer, toolMoved>>
    BY <1>1 DEF MouseMoved, guestVars
  <2> HIDE DEF q
  <2> QED BY <2>1, <2>2, <2>3 DEF PointerFollows, ClickOnTarget, PointerAt
<1>2. ASSUME NEW b \in Buttons, NEW pressed \in BOOLEAN, ForwardButton(b, pressed),
             UNCHANGED <<pointer, toolMoved>>
      PROVE  PointerFollows' /\ ClickOnTarget'
  <2> DEFINE moved == queue["mouse"] \o MoveBatch(cursor)
             presses == ButtonBatch(LinuxButton(b), pressed)
             q == moved \o presses
  <2>1. queue'["mouse"] = queue["mouse"] \o (MoveBatch(cursor) \o presses)
    BY <1>2, ForwardButtonPushes, MousePushes DEF ForwardButton
  <2>2. /\ moved \in Seq(MouseEvents)
        /\ PointerAt(moved, Len(moved) + 1, cursor)
        /\ \A i \in DOMAIN moved : moved[i].type = "key" => PointerAt(moved, i, moved[i].at)
    BY MovePointsAt DEF InputTypes
  <2>3. /\ presses \in Seq(MouseEvents) /\ MoveBatch(cursor) \in Seq(MouseEvents)
        /\ queue["mouse"] \in Seq(MouseEvents)
    BY ButtonBatchPresses, LinuxButtonIsButton, MoveBatchMoves DEF InputTypes
  <2>4. queue'["mouse"] = q
    <3>1. \A x, y, z \in Seq(MouseEvents) : x \o (y \o z) = (x \o y) \o z
      BY ConcatAssociative
    <3> QED BY <2>1, <2>3, <3>1
  <2>5. \/ presses = <<>>
        \/ \E e \in MouseEvents : presses = <<e>> /\ e.type = "key" /\ e.at = cursor
    <3>1. Event("key", LinuxButton(b), IF pressed THEN 1 ELSE 0, cursor) \in MouseEvents
      BY LinuxButtonIsButton DEF Event, MouseEvents, ButtonEvents, InputTypes
    <3> QED BY <3>1 DEF ButtonBatch, Event
  <2> HIDE DEF moved, presses
  <2>6. /\ PointerAt(q, Len(q) + 1, cursor)
        /\ \A i \in DOMAIN q : q[i].type = "key" => PointerAt(q, i, q[i].at)
    <3>1. CASE presses = <<>>
      <4>1. q = moved
        BY <2>2, <3>1
      <4> HIDE DEF q
      <4> QED BY <2>2, <4>1
    <3>2. ASSUME NEW e \in MouseEvents, presses = <<e>>, e.type = "key", e.at = cursor
          PROVE  /\ PointerAt(q, Len(q) + 1, cursor)
                 /\ \A i \in DOMAIN q : q[i].type = "key" => PointerAt(q, i, q[i].at)
      <4>1. /\ q \in Seq(EventSet) /\ Len(q) = Len(moved) + 1 /\ q[Len(moved) + 1] = e
            /\ \A i \in 1 .. Len(moved) : q[i] = moved[i]
            /\ Len(moved) \in Nat /\ DOMAIN q = 1 .. Len(q)
            /\ DOMAIN moved = 1 .. Len(moved)
        BY <2>2, <3>2, Batches, LenProperties
      <4>2. \A at : \A i \in 1 .. (Len(moved) + 1) : PointerAt(q, i, at) <=> PointerAt(moved, i, at)
        BY <2>2, <2>3, Batches, PointerAtPrefix
      <4> HIDE DEF q
      <4>3. PointerAt(q, Len(moved) + 1, cursor)
        BY <2>2, <4>1, <4>2
      <4>4. PointerAt(q, (Len(moved) + 1) + 1, cursor)
        BY <3>2, <4>1, <4>3, PointerAtNext
      <4>5. ASSUME NEW i \in DOMAIN q, q[i].type = "key" PROVE PointerAt(q, i, q[i].at)
        <5>1. CASE i = Len(moved) + 1
          BY <3>2, <4>1, <4>3, <5>1
        <5>2. CASE i # Len(moved) + 1
          <6>1. i \in DOMAIN moved /\ q[i] = moved[i]
            BY <4>1, <5>2
          <6> QED BY <2>2, <4>1, <4>2, <4>5, <6>1
        <5> QED BY <5>1, <5>2
      <4> QED BY <4>1, <4>4, <4>5
    <3> QED BY <2>5, <3>1, <3>2
  <2>7. lastAbs' = cursor
    BY <1>2 DEF ForwardButton
  <2> HIDE DEF q
  <2> QED BY <1>2, <2>4, <2>6, <2>7 DEF PointerFollows, ClickOnTarget, PointerAt
<1>3. ASSUME NEW d \in Devices, NextEvent(d) PROVE PointerFollows' /\ ClickOnTarget'
  <2>1. queue["mouse"] \in Seq(EventSet) /\ lastAbs' = lastAbs
    BY <1>3, Batches DEF InputTypes, NextEvent, hostVars
  <2>2. CASE d = "mouse" /\ queue["mouse"] # <<>>
    <3> PICK q \in Seq(EventSet) : q = queue["mouse"]
      BY <2>1
    <3>1. queue'["mouse"] = Tail(q) /\ GuestHandles(Head(q))
      BY <1>3, <2>2, PopIsSound DEF NextEvent
    <3>2. /\ Tail(q) \in Seq(EventSet) /\ Len(Tail(q)) = Len(q) - 1 /\ Len(q) \in Nat /\ Len(q) > 0
          /\ \A i \in 1 .. Len(Tail(q)) : Tail(q)[i] = q[i + 1]
          /\ DOMAIN q = 1 .. Len(q) /\ DOMAIN Tail(q) = 1 .. Len(Tail(q))
      BY <2>2, HeadTailProperties, LenProperties
    <3>3. ASSUME NEW i \in 1 .. Len(q), NEW p, PointerAt(q, i + 1, p)
          PROVE  PointerAt(Tail(q), i, p)'
      BY <2>2, <3>1, <3>3, PointerAtTail
    <3>4. PointerFollows'
      <4> PICK last : last = lastAbs
        OBVIOUS
      <4>1. CASE last = -1
        BY <2>1, <4>1 DEF PointerFollows
      <4>2. CASE last # -1
        <5>1. PointerAt(q, Len(q) + 1, last)
          BY <4>2 DEF PointerFollows
        <5> PICK n : n = Len(q)
          OBVIOUS
        <5>2. PointerAt(Tail(q), n, last)'
          <6>1. n \in 1 .. Len(q)
            BY <3>2
          <6>2. PointerAt(q, n + 1, last)
            BY <5>1
          <6> QED BY <3>3, <6>1, <6>2
        <5>3. n = Len(Tail(q)) + 1
          BY <3>2
        <5> QED BY <2>1, <3>1, <5>2, <5>3 DEF PointerFollows, PointerAt
      <4> QED BY <4>1, <4>2
    <3>5. ASSUME NEW i \in DOMAIN Tail(q), Tail(q)[i].type = "key"
          PROVE  PointerAt(Tail(q), i, Tail(q)[i].at)'
      <4>1. PointerAt(q, i + 1, q[i + 1].at)
        BY <3>2, <3>5, ClickOnTargetIsPointerAt
      <4> PICK at : at = q[i + 1].at
        OBVIOUS
      <4>2. PointerAt(Tail(q), i, at)'
        BY <3>2, <3>3, <4>1
      <4>3. Tail(q)[i].at = at
        BY <3>2
      <4> QED BY <4>2, <4>3 DEF PointerAt
    <3>6. ClickOnTarget'
      BY <3>1, <3>5 DEF ClickOnTarget, PointerAt
    <3> QED BY <3>4, <3>6
  <2>3. CASE d = "mouse" /\ queue["mouse"] = <<>>
    BY <1>3, <2>1, <2>3, PopIsSound DEF NextEvent, guestVars, PointerFollows, ClickOnTarget, PointerAt
  <2>4. CASE d = "keyboard"
    <3>1. queue'["mouse"] = queue["mouse"]
      BY <1>3, <2>4, PopIsSound, MouseOrKeyboard DEF NextEvent
    <3>2. UNCHANGED <<pointer, toolMoved>>
      <4>1. CASE queue["keyboard"] = <<>>
        BY <1>3, <2>4, <4>1 DEF NextEvent, guestVars
      <4>2. CASE queue["keyboard"] # <<>>
        <5>1. Head(queue["keyboard"]) \in KeyEvents
          BY <4>2, HeadTailProperties DEF InputTypes
        <5>2. Head(queue["keyboard"]).type # "abs"
          BY <5>1 DEF KeyEvents
        <5>3. GuestHandles(Head(queue["keyboard"]))
          BY <1>3, <2>4, <4>2 DEF NextEvent
        <5> QED BY <5>2, <5>3 DEF GuestHandles
      <4> QED BY <4>1, <4>2
    <3> QED BY <2>1, <3>1, <3>2 DEF PointerFollows, ClickOnTarget, PointerAt
  <2> QED BY <2>2, <2>3, <2>4, MouseOrKeyboard
<1>4. ASSUME NEW p \in Positions, ToolMoves(p) PROVE PointerFollows' /\ ClickOnTarget'
  BY <1>4 DEF ToolMoves, PointerFollows, ClickOnTarget, PointerAt, hostVars, queueVars
<1>5. CASE queue'["mouse"] = queue["mouse"] /\ UNCHANGED <<lastAbs, pointer, toolMoved>>
  BY <1>5 DEF PointerFollows, ClickOnTarget, PointerAt
<1>6. ASSUME NEW k \in Keys, KeyDown(k) \/ KeyUp(k)
      PROVE  queue'["mouse"] = queue["mouse"]
  BY <1>6, MouseOrKeyboard DEF KeyDown, KeyUp, Push, InputTypes
<1>7. ASSUME NEW flags \in SUBSET Flags, FlagsChanged(flags) \/ ResignFirstResponder
      PROVE  queue'["mouse"] = queue["mouse"]
  BY <1>7, MouseOrKeyboard DEF FlagsChanged, ResignFirstResponder, Push, InputTypes
<1>8. ASSUME NEW b \in Buttons, MouseDown(b) \/ MouseUp(b)
      PROVE  PointerFollows' /\ ClickOnTarget'
  BY <1>2, <1>8 DEF MouseDown, MouseUp, guestVars
<1> QED
  BY <1>1, <1>3, <1>4, <1>5, <1>6, <1>7, <1>8
  DEF InputNext, KeyDown, KeyUp, FlagsChanged, ChangeUnseen, Deactivate,
      ResignFirstResponder, FocusViewer, inputVars, userVars, hostVars, queueVars, guestVars

LEMMA InputNextIInv == InputIInv /\ [InputNext]_inputVars => InputIInv'
BY TypesStep, ButtonsStep, KeysStep, PointerStep DEF InputIInv

\* With nothing queued, where the queues lead to is what the guest holds.
LEMMA SettledIsNotStuck == InputIInv => NothingStuck
<1> SUFFICES ASSUME InputIInv, \A d \in Devices : queue[d] = <<>>
             PROVE  /\ ~ mixed => down \cap ButtonCodes = {buttons[b] : b \in Buttons} \ {0}
                    /\ ~ missed => /\ down \cap Keys = keys
                                   /\ down \ (ButtonCodes \union Keys) = CodesOf(mods)
  BY DEF NothingStuck
<1>1. queue["mouse"] = <<>> /\ queue["keyboard"] = <<>>
  BY DEF Devices
<1>2. down \subseteq Codes /\ keys \subseteq Keys
  BY DEF InputIInv, InputTypes
<1>3. ASSUME ~ mixed PROVE down \cap ButtonCodes = {buttons[b] : b \in Buttons} \ {0}
  BY <1>1, <1>2, <1>3, HeldAfterNothing DEF InputIInv, ButtonsSettle
<1>4. ASSUME ~ missed PROVE down \ ButtonCodes = keys \union CodesOf(mods)
  BY <1>1, <1>2, <1>4, HeldAfterNothing DEF InputIInv, KeysSettle
<1>5. CodesOf(mods) \subseteq ModifierCodes
  BY CodesOfFlags
<1>6. ASSUME ~ missed
      PROVE  down \cap Keys = keys /\ down \ (ButtonCodes \union Keys) = CodesOf(mods)
  BY <1>2, <1>4, <1>5, <1>6, CodesAreDisjoint
<1> QED BY <1>3, <1>6

-----------------------------------------------------------------------------
(* The theorems *)

\* In every run, each queue leads to what the user holds and to where the user
\* points, whatever the handlers, the pump of libkrun and the tools do between.
THEOREM InputInvariance == InputSpec => []InputIInv
BY InputInitIInv, InputNextIInv, PTL DEF InputSpec

\* libkrun polls the pipe and not the queue: an event is never in a queue whose
\* pipe has no byte, or it would wait for the next input of the user.
THEOREM NoWakeupLost == InputSpec => []NoLostWakeup
<1>1. InputIInv => NoLostWakeup
  BY DEF InputIInv
<1> QED BY <1>1, InputInvariance, PTL

\* Once the guest has taken all that is queued, no button, key or modifier
\* stays pressed that the user let go, and none is missing that is held.
THEOREM NothingStaysPressed == InputSpec => []NothingStuck
BY SettledIsNotStuck, InputInvariance, PTL

\* Skipping unchanged positions never sends a click to another place.
THEOREM ClicksLand == InputSpec => []ClickOnTarget
<1>1. InputIInv => ClickOnTarget
  BY DEF InputIInv
<1> QED BY <1>1, InputInvariance, PTL
=============================================================================
