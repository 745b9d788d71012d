----------------------- MODULE HeadlessDisplayProofs -----------------------
(***************************************************************************)
(* Proofs about the headless framebuffer, for any number of buffers (three *)
(* or more), callers, sizes, frames and configurations.                    *)
(***************************************************************************)
EXTENDS HeadlessDisplay, TLAPS

\* The buffer the guest may be filling is none of those a capture may clone.
WriteBufferPrivate == write_idx # ready_idx /\ write_idx # read_idx

\* Only the write buffer is ever half-written, and only between the
\* allocation of a frame and its end; a frame in flight has the next number.
OnlyWriteBufferTorn ==
    /\ \A b \in Buffers : ~buffers[b].whole => b = write_idx /\ gpu = "filling"
    /\ gpu \in {"filling", "filled"} => buffers[write_idx].frame = frame_seq + 1

\* The buffer a capture would clone holds the newest presented frame.
LatestHoldsNewest ==
    Latest # None => buffers[Latest].frame = frame_seq

\* The atomics and the pool agree unless a configure call is between them.
PoolHasDimensions ==
    /\ gpu = "set_height" => target[1] = width
    /\ gpu = "swap_pool" => target = <<width, height>>
    /\ gpu \notin {"set_height", "swap_pool"} =>
          \A b \in Buffers : buffers[b].w = width /\ buffers[b].h = height

\* The inductive invariant: TypeOK and NoTornCapture are not inductive alone.
IInv ==
    /\ TypeOK
    /\ WriteBufferPrivate
    /\ OnlyWriteBufferTorn
    /\ LatestHoldsNewest
    /\ PoolHasDimensions
    /\ NoTornCapture

-----------------------------------------------------------------------------
\* present_frame's search for a write buffer always succeeds: with three or
\* more buffers one is neither the finished one nor the one being read.
LEMMA PickWriteIsFree ==
    ASSUME NEW finished \in Buffers, NEW read \in Index
    PROVE  /\ PickWrite(finished, read) \in Buffers
           /\ PickWrite(finished, read) # finished
           /\ PickWrite(finished, read) # read
<1> DEFINE free == {b \in Buffers : b # finished /\ b # read}
<1>1. \E b \in free : \A c \in free : b <= c
  <2>1. 0 \in Buffers /\ 1 \in Buffers /\ 2 \in Buffers
    BY BuffersAssumption DEF Buffers
  <2>2. CASE 0 \in free
    BY <2>2 DEF Buffers
  <2>3. CASE 0 \notin free /\ 1 \in free
    BY <2>3 DEF Buffers
  <2>4. CASE 0 \notin free /\ 1 \notin free
    <3>1. 2 \in free
      BY <2>1, <2>4
    <3>2. \A c \in free : 2 <= c
      BY <2>4 DEF Buffers
    <3> QED BY <3>1, <3>2
  <2> QED BY <2>2, <2>3, <2>4
<1>2. PickWrite(finished, read) = CHOOSE b \in free : \A c \in free : b <= c
  BY DEF PickWrite
<1>3. PickWrite(finished, read) \in free
  BY <1>1, <1>2
<1> QED BY <1>3

LEMMA NoneIsNoBuffer == None \notin Buffers
BY BuffersAssumption DEF None, Buffers

\* Filling a buffer changes its frame and its wholeness, not its type.
LEMMA PixelsUpdate ==
    ASSUME NEW p \in Pixels, NEW f \in Frames, NEW whole \in BOOLEAN
    PROVE  /\ [p EXCEPT !.frame = f, !.whole = whole] \in Pixels
           /\ [p EXCEPT !.whole = whole] \in Pixels
BY DEF Pixels

\* The records a caller goes through have their type.
LEMMA CallTypes ==
    /\ Idle \in Calls
    /\ NoCapture \in Captures
    /\ Start("width", 0) \in Calls
    /\ \A s \in Frames : Start("compare", s) \in Calls /\ Start("store", s) \in Calls
    /\ \A a \in Calls, e \in Extent :
         /\ [a EXCEPT !.pc = "height", !.w = e] \in Calls
         /\ [a EXCEPT !.pc = "lock", !.h = e] \in Calls
<1> USE BoundsAssumption DEF Calls
<1>1. Idle \in Calls /\ Start("width", 0) \in Calls
  BY DEF Idle, Start, Extent, Frames
<1>2. NoCapture \in Captures
  BY DEF NoCapture, Captures, Blank, Pixels, Extent, Frames
<1>3. ASSUME NEW s \in Frames
      PROVE  Start("compare", s) \in Calls /\ Start("store", s) \in Calls
  BY DEF Start, Extent, Frames
<1>4. ASSUME NEW a \in Calls, NEW e \in Extent
      PROVE  /\ [a EXCEPT !.pc = "height", !.w = e] \in Calls
             /\ [a EXCEPT !.pc = "lock", !.h = e] \in Calls
  OBVIOUS
<1> QED BY <1>1, <1>2, <1>3, <1>4

LEMMA InitIInv == Init => IInv
<1> SUFFICES ASSUME Init PROVE IInv
  OBVIOUS
<1> USE BuffersAssumption, SizesAssumption, BoundsAssumption
<1>1. Blank(0, 0) \in Pixels
  BY DEF Blank, Pixels, Extent, Frames
<1>2. TypeOK
  <2>1. call \in [Callers -> Calls] /\ got \in [Callers -> Captures]
    BY CallTypes DEF Init
  <2>2. buffers \in [Buffers -> Pixels] /\ polled \in Frames
    BY <1>1 DEF Init, Frames
  <2> QED BY <2>1, <2>2 DEF Init, TypeOK, Buffers, Index, None, Extent, Frames
<1>3. WriteBufferPrivate
  BY NoneIsNoBuffer DEF Init, WriteBufferPrivate, Buffers
<1>4. OnlyWriteBufferTorn
  BY DEF Init, OnlyWriteBufferTorn, Blank
<1>5. LatestHoldsNewest
  BY DEF Init, LatestHoldsNewest, Latest
<1>6. PoolHasDimensions
  BY DEF Init, PoolHasDimensions, Blank
<1>7. NoTornCapture
  BY DEF Init, NoTornCapture, NoCapture
<1> QED BY <1>2, <1>3, <1>4, <1>5, <1>6, <1>7 DEF IInv

\* The steps of the virtio-gpu thread preserve the invariant.
LEMMA GpuStepIInv == IInv /\ GpuStep => IInv'
<1> SUFFICES ASSUME IInv, GpuStep PROVE IInv'
  OBVIOUS
<1> USE BuffersAssumption, SizesAssumption, BoundsAssumption, NoneIsNoBuffer
<1> USE DEF IInv
<1>1. ASSUME NEW w \in Sizes, NEW h \in Sizes, ConfigureWidth(w, h)
      PROVE IInv'
  <2> USE <1>1 DEF ConfigureWidth, pool, callers
  <2>1. TypeOK'
    BY DEF TypeOK, Extent
  <2>2. (WriteBufferPrivate /\ LatestHoldsNewest /\ NoTornCapture)'
    BY DEF WriteBufferPrivate, LatestHoldsNewest, Latest, NoTornCapture
  <2>3. OnlyWriteBufferTorn'
    BY DEF OnlyWriteBufferTorn
  <2>4. PoolHasDimensions'
    BY DEF PoolHasDimensions
  <2> QED BY <2>1, <2>2, <2>3, <2>4
<1>2. ASSUME ConfigureHeight PROVE IInv'
  <2> USE <1>2 DEF ConfigureHeight, pool, callers
  <2>1. TypeOK'
    BY DEF TypeOK
  <2>2. (WriteBufferPrivate /\ LatestHoldsNewest /\ NoTornCapture)'
    BY DEF WriteBufferPrivate, LatestHoldsNewest, Latest, NoTornCapture
  <2>3. OnlyWriteBufferTorn'
    BY DEF OnlyWriteBufferTorn
  <2>4. PoolHasDimensions'
    BY DEF PoolHasDimensions, TypeOK
  <2> QED BY <2>1, <2>2, <2>3, <2>4
<1>3. ASSUME ConfigurePool PROVE IInv'
  <2> USE <1>3 DEF ConfigurePool, dims, callers
  <2>1. Blank(target[1], target[2]) \in Pixels
    BY DEF TypeOK, Blank, Pixels, Frames
  <2>2. TypeOK'
    BY <2>1 DEF TypeOK, Buffers, Index
  <2>3. (WriteBufferPrivate /\ LatestHoldsNewest /\ NoTornCapture)'
    BY DEF WriteBufferPrivate, LatestHoldsNewest, Latest, NoTornCapture, Buffers
  <2>4. OnlyWriteBufferTorn'
    BY DEF OnlyWriteBufferTorn, Blank
  <2>5. PoolHasDimensions'
    BY DEF PoolHasDimensions, Blank
  <2> QED BY <2>2, <2>3, <2>4, <2>5
<1>4. ASSUME AllocFrame PROVE IInv'
  <2> USE <1>4 DEF AllocFrame, dims, callers
  <2>1. TypeOK'
    <3> DEFINE filling == [buffers[write_idx] EXCEPT !.frame = frame_seq + 1,
                                                     !.whole = FALSE]
    <3>1. filling \in Pixels
      <4>1. buffers[write_idx] \in Pixels /\ frame_seq + 1 \in Frames
        BY DEF TypeOK, Frames
      <4> QED BY <4>1, PixelsUpdate
    <3>2. buffers' = [buffers EXCEPT ![write_idx] = filling]
      BY DEF TypeOK, Pixels
    <3>3. buffers' \in [Buffers -> Pixels]
      BY <3>1, <3>2 DEF TypeOK
    <3> QED BY <3>3 DEF TypeOK
  <2>2. (WriteBufferPrivate /\ NoTornCapture)'
    BY DEF WriteBufferPrivate, NoTornCapture
  <2>3. OnlyWriteBufferTorn'
    BY DEF OnlyWriteBufferTorn, TypeOK, Pixels
  <2>4. LatestHoldsNewest'
    BY DEF LatestHoldsNewest, Latest, WriteBufferPrivate, TypeOK, Index
  <2>5. PoolHasDimensions'
    BY DEF PoolHasDimensions, TypeOK, Pixels
  <2> QED BY <2>1, <2>2, <2>3, <2>4, <2>5
<1>5. ASSUME FillFrame PROVE IInv'
  <2> USE <1>5 DEF FillFrame, dims, callers
  <2>1. TypeOK'
    <3>1. [buffers[write_idx] EXCEPT !.whole = TRUE] \in Pixels
      <4>1. buffers[write_idx] \in Pixels /\ frame_seq \in Frames
        BY DEF TypeOK
      <4> QED BY <4>1, PixelsUpdate
    <3>2. buffers' \in [Buffers -> Pixels]
      BY <3>1 DEF TypeOK
    <3> QED BY <3>2 DEF TypeOK
  <2>2. (WriteBufferPrivate /\ NoTornCapture)'
    BY DEF WriteBufferPrivate, NoTornCapture
  <2>3. OnlyWriteBufferTorn'
    BY DEF OnlyWriteBufferTorn, TypeOK, Pixels
  <2>4. LatestHoldsNewest'
    BY DEF LatestHoldsNewest, Latest, WriteBufferPrivate, TypeOK, Index
  <2>5. PoolHasDimensions'
    BY DEF PoolHasDimensions, TypeOK, Pixels
  <2> QED BY <2>1, <2>2, <2>3, <2>4, <2>5
<1>6. ASSUME PresentFrame PROVE IInv'
  <2> USE <1>6 DEF PresentFrame, dims, callers
  <2>1. /\ write_idx' \in Buffers
        /\ write_idx' # write_idx
        /\ write_idx' # read_idx
    BY PickWriteIsFree DEF TypeOK
  <2>2. frame_seq + 1 \in Frames
    BY DEF OnlyWriteBufferTorn, TypeOK, Pixels
  <2>3. TypeOK'
    BY <2>1, <2>2 DEF TypeOK, Index
  <2>4. (WriteBufferPrivate /\ NoTornCapture)'
    BY <2>1 DEF WriteBufferPrivate, NoTornCapture
  <2>5. OnlyWriteBufferTorn'
    BY DEF OnlyWriteBufferTorn
  <2>6. LatestHoldsNewest'
    BY DEF LatestHoldsNewest, Latest, OnlyWriteBufferTorn, TypeOK
  <2>7. PoolHasDimensions'
    BY DEF PoolHasDimensions
  <2> QED BY <2>3, <2>4, <2>5, <2>6, <2>7
<1> QED BY <1>1, <1>2, <1>3, <1>4, <1>5, <1>6 DEF GpuStep

\* A return from a call keeps the callers' types and, when the buffer it
\* clones is not the write buffer, hands out a whole frame.
LEMMA ReturnKeepsCallers ==
    ASSUME IInv, NEW c \in Callers, NEW b \in Index, b # write_idx, Return(c, b)
    PROVE  /\ call' \in [Callers -> Calls]
           /\ got' \in [Callers -> Captures]
           /\ NoTornCapture'
<1>1. b # None => buffers[b] \in Pixels /\ buffers[b].whole
  BY DEF IInv, TypeOK, Index, OnlyWriteBufferTorn, Pixels
<1>2. call' \in [Callers -> Calls]
  BY CallTypes DEF Return, IInv, TypeOK
<1>3. got' \in [Callers -> Captures]
  BY CallTypes, <1>1 DEF Return, IInv, TypeOK, Calls, Captures
<1>4. NoTornCapture'
  BY <1>1 DEF Return, IInv, TypeOK, NoTornCapture, NoCapture
<1> QED BY <1>2, <1>3, <1>4

\* The steps of the capturing threads preserve the invariant.
LEMMA CallerStepIInv ==
    ASSUME IInv, NEW c \in Callers, ReaderStep(c) \/ PollerStep(c)
    PROVE  IInv'
<1> USE BuffersAssumption, SizesAssumption, BoundsAssumption, NoneIsNoBuffer
<1> USE DEF IInv
<1>1. CASE PollLoad(c) \/ CaptureStart(c)
  <2> USE <1>1 DEF PollLoad, CaptureStart, pool, dims
  <2>1. TypeOK'
    <3>1. /\ Start("compare", frame_seq) \in Calls
          /\ Start("width", 0) \in Calls
          /\ NoCapture \in Captures
      BY CallTypes DEF TypeOK
    <3>2. call' \in [Callers -> Calls] /\ got' \in [Callers -> Captures]
      BY <3>1 DEF TypeOK
    <3> QED BY <3>2 DEF TypeOK
  <2>2. NoTornCapture'
    BY DEF NoTornCapture, NoCapture, TypeOK
  <2>3. (WriteBufferPrivate /\ OnlyWriteBufferTorn /\ LatestHoldsNewest)'
    BY DEF WriteBufferPrivate, OnlyWriteBufferTorn, LatestHoldsNewest, Latest
  <2>4. PoolHasDimensions'
    BY DEF PoolHasDimensions
  <2> QED BY <2>1, <2>2, <2>3, <2>4
<1>2. CASE PollCompare(c) \/ PollStore(c) \/ LoadWidth(c) \/ LoadHeight(c)
  <2> USE <1>2 DEF PollCompare, PollStore, LoadWidth, LoadHeight, pool, dims
  <2>1. TypeOK'
    <3>1. call[c] \in Calls /\ width \in Extent /\ height \in Extent
      BY DEF TypeOK
    <3>2. /\ Idle \in Calls
          /\ Start("width", 0) \in Calls
          /\ Start("store", call[c].seq) \in Calls
          /\ [call[c] EXCEPT !.pc = "height", !.w = width] \in Calls
          /\ [call[c] EXCEPT !.pc = "lock", !.h = height] \in Calls
      BY <3>1, CallTypes DEF Calls
    <3>3. call' \in [Callers -> Calls]
      BY <3>2 DEF TypeOK
    <3>4. last_seen' \in Frames
      BY <3>1 DEF TypeOK, Calls
    <3> QED BY <3>3, <3>4 DEF TypeOK
  <2>2. (NoTornCapture /\ WriteBufferPrivate)'
    BY DEF NoTornCapture, WriteBufferPrivate
  <2>3. (OnlyWriteBufferTorn /\ LatestHoldsNewest)'
    BY DEF OnlyWriteBufferTorn, LatestHoldsNewest, Latest
  <2>4. PoolHasDimensions'
    BY DEF PoolHasDimensions
  <2> QED BY <2>1, <2>2, <2>3, <2>4
<1>3. CASE CaptureLatest(c)
  <2> USE <1>3 DEF CaptureLatest, pool, dims
  <2>1. Latest \in Index /\ Latest # write_idx
    BY DEF TypeOK, WriteBufferPrivate, Latest
  <2>2. (TypeOK /\ NoTornCapture)'
    BY <2>1, ReturnKeepsCallers DEF TypeOK
  <2>3. (WriteBufferPrivate /\ OnlyWriteBufferTorn /\ LatestHoldsNewest)'
    BY DEF WriteBufferPrivate, OnlyWriteBufferTorn, LatestHoldsNewest, Latest
  <2>4. PoolHasDimensions'
    BY DEF PoolHasDimensions
  <2> QED BY <2>2, <2>3, <2>4
<1>4. CASE TakeReady(c)
  <2> USE <1>4 DEF TakeReady, pool, dims
  <2>1. ready_idx \in Index /\ ready_idx # write_idx
    BY DEF TypeOK, WriteBufferPrivate
  <2>2. (TypeOK /\ NoTornCapture)'
    <3>1. polled' \in Frames
      BY DEF TypeOK, Index, Pixels
    <3> QED  BY <2>1, <3>1, ReturnKeepsCallers DEF TypeOK, Index
  <2>3. (WriteBufferPrivate /\ OnlyWriteBufferTorn /\ LatestHoldsNewest)'
    BY DEF WriteBufferPrivate, OnlyWriteBufferTorn, LatestHoldsNewest, Latest,
           TypeOK
  <2>4. PoolHasDimensions'
    BY DEF PoolHasDimensions
  <2> QED BY <2>2, <2>3, <2>4
<1> QED BY <1>1, <1>2, <1>3, <1>4 DEF ReaderStep, PollerStep

\* Every step of the system preserves the invariant.
LEMMA NextIInv == IInv /\ [Next]_vars => IInv'
<1> SUFFICES ASSUME IInv, [Next]_vars PROVE IInv'
  OBVIOUS
<1>1. CASE Next
  BY <1>1, GpuStepIInv, CallerStepIInv DEF Next, Callers
<1>2. CASE UNCHANGED vars
  <2> USE <1>2 DEF vars, pool, dims, callers
  <2>1. TypeOK'
    BY DEF IInv, TypeOK
  <2>2. (WriteBufferPrivate /\ OnlyWriteBufferTorn /\ LatestHoldsNewest)'
    BY DEF IInv, WriteBufferPrivate, OnlyWriteBufferTorn, LatestHoldsNewest, Latest
  <2>3. (PoolHasDimensions /\ NoTornCapture)'
    BY DEF IInv, PoolHasDimensions, NoTornCapture
  <2> QED BY <2>1, <2>2, <2>3 DEF IInv
<1> QED BY <1>1, <1>2

\* The inductive invariant holds in every reachable state.
THEOREM Invariance == Spec => []IInv
BY InitIInv, NextIInv, PTL DEF Spec

\* Every variable of the framebuffer keeps its type; no index of the pool is
\* ever out of range.
THEOREM TypeCorrect == Spec => []TypeOK
BY Invariance, PTL DEF IInv

\* capture_framebuffer and capture_latest_framebuffer never return a frame the
\* guest is still writing, although it writes with the mutex released.
THEOREM CapturesAreWhole == Spec => []NoTornCapture
BY Invariance, PTL DEF IInv

\* A capture returns the newest frame presented when it holds the mutex.
THEOREM CapturesAreLatest == Spec => CaptureIsLatest
<1>1. ASSUME IInv, Next, NEW c \in Callers, Returns(c)
      PROVE  got'[c].pixels.frame = frame_seq
  <2> USE NoneIsNoBuffer DEF NoCapture
  <2>1. CASE GpuStep
    BY <1>1, <2>1 DEF GpuStep, ConfigureWidth, ConfigureHeight, ConfigurePool,
       AllocFrame, FillFrame, PresentFrame, callers, Returns
  <2>2. ASSUME NEW d \in Callers, ReaderStep(d) \/ PollerStep(d)
        PROVE  got'[c].pixels.frame = frame_seq
    <3>1. CASE CaptureLatest(d)
      BY <1>1, <3>1 DEF CaptureLatest, Return, Returns, IInv, TypeOK,
         LatestHoldsNewest
    <3>2. CASE TakeReady(d)
      BY <1>1, <3>2 DEF TakeReady, Return, Returns, IInv, TypeOK,
         LatestHoldsNewest, Latest
    <3>3. CASE ~CaptureLatest(d) /\ ~TakeReady(d)
      BY <1>1, <2>2, <3>3 DEF ReaderStep, PollerStep, PollLoad, PollCompare, PollStore,
         CaptureStart, LoadWidth, LoadHeight, Returns, IInv, TypeOK
    <3> QED BY <3>1, <3>2, <3>3
  <2> QED BY <1>1, <2>1, <2>2 DEF Next, Callers
<1>2. IInv /\ [Next]_vars =>
        [\A c \in Callers : Returns(c) => got'[c].pixels.frame = frame_seq]_vars
  BY <1>1
<1> QED BY <1>2, Invariance, PTL DEF Spec, CaptureIsLatest

\* A capture that starts and ends between two configure calls reports the
\* dimensions of the pixels it returns.
THEOREM SkewOnlyAcrossReconfiguration == Spec => SkewNeedsReconfiguration
<1>1. ASSUME IInv, Next, NEW c \in Callers, Returns(c),
             gpu \notin {"set_height", "swap_pool"},
             <<call[c].w, call[c].h>> = <<width, height>>
      PROVE  ~Skewed(got'[c])
  <2> USE NoneIsNoBuffer DEF NoCapture
  <2>1. CASE GpuStep
    BY <1>1, <2>1 DEF GpuStep, ConfigureWidth, ConfigureHeight, ConfigurePool,
       AllocFrame, FillFrame, PresentFrame, callers, Returns
  <2>2. ASSUME NEW d \in Callers, ReaderStep(d) \/ PollerStep(d)
        PROVE  ~Skewed(got'[c])
    <3>1. CASE CaptureLatest(d)
      <4>1. Latest \in Index
        BY <1>1 DEF Latest, IInv, TypeOK
      <4> QED
        BY <1>1, <3>1, <4>1 DEF CaptureLatest, Return, Returns, Skewed, IInv,
           TypeOK, PoolHasDimensions, Index
    <3>2. CASE TakeReady(d)
      BY <1>1, <3>2 DEF TakeReady, Return, Returns, Skewed, IInv, TypeOK,
         PoolHasDimensions, Index
    <3>3. CASE ~CaptureLatest(d) /\ ~TakeReady(d)
      BY <1>1, <2>2, <3>3 DEF ReaderStep, PollerStep, PollLoad, PollCompare, PollStore,
         CaptureStart, LoadWidth, LoadHeight, Returns, IInv, TypeOK
    <3> QED BY <3>1, <3>2, <3>3
  <2> QED BY <1>1, <2>1, <2>2 DEF Next, Callers
<1>2. IInv /\ [Next]_vars =>
        [\A c \in Callers :
           (Returns(c) /\ gpu \notin {"set_height", "swap_pool"}
                       /\ <<call[c].w, call[c].h>> = <<width, height>>)
              => ~Skewed(got'[c])]_vars
  BY <1>1
<1> QED BY <1>2, Invariance, PTL DEF Spec, SkewNeedsReconfiguration

-----------------------------------------------------------------------------
(* Polling *)

\* No frame was polled that is not presented yet, nor one that is ready.
PolledBefore == polled <= frame_seq /\ (ready_idx # None => polled < frame_seq)

\* The ready frame, once polled, is ready no longer.
LEMMA NextPolledBefore == IInv /\ PolledBefore /\ [Next]_vars => PolledBefore'
<1> SUFFICES ASSUME IInv, PolledBefore, [Next]_vars PROVE PolledBefore'
  OBVIOUS
<1> USE NoneIsNoBuffer, BoundsAssumption DEF Callers
<1>1. /\ frame_seq \in Nat /\ polled \in Nat
      /\ write_idx # None
  BY DEF IInv, TypeOK, Frames
<1>2. CASE ConfigurePool \/ PresentFrame
  BY <1>1, <1>2 DEF ConfigurePool, PresentFrame, PolledBefore, callers
<1>3. CASE ConfigureHeight \/ AllocFrame \/ FillFrame \/ \E w, h \in Sizes : ConfigureWidth(w, h)
  BY <1>3 DEF ConfigureHeight, AllocFrame, FillFrame, ConfigureWidth, PolledBefore, pool, callers
<1>4. ASSUME NEW p \in Pollers, TakeReady(p) PROVE PolledBefore'
  <2>1. CASE ready_idx = None
    BY <1>1, <1>4, <2>1 DEF TakeReady, Return, PolledBefore, IInv, TypeOK
  <2>2. CASE ready_idx # None
    <3>1. buffers[ready_idx].frame = frame_seq
      BY <2>2 DEF IInv, LatestHoldsNewest, Latest
    <3>2. polled' = frame_seq /\ ready_idx' = None /\ UNCHANGED frame_seq
      BY <1>4, <2>2, <3>1 DEF TakeReady, Return
    <3> QED  BY <1>1, <3>2 DEF PolledBefore, IInv, TypeOK
  <2> QED  BY <2>1, <2>2
<1>5. ASSUME NEW r \in Readers, CaptureLatest(r) PROVE PolledBefore'
  BY <1>5 DEF CaptureLatest, PolledBefore, pool
<1>6. ASSUME NEW c \in Callers,
             PollLoad(c) \/ PollCompare(c) \/ PollStore(c) \/ CaptureStart(c) \/ LoadWidth(c) \/ LoadHeight(c)
      PROVE  PolledBefore'
  BY <1>6 DEF PollLoad, PollCompare, PollStore, CaptureStart, LoadWidth, LoadHeight, PolledBefore, pool
<1>7. CASE UNCHANGED vars
  BY <1>7 DEF vars, pool, callers, PolledBefore
<1> QED  BY <1>2, <1>3, <1>4, <1>5, <1>6, <1>7 DEF Next, GpuStep, ReaderStep, PollerStep

\* Polling hands out no frame twice, to whichever thread, though threads race
\* for the sequence numbers and one may put last_seen back.
THEOREM PollsAreNew == Spec => PollReturnsNewFrame
<1>1. ASSUME IInv, PolledBefore, Next, NEW p \in Pollers, Returns(p)
      PROVE  got'[p].pixels.frame > polled
  <2> USE NoneIsNoBuffer DEF NoCapture
  <2>1. CASE GpuStep
    BY <1>1, <2>1 DEF GpuStep, ConfigureWidth, ConfigureHeight, ConfigurePool,
       AllocFrame, FillFrame, PresentFrame, callers, Returns
  <2>2. ASSUME NEW r \in Readers, ReaderStep(r)
        PROVE  FALSE
    <3>1. p # r /\ p \in Callers /\ got \in [Callers -> Captures]
      BY <1>1, CallersAssumption DEF Callers, IInv, TypeOK
    <3>2. got'[p] = got[p]
      BY <2>2, <3>1
         DEF ReaderStep, CaptureStart, LoadWidth, LoadHeight, CaptureLatest, Return
    <3> QED  BY <1>1, <3>2 DEF Returns
  <2>3. ASSUME NEW d \in Pollers, TakeReady(d)
        PROVE  got'[p].pixels.frame > polled
    <3>1. d = p /\ ready_idx # None /\ got'[p].pixels = buffers[ready_idx]
      BY <1>1, <2>3 DEF TakeReady, Return, Returns, IInv, TypeOK, Callers
    <3>2. buffers[ready_idx].frame = frame_seq
      BY <1>1, <3>1 DEF IInv, LatestHoldsNewest, Latest
    <3>3. polled < frame_seq /\ frame_seq \in Nat /\ polled \in Nat
      BY <1>1, <3>1, BoundsAssumption DEF PolledBefore, IInv, TypeOK, Frames, Callers
    <3> QED  BY <3>1, <3>2, <3>3
  <2>4. ASSUME NEW d \in Pollers,
               PollLoad(d) \/ PollCompare(d) \/ PollStore(d) \/ LoadWidth(d) \/ LoadHeight(d)
        PROVE  FALSE
    <3>1. p \in Callers /\ got \in [Callers -> Captures]
      BY <1>1 DEF Callers, IInv, TypeOK
    <3>2. got'[p] = got[p] \/ got'[p] = NoCapture
      BY <2>4, <3>1 DEF PollLoad, PollCompare, PollStore, LoadWidth, LoadHeight
    <3> QED  BY <1>1, <3>2 DEF Returns
  <2> QED  BY <1>1, <2>1, <2>2, <2>3, <2>4 DEF Next, PollerStep
<1>2. IInv /\ PolledBefore /\ [Next]_vars =>
        [\A p \in Pollers : Returns(p) => got'[p].pixels.frame > polled]_vars
  BY <1>1
<1>3. Init => PolledBefore
  BY BoundsAssumption DEF Init, PolledBefore, Callers
<1> QED  BY <1>2, <1>3, NextPolledBefore, Invariance, PTL DEF Spec, PollReturnsNewFrame
=============================================================================
