# A TLA+ model of agent-computer

agent-computer runs a small Linux desktop in a libkrun microVM and lets an agent
drive it over MCP. This directory holds TLA+ modules of its parts, the TLC
configurations that check them on small instances, and TLAPS proofs about them.
Every definition is translated from the Rust sources under `apc-host`,
`apc-compositor`, `apc-fuse` and `apc-protocol`; `PROJECT.json` maps each one to
its lines. Line numbers below are those of that code.

    tlc -config Headless.cfg MCHeadlessDisplay.tla    # one run
    tlapm HeadlessDisplayProofs.tla                   # the proofs

## 1. The system

### Host: the process `apc-host`

Its threads are the VM's (`krun-vm`, with libkrun's own virtio-gpu worker, which
calls the display callbacks), `slirp`, `fs-server`, `mcp-http` with one thread
per HTTP client, and the main thread: the stdio proxy, or AppKit.

| Part | State | Operations | What makes it correct |
|---|---|---|---|
| Headless framebuffer, `headless.rs` | mutex-guarded pool of 3 buffers with write, ready and read index; atomics for width, height, frame sequence and last sequence seen | configure scanout, alloc frame (the guest then fills the buffer with **no lock held**), present frame; `capture_framebuffer` (polling), `capture_latest_framebuffer` | a capture is whole, newest, and of the dimensions it reports |
| macOS framebuffer, `display.rs` | pool of 4 IOSurfaces with write, ready, display and previous index; the same atomics | configure, alloc, present; `get_front_surface`, `capture_framebuffer` | what CoreAnimation may read is never written; captures and viewer never go back |
| Viewer, `app/*` | AppKit window, 8 ms display timer, keys and buttons held | update the layer, forward input | the last frame is shown; no key or button stays stuck |
| Input devices, `input/*` | a queue and a pipe per device, last position, buttons and modifiers sent | push and poll of events, suppression of duplicates | no event stranded; a click where it was made; nothing stays pressed |
| stdio transport, `mcp_stdio.rs` | one connection to the guest, the line awaited | read a line, answer it or forward it, wait for one line back | each printed answer belongs to its request |
| HTTP transport, `mcp_http.rs` | per client: request, messages, responses so far | read, authorize, validate, forward message by message over a **new guest connection each**, respond | a 200 has exactly its answers; every POST ends |
| Host tools, `mcp_host.rs`, `mcp_capture.rs` | `REBOOT_SCHEDULED` | `reboot`, `screen_capture`, additions to `tools/list` | one reboot; a capture from a frame at hand, otherwise the guest's |
| File server, `fs_server.rs` | the session's root | connect to the guest every 2 s, serve **one connection at a time** | only allowed paths; paths below the root |
| Network, `slirp.rs` | descriptors, packets on their way | poll loop around libslirp | packets passed on whole |
| VM set-up, `main.rs`, `vm.rs`, `krun_ffi.rs`, `mcp.rs` | arguments | straight-line start-up; self-test client | configuration as asked |

### Guest: `apc-compositor` and `apc-fuse`

| Part | State | Operations | What makes it correct |
|---|---|---|---|
| MCP server, `mcp.rs` | one thread per vsock connection; a calloop channel to the event loop; a reply channel per call | read a line, dispatch, wait 5 s (shell 300 s, mounts 30 s, browser 180 s), reply | a late answer never answers another call; no call runs twice |
| Tools, `mcp_dispatch.rs` | none of its own | window, mouse, keyboard, screenshot, shell, mount and browser tools | effects in the order of the calls |
| Window manager, `state.rs`, `input.rs`, `grabs.rs` | `window_order`, the space, `minimized_windows`, `ssd_windows`, keyboard focus, pointer grab | requests of Wayland clients, device events, tool calls, refresh | every window can be reached; keys go where the user sees them; a drag ends |
| Browser service, `browser.rs` | the browserd child, its connection, a queue with a single worker | start, connect (30 s), initialize (20 s), call (180 s) | a call is acted on at most once and gets its own answer |
| Redraw, `render.rs` and the loop of `state.rs` | `redraw_state`, `last_render_at`, the snapshot, smithay's DrmCompositor | queue, render, vblank, watchdog, `capture_screen` | every change is shown in the end; a capture shows the scene |
| Drawing helpers | none | cursor, font, bitmap, taskbar | layout |
| `apc-fuse` | `InodeTable`, the connection to the host | one FUSE request at a time, of one to three remote calls | a name of the kernel leads to that name on the host; an answer is the answer to this request |

`apc-protocol` defines the tool schemas, the file-system frames and the region
arithmetic of screenshots. Build scripts, guest root file system and patches are
outside the models. `apc-browserd` is used as an external service.

### How they interact

    client --stdin/HTTP--> apc-host --vsock 9339--> mcp.rs thread --channel--> event loop
                              |                          ^                     |   |   |
                       framebuffer pool                  +---- reply channel --+   |   +-> browser queue -> browserd
                              ^                                                    +-> shell / mount threads
    guest GPU --callbacks-----+                         apc-fuse <--vsock-- fs-server (apc-host)

What is hard here: buffers written with no lock held while other threads read
them; atomics read beside the mutex they belong to; two sides that decide
separately whether a line has an answer; a time limit at every wait, with calls
that go on after it; effects of a batch whose later message fails; windows whose
life cycle is driven by clients, devices and tools at once; a child process that
may exit between any two polls; an inode table beside the kernel's own memory of
names; a single-connection server that retries; frames of a length and a text
with no way back into step; redraws that are rate-limited in a loop that blocks;
suppression of duplicate events on one side of a queue. `PROJECT.json` lists these
hazards one by one at their lines, with the properties that cover them.

## 2. The modules

| Module | Models | Used by |
|---|---|---|
| `HeadlessDisplay`, `MCHeadlessDisplay` | headless framebuffer | run Headless |
| `HeadlessDisplayProofs` | its theorems | |
| `HostDisplay` | macOS framebuffer and the viewer's timer | run HostDisplay |
| `FrameService` | what a display promises to viewer and captures (abstract) | refined by `HostDisplay` |
| `HostInput` | the view's handlers, device queues, what the guest takes to be pressed | run HostInput |
| `MacViewerProofs` | theorems of `HostDisplay` and of `HostInput` | |
| `McpGuest` | the guest's MCP server (no Next of its own) | `McpStdio`, `McpHttp` |
| `McpStdio`, `MCMcpStdio` | stdio transport composed with `McpGuest` | run Stdio, StdioDesync |
| `McpStdioProofs` | its theorems | |
| `McpHttp`, `MCMcpHttp` | HTTP transport composed with `McpGuest` | run Http |
| `McpHttpProofs` | its theorems | |
| `CallService` | what a client may rely on for its calls (abstract) | refined by `McpStdio` and by `Browser` |
| `WindowManager`, `MCWindowManager` | stacking, minimizing, focus, decorations, drags | run Windows |
| `Redraw`, `MCRedraw` | redraw state, event loop, watchdog, screen capture | run Redraw |
| `CompositorProofs` | theorems of `WindowManager` and of `Redraw` | |
| `Screenshot` | region and scale of a screenshot, as operators | `Redraw` |
| `Browser` | browser worker and browserd | run BrowserCalls |
| `BrowserProofs` | its theorems | |
| `Mounts` | `fs_mount`, `apc-fuse` life cycle, fs-server loop | run FsMounts |
| `HostFs`, `MCHostFs` | inode table, kernel's names, open files, host directory | run HostFsNames |
| `HostFsProofs` | theorems of `HostFs` and of `Mounts` | |
| `FsWire` | frames and remote calls between `apc-fuse` and the file server | run FsWire |
| `FsWireProofs` | its theorems | |

A proof module may be about two parts, which then share no names: this is why the
specifications of `Mounts`, `Redraw` and `HostInput` are `MountsSpec`, `RedrawSpec`
and `InputSpec`, with `MountsNext`, `RedrawNext`, `InputNext` and so on beside them.

**HeadlessDisplay.** A step is one critical section of the pool's mutex or one access
to an atomic that another thread may change (the two numbers a poll compares are
loaded in two steps), so every interleaving the locks allow is explored; the guest's
writing between alloc and present is two steps, with the buffer torn in between.
A frame is its sequence number, a buffer its dimensions, its frame and whether it
is whole. `ConfigureWidth`, `ConfigureHeight`, `ConfigurePool`, `AllocFrame`,
`FillFrame`, `PresentFrame` are the callbacks; the readers go through
`capture_latest_framebuffer`, the pollers through `capture_framebuffer`, which
nothing in the repository calls: what is checked of it is what its doc comment
(`headless.rs` 53-54) tells whoever will, with `polled`, a history, for the frame
handed out last. All atomics are taken as sequentially consistent, which the code does not ask for: the
frame sequence is stored with Release and loaded with Acquire, the rest is
Relaxed. The model leaves out what those weaker orders add.

**HostDisplay.** As above, with the viewer: `ViewLoad`, `ViewStore`, `TakeFront`
and `Show` are one tick of the timer. A pool is numbered by the configure call
that made it, so that the layer can still show a surface of an earlier pool.
The rows a capture reads are compared with the rows the surface has. It
implements **FrameService**, with `frame_seq` for the frames presented, the
layer's frame for the one shown, and the frame of the last capture: viewer and
captures go forward through the frames, each on its own, and a capture is never
behind the window.

**HostInput** follows an event from AppKit to the guest. The user holds buttons, a
key and modifiers, moves the cursor, leaves the window and comes back; while the
view has no keyboard, keys and modifiers change unseen. The handlers push whole
batches to the queue of a device and write its pipe in one critical section;
libkrun takes one event at a time while the pipe is readable. `down` is what the
guest's input core takes to be pressed. A click carries, as a history, where the
user's cursor was. Mouse and keyboard have separate queues, so nothing is said of
the order between them. Before the guest has configured a display no position is
forwarded; the model begins after that.

**McpGuest.** A line is its tag, its id, its kind and whether it parses. A
connection thread reads a line (`ReadSilently`, `AnswerLocally`, `Dispatch`) and
waits (`Receive`, `Timeout`); the event loop takes commands one at a time
(`LoopStep`); shell and mount threads finish in any order (`WorkerDone`), the
browser worker in the queue's (`BrowserDone`). Time limits are steps that may be
taken whenever the channel is empty, so every duration is covered. The compositor
may end at any moment and is started again by the guest's init
(`CompositorRestarts`): connections and calls are lost, processes that a shell
call has started run on. It can do so once per connection, as only a compositor
with connections has anything to lose. `applied` is a history of effects.

**McpStdio** adds the proxy's loop: who answers a line, whether it is waited for,
and how the process ends (guest gone, end of input, reboot). The client may write
lines ahead. **McpHttp** adds a thread per client with one POST each; every
message gets a connection of its own, named by client and position. A reboot
ends the process and with it all threads and the VM.

**CallService** is what is left when queues, threads, connections and time limits
are taken away: a call is carried out at most once and answered at most once, an
answer with a result has that call's result, and only after the call was carried
out. A failure promises nothing, for the code cannot know. `McpStdio` with its
guest implements it (`done` is the effects in `applied`, `answers` the lines
printed), for clients that keep to the handshake; `Browser` implements it for the
worker (`done` is what browserd has been asked for).

**WindowManager** has one action per request, device event and tool. Locations
and sizes are left out, so any window of the space may be under the pointer: this
only adds behaviours. Presses the compositor keeps from the pointer handle (task
bar, decorations) are separate from those it passes on, because the grabs end by
the buttons the handle knows of. Dead windows stay in the space until `Refresh`.

**Redraw** reduces what ought to be seen to a version number. A handler of the
event loop raises it and calls `queue_redraw`; after each round of handlers
`AfterDispatch` renders if a redraw is queued and 16 ms have passed, and then the
loop blocks: what came too early is rendered only because the watchdog's timer
wakes the loop. `render_frame` is split by its outcomes (nothing to draw,
committed, queued, refused by the kernel, failed), each with the snapshot a
capture has asked for. Both presentation modes are in one module: `legacy` is
`SMITHAY_USE_LEGACY`, as `start-compositor` sets it, where `commit_frame` puts the
frame on the screen at once; without it frames wait for vblanks. A client has one
window, which is in the space (`shown`) or not: `Show` and `Hide` are the handlers
that create, minimize and bring back a window. `waiting` are the clients that have
committed and not had their frame callback, which `send_frame_callbacks` sends to
windows in the space only: a client that is minimized while it waits goes on
waiting until it is shown again. `kms` is
smithay's DrmCompositor (one frame pending, one queued behind it) and the kernel,
modelled from the calls the code makes. `excused` records the ways in which the
code lets a change go unseen, so that the liveness properties can name them:

- the last redraw failed (nothing retries it);
- the change asked for none (`toplevel_destroyed`, the decoration handlers, and
  resizing by dragging, which also brings back a window minimized meanwhile);
- a vblank that nobody waited for replaced `Queued` by `Idle` (`state.rs` 869),
  or a frame was stranded behind one whose wait was given up.

**Screenshot** has the arithmetic of regions and scales, with 32-bit sums.

**Browser** makes every poll of the child a step of its own, as the child may
exit between any two of them. **Mounts** follows a mount from `fs_mount` to the
end of its process. **HostFs** keeps the inode table, the kernel's names and the
open files apart from the host's directory, in which host programs may create,
remove, rename and link files between any two requests (`HostEdits`). `moved`, a
history, has the files they renamed or linked: reads and writes of an open file go
by path, so that one of these may be elsewhere, or in another's place.

**FsWire** keeps of the same two sides the wire: a request of the kernel is a
sequence of remote calls (`setattr`: truncate, chmod, stat; `symlink`: symlink,
stat), each written, dispatched and read back in steps of its own, which may fail
at the host or at the frame reader. A word stands for four bytes, so that a
response that exceeds `MAX_FRAME_LEN` leaves its text in the stream, to be read as
lengths. A listing goes in pages, each of a fresh `readdir` on the host; the
kernel's offset counts into it. `unlink` and `release` stand for the requests
with a single call. A file is its name here, as `HostFs` models what a number
leads to.

## 3. What the runs check

Passing runs (distinct states on two workers):

| Run | Shows | States |
|---|---|---|
| Headless | `NoTornCapture`: no capture holds a half-written frame. `CaptureIsLatest`: a capture has the newest frame presented since the last configuration. `SkewNeedsReconfiguration`: dimensions and pixels differ only if a configure call overlaps the capture. `PollReturnsNewFrame`: polling hands out no frame twice, whoever polls | 2 313 941 |
| HostDisplay | `ShownIsUntouched`: the guest is never handed a surface CoreAnimation may read. `CaptureIsWhole`. `ImplementsFrameService`: viewer and captures never go back. `RowsExist`: a capture reads only rows its surface has, but for a failed configuration. `LastFrameShown`: a presented frame, or a newer one, reaches the layer, unless the scanout is configured anew | 354 064 |
| HostInput | `NoLostWakeup`: while an event is queued its pipe is readable. `NothingStuck`: once the queues are empty the guest holds what the user holds. `ClickOnTarget`: a press reaches the guest with the pointer where the user clicked | 1 743 368 |
| Stdio | `AnswersMatch`: each printed answer is that of its request. `ImplementsCallService`. `EveryRequestAnswered` | 166 403 |
| Http | `BatchAnswersMatch`: a 200 has exactly its answers. `BatchInOrder`: effects in the order of the messages. `EveryPostAnswered` | 301 908 |
| Windows | `FocusIsShown`, `EveryWindowReachable`, `UserDragNeedsButton`, `TwoIdsOnlyByDragging` | 1 176 925 |
| Redraw | `NothingForgotten`: what is not on the screen is queued, remembered for the end of a wait or in flight. `CaptureIsFresh`: a capture shows the scene of its moment. `CaptureShowsRegion`: its pixels are those asked for. `SceneShown`: a change is shown in the end. `CallbackSent`: a waiting client whose window is in the space gets its frame callback | 436 540 |
| BrowserCalls | `ImplementsCallService`, `EveryCallAnswered` | 106 393 |
| FsMounts | `OnlyAllowedMounted`. `ErrorIsFinal`: what `fs_mount` itself reports as failed is never mounted. `WaitingMountSettled` | 3 656 |
| HostFsNames | `NameIsPathUntilRename`: a name leads to its path. `OpenFileIsReached`: an open file's number leads to that file or, once it is gone, to a newer one of its path, files excepted that host programs rename or link | 834 467 |
| FsWire | `AnswerIsTrue`: a success is told only of what was done, all of it. `ActsWhileAwaited`: nothing reported as failed happens later. `ListingIsComplete`: only a removal between two pages hides a file. `EveryCallEnds` | 1 976 024 |

Headless and FsMounts also check the `TypeOK` of their modules, which are proved.
For every property `PROJECT.json` names a mutated definition, a plausible bug of
the code, under which TLC finds the property violated.

A run that shows a disagreement between the code and what the repository says:

- **StdioDesync** (`AnswersMatch`). The proxy does not wait for the answer to a
  line without an id, but the guest answers all of them except
  `notifications/initialized`. One `notifications/cancelled` shifts every later
  answer by one.

Divergences and limits met while modelling that have no run; where a property
above has an exception, this is what it stands for:

- Captures: dimensions are loaded before the mutex is taken (`headless.rs` 80-86),
  so that the pixels of one configuration may be returned with a dimension of
  another (`SkewNeedsReconfiguration` bounds this). On macOS a configure call
  releases the old surfaces after the mutex is free, while the viewer may hold the
  pointer `get_front_surface` gave it; and if a surface cannot be created, the
  new dimensions stay with the old pool (`RowsExist`: nothing else does this).
- An empty line, or `notifications/initialized` with an id, is waited for by the
  stdio proxy and never answered; the proxy blocks.
- `REBOOT_SCHEDULED` is set before the steps that can fail (`mcp_host.rs` 108)
  and never reset; after a failure every later call is told that a reboot is
  already scheduled.
- `README.md` 55 says that HTTP requires `Accept: application/json`; a request
  without the header is accepted (`mcp_http.rs` 88, 332). An unreadable request
  is closed with no status.
- `fs_mount` replies "mounted" half a second after the start whatever the mount
  has come to. The error a client gets when the 30 s of `mcp.rs` are over says
  nothing about the mount; `ErrorIsFinal` is not about it.
- `move_request` and `resize_request` (`state.rs` 399) check neither serial nor
  buttons: a request that comes after the release starts a drag that no button
  ends. `UserDragNeedsButton` is about drags by the title bar and exempts these.
- browserd exiting between two polls of one call can drop the url of a
  navigation, or let a call that opens no tab start the browser and be answered
  with the tab list.
- `window_close` on a minimized window forgets it at once; if its client keeps it
  open (a "save changes?" dialog), no tool and no taskbar button reaches it again
  (`EveryWindowReachable`: nothing else does this). A window destroyed before the
  loop's refresh and minimized in between leaves an entry that nothing removes but
  a close by its id.
- A switch from client-side to server-side decorations does not undo the shift of
  the switch before (`state.rs` 639); `keyboard_key` with a single upper-case
  letter sends it without shift.
- Files: `rename` leaves the inode table as it is, and the kernel's number then
  leads to the old path. A removed path keeps its number for a later file of its
  name. As reads and writes of open files go by path (`vfs.rs` 330-418), a program of
  the host that renames a file over one that is open in the guest, or renames that
  one away, makes the guest read and write another file, which may be older. A program that removes files while it lists them, as `rm -r` does, may be
  shown only some of them when the listing takes several pages. `setattr` ignores
  owners and times, `create` ignores `O_EXCL`, and `flush` and `release` always
  succeed. A directory whose listing exceeds 64 MiB makes every later request of
  the mount fail, and in the end both sides wait for the other to read
  (`EveryCallEnds`: nothing else does this).
- Redraw: the three ways above in which a change stays unseen until the next one.
  A client whose window is minimized gets no frame callbacks (`render.rs` 600)
  until it is shown again.
- Input: two buttons held at once, or a control-click whose control key is
  released before the button, share one bit of `LAST_MOUSE_BUTTONS`: a press or a
  release is dropped. A key released while the window has no focus stays pressed
  in the guest until it is pressed again; deactivating the application with
  Command held leaves Command pressed. After a tool has moved the pointer, a click
  at an unchanged position lands where the tool left it.

### Bounds, and why they are enough

- **Headless:** 1 reader, 2 pollers, sizes {1, 2}, 3 buffers as in the code, 3
  frames, 2 configurations, the pollers interchangeable. Two pollers are what it
  takes for one to put `last_seen` back; two configurations, for one to overtake
  a capture that began in the other; three frames, for every buffer to be
  written. The proofs cover every number.
- **HostDisplay:** 1 reader (readers share nothing with one another), 4 surfaces,
  sizes {1, 2}, 4 frames, so that every surface is written, shown and shown
  before, and the first is written again, 2 configurations.
- **Stdio:** 3 lines: one that times out, one that may get the late answer, one
  behind it; 2 unread replies before a write times out. **Http:** 2 clients, who
  share the event loop, the browser queue and `REBOOT_SCHEDULED`; bodies of up
  to 2 messages, chosen so that each kind meets another.
- **Windows:** 3 windows under symmetry (a bottom one for the focus, a dragged
  one, one between), 2 buttons, 2 minimized entries.
- **BrowserCalls:** 3 calls, one of each class of tools, 2 exits (one in the
  middle of a call, one in the start-up after it), 1 notification.
- **FsMounts:** 3 mounts, 2 allowed: one served, one waiting, one refused.
- **HostFsNames:** 2 names, interchangeable, depth 2, 4 inode numbers, 3 objects (a
  file, its successor, and one more), 1 rename by the guest; programs of the host
  rename or link once (a file, or a directory with what is in it).
- **FsWire:** 3 names, of which a listing of 2 fits a frame, pages of 1 entry: a
  listing takes up to three pages. 4 requests: one to take the stream out of step,
  and three after it. 2 words of buffer and 5 of an oversized text, so that it can
  neither be buffered nor, by these requests, be read up. The assumption
  `Huge > 2 * Buffer` stands for 64 MiB against two socket buffers. 1 edit by the
  host, to fall between two pages.
- **Redraw:** 1 client (clients share only the state of the redraw, which a change
  by anybody drives) and 4 versions, so that its window is shown, minimized while
  it waits, and shown again, and a frame can be on the screen, one in flight and one
  asked for meanwhile; 1 failed step. A frame of 3 by 2 pixels and 4-bit coordinates;
  the captures ask for the whole, for an enlarged part, and for one whose right
  edge wraps around.
- **HostInput:** 2 buttons (left, which control turns into right, and right), 1
  key, 1 modifier, 2 positions; queues of 2 events, so that a click and the move
  before it fit, and a handler waits for room, which in the code is unbounded.

Every bound is a constant in a guard. Because behaviours end at the bounds, and
clients, proxies and processes really stop, deadlock checking is off; that
nothing waits for ever is what the liveness properties say.

### Fairness

Only what the code's threads do by themselves is assumed:

- **Stdio:** the proxy's thread and the connection's thread run, a receive with a
  time limit returns, and the event loop accepts the connection. The event loop's
  commands, shell threads and the browser worker may hang for ever: answers come
  from the time limits (`mcp.rs`).
- **Http:** each client's thread runs; the guest may do nothing at all: connecting
  and reading are bounded by 60 s and 180 s, and the guest never holds the thread.
- **HostDisplay:** the display timer ticks; nothing is assumed of the GPU thread
  or of captures.
- **BrowserCalls:** the worker runs, and each of its waits has a time limit;
  browserd need not answer.
- **FsMounts:** the fs-server loop, the `apc-fuse` processes and the reply of
  `fs_mount` go on; nobody has to mount or unmount.
- **FsWire:** `apc-fuse` and the file server each run while they are not waiting
  for the stream. Neither the kernel nor host programs have to do anything.
- **Redraw:** the loop runs its handlers and what follows them, timers expire,
  and the kernel shows the frame it accepted and says so. Clients, tools and
  captures need not do anything; a failed step may be any.

Headless, Windows, HostFsNames and HostInput state safety only.

## 4. What is proved

Every safety property of section 3 is proved for all values of the constants. The
theorems:

| Module | Theorem | States |
|---|---|---|
| `HeadlessDisplayProofs` | `TypeCorrect`, `CapturesAreWhole`, `CapturesAreLatest`, `SkewOnlyAcrossReconfiguration`, `PollsAreNew` | `TypeOK`, `NoTornCapture`, `CaptureIsLatest`, `SkewNeedsReconfiguration`, `PollReturnsNewFrame` |
| `MacViewerProofs` | `LayerIsLeftAlone`, `CapturesAreWhole`, `CapturedRowsExist`, `PoolImplementsFrameService` | `ShownIsUntouched`, `CaptureIsWhole`, `RowsExist`, `ImplementsFrameService` |
| `MacViewerProofs` | `NoWakeupLost`, `NothingStaysPressed`, `ClicksLand` | `NoLostWakeup`, `NothingStuck`, `ClickOnTarget` |
| `MacViewerProofs` | `NoFrameIsMissed` | the safety half of `LastFrameShown` |
| `McpStdioProofs` | `AnswersMatchTheirLines`, `ProxyImplementsCallService` | `AnswersMatch`, `ImplementsCallService` |
| `McpStdioProofs` | `AwaitedIsDue`, `AwaitedComesNearer` | the safety half of `EveryRequestAnswered` |
| `McpHttpProofs` | `EveryMessageAnsweredOnce`, `ToolsTakeEffectInOrder` | `BatchAnswersMatch`, `BatchInOrder` |
| `BrowserProofs` | `BrowserImplementsCallService` | `ImplementsCallService` |
| `BrowserProofs` | `NoCallIsLost` | the safety half of `EveryCallAnswered` |
| `CompositorProofs` | `KeyboardGoesToTheShown`, `NoWindowIsLost`, `DragEndsWithButtons`, `OnlyDragsDouble` | `FocusIsShown`, `EveryWindowReachable`, `UserDragNeedsButton`, `TwoIdsOnlyByDragging` |
| `CompositorProofs` | `NoChangeIsForgotten`, `CapturesAreFresh`, `CapturesShowRegion` | `NothingForgotten`, `CaptureIsFresh`, `CaptureShowsRegion` |
| `CompositorProofs` | `LegacyNeverForgets` | in the mode that `start-compositor` sets, it is queued |
| `HostFsProofs` | `NamesArePaths`, `OpenFilesAreReached` | `NameIsPathUntilRename`, `OpenFileIsReached` |
| `HostFsProofs` | `TypeCorrect`, `NothingElseMounted`, `ErrorsAreFinal` | `TypeOK`, `OnlyAllowedMounted`, `ErrorIsFinal` |
| `HostFsProofs` | `NobodyListensInVain`, `TheHostComesNearer` | the safety half of `WaitingMountSettled` |
| `FsWireProofs` | `SuccessesAreTrue`, `NothingActsLate`, `ListingsAreComplete` | `AnswerIsTrue`, `ActsWhileAwaited`, `ListingIsComplete` |
| `FsWireProofs` | `NobodyWaitsForEver`, `EveryStepBringsTheEndNearer` | the safety half of `EveryCallEnds` |

In each module `IInv` (`MountsIInv`, `RedrawIInv`, `InputIInv`) is the inductive invariant,
`InitIInv` and `NextIInv` or one lemma per action show that it is one, and the
theorems follow from it: an invariant as one of its conjuncts or a consequence, an
action property or a step of a refinement from `IInv` in the state before. Each
`IInv` was checked by TLC on the instance of the run before it was proved. What
the invariants add to the properties is why the code is right:

### 4.1 HeadlessDisplay

Assumptions: `NUM_BUFFERS >= 3` (two buffers leave no free one while one is ready
and one is read), sizes are positive, the bounds are naturals, and no thread is
both a reader and a poller. `NoTornCapture` says nothing of the pool a capture
copies from. `IInv` adds `WriteBufferPrivate` (the write index is neither the ready
nor the read one; `PickWriteIsFree` shows that the search in `present_frame` finds
such a buffer among three or more), `OnlyWriteBufferTorn` (a buffer that is not
whole is the write buffer, while the guest fills it), `LatestHoldsNewest` (the
buffer a capture takes holds the newest frame, and there is none after a
configuration until a frame is presented) and `PoolHasDimensions` (outside a
configure call the buffers have the dimensions the atomics tell). `PollsAreNew` has an
invariant of its own, `PolledBefore`: the ready frame is newer than the one polling
handed out last (`polled`), whatever numbers the threads have compared and put into
`last_seen`. It is for callers the repository does not have yet, any number of them.

### 4.2 HostDisplay

Assumptions: at least four surfaces, positive sizes. The layer is set after the
mutex is free, so `IInv` follows a surface on its way: `LayerHasDisplayed` says which
index of the pool the layer has at each point of the timer's tick, `PoolsNumbered`
keeps surfaces of an earlier pool apart from those of this one, and
`WriteSurfacePrivate` holds the write index away from the three others
(`PickWriteIsFree`: this is what takes four surfaces). `DisplayedIsNewest` and
`HandedOutInOrder` carry the refinement: what viewer and captures were handed is
never newer than the displayed surface and never older than what they had, so
that each step is one of `FrameService` or a stutter (`StepIsServiceStep`).

`NoFrameIsMissed` is what `LastFrameShown` rests on. The timer reads the sequence
number before it locks the pool, so a frame may come in between, be taken with the
older number noted, and the timer wake up once more for nothing; what must not happen
is the opposite, a frame in the pool whose number is noted already, or one taken from
the pool and not passed on. `SeenInOrder`
(neither the number noted nor the one read is ahead of the present one, and one that is
ready and noted is about to be taken) excludes it, since the GPU thread raises the number
in the critical section that makes the frame ready; `TakenGoesToLayer` the other: what
the timer takes it holds in `view.front` until the layer has it.

### 4.3 HostInput

Assumption, beside the types: no key has the code of a button or of a modifier
(`KeysAssumption`, true of the key map of the source). `NothingStuck` speaks of
empty queues; what is inductive is where the queues lead to. `HeldAfter(q, held)`
is the codes held once the events of `q` have been taken, and `ButtonsSettle` and
`KeysSettle` equate it with what the user holds; `PointerFollows` says that
`LAST_MOUSE_ABS` is where the pointer will be, without which the handlers could not
leave out a move. `HeldAfterBoth` (what two batches do one after the other) and
`PushIsSound`, `PopIsSound` (the pipe is written whenever an event is added and
drained only when none is left) are the lemmas all handlers share.

### 4.4 McpStdio

Assumptions: the proxy connects once (`ConnectionAssumption`), and for the
theorems `Polite`: the client writes no empty line, and without an id only
`notifications/initialized` and what the host answers by itself. The run
StdioDesync shows that this cannot be left out. `Flow` is the argument: while the
proxy awaits a line, the connection is in one of four situations (the line is
unread behind silent notifications, being handled, answered with a single reply,
or lost with the connection), and while it awaits none, no reply can come.
`RepliesOwn` says that a reply channel has at most the result of its own call, so
that a late answer goes nowhere; `CallsOnce` and `LinesOnce`, that a line is in one
place only, from stdin to `applied`. These give that a call takes effect at most
once and that each printed answer is a step of `CallService`.

The proxy reads its answer without a time limit. `AwaitedIsDue` and
`AwaitedComesNearer` say why it still gets one: what it waits for depends on accepting
the connection and on the connection's own thread, never on the event loop's
commands, a shell or the browser, which may hang; and `Distance`, the lines left to read
and the call under way, falls with each step of that thread and rises with none. The run
StdioDesync is the case that `Polite` excludes: there nothing is due.

### 4.5 McpHttp

Assumptions: a connection is named by a client and a position, and a body is a
non-empty sequence of messages, each with a connection for every client
(`ConnsAssumption`, `BatchesAssumption`). Nothing is asked of the clients. The
answers of a POST need `LineOf`: a connection has one line, that of its message,
and a reply only once that line was read, so whatever is read from it answers that
message; and `AnswersSoFar`: what was collected up to a message is what the
messages before it asked for. The order of effects needs more, for a message that
timed out may still be on its way when the next is sent. What makes it right is
that a client goes past a message with an id only when the guest has read its
line (the last conjunct of `LineOf`), and that a thread which reads a line puts the
call into the channel before it does anything else: so when a call is put there,
every other one of its client (`Handed`, wherever it has got to) is of an earlier
message (`EarlierHanded`), and the channel and the event loop keep that order
(`TakenInOrder`). `PassedOn` sets apart the calls that the loop hands on, of which
no order is claimed.

### 4.6 Browser

`ReachedOnce` says where a call can be: in the pipe, or taken by browserd, or its
url given to the child at start-up, in which case the worker will not send it
(`Started`). `Connected` and `OwnAnswer` are why the late answer to a request that was
given up cannot become another's: numbers are not used twice on a connection, and
a connection's answers die with it. `QueueInOrder` and `AnsweredOnce` are about
the worker's own end. `AnsweredAll` completes the latter: the worker goes on to the
next call only when this one has an answer, so that no call is lost (`NoCallIsLost`)
to an error at start-up, a lost connection or an exit of browserd. No assumption but
that the bounds are naturals.

### 4.7 WindowManager and Redraw

The three properties of windows are inductive together with `Known` (the space,
the minimized windows and the drag have only windows that exist or have existed)
and `PressedIsDown` (the pointer handle holds no button that is up); the latter is
what ends a drag. That a removal by `position` and `remove` takes one entry
and keeps the others (`RemoveAtEntries`), and that a filter keeps what it should,
are proved by induction over positions, without an operator as a parameter.

Of Redraw, `NothingForgotten` is the safety half of `SceneShown` and `CallbackSent`:
its second part holds for clients in the space, and survives minimizing and showing
because both ask for a redraw.
`RedrawIInv` finds where a change can be: what the damage tracker has drawn is the
newest frame of the pipeline, the one kept in smithay, the one the kernel flips to
or the one on the screen (`Pipeline`), so that a render that finds nothing to
draw leaves nothing unseen; a frame is kept only behind a pending one whose end is
waited for; what is not drawn is asked for (`Remembered`); and in legacy mode there is
no flip, no vblank and no wait (`NothingInFlight`), from which the stronger
`LegacyNeverForgets` follows: there it is queued.
`CapturesAreFresh` needs, in both modes, `AnswersFollow`: the last
capture is no newer than the snapshot, nor the snapshot than the scene.
`CapturesShowRegion` is arithmetic: the crop of a legal region with sums of 32 bits
that do not wrap, and the nearest pixel of each place, for every frame whose
sides fit 32 bits and which, as a whole, is within the limit of
`apply_capture_options` (the hypothesis `FitsLimit`; a larger frame cannot be captured
whole by anybody).

### 4.8 HostFs and Mounts

`NameIsPathUntilRename` and `OpenFileIsReached` say nothing once something was
renamed by the guest, so `IInv` is an implication too; before that, `ObjectsAreUnique`
(a file of the host that no host program has renamed or linked is at one path) is what
lets an open file be followed through removals. Every step that makes no file is
`Rearranged`, whoever takes it: what it leaves at a path was there before, or is a
file in `moved`.
For mounts (assumption: the allowed ones are among all), that a mounted directory
is allowed follows from the processes before it: `ConnectedIsServed` says that a
process the host has connected to is the one it serves, and `AcceptedIsRooted`,
that what got past Init is allowed and its session rooted while it lasts; without
the first, the Init of one mount could root the session of another. `OneListener`
is what bind guarantees.

The host serves one mount at a time, and connects to the others only when that
one ends. `HostIsComing` says that a process which waits for the host does so only while
the server is free, or serves one that is mounted (and then may wait for ever, as
the run's `WaitingMountSettled` says too), has ended, or can be taken further by
the server or by itself (`ServedIsConnected`: the server never serves one that still
waits for it). `HostComesNearer` says that those steps count: `UntilFree` falls with
each and rises with none while somebody waits.

### 4.9 FsWire

`IInv` has two sides. `InStep`: nothing is in the stream but the request or the
response of the call being made, at most one of them, so that the identifier that
is never compared would have matched. `OutOfStep`, from the first response that no
frame holds: no word in the stream can be read as a length again, each call that is made adds a
request and takes one word, and so words and requests together are as many as
the text had words. As the file server takes no request before its response is
written, and the stream cannot hold all of these (`HugeAssumption`: 64 MiB
against two buffers), it never acts again: `NothingActsLate` holds on both sides. `ToDo`
relates what was asked for, what was done and what is left, through all the
remote calls of a request.

A listing has an invariant of its own, `ListingInv`. The host makes the listing anew
for each page, so the page that arrives is of a directory `D` as it was when the host
read it, and may have changed since. `Rank(D, x)` is the place that a name has, or
would have, among those of `D`; `SplitsAt(D)` says that the offset splits a listing of
`D` in two: unless a file was removed, the files of `D` that stay and whose rank is
within the offset have been given to the kernel, and unless one was added, what has
been given is within it. `Snapshot` holds of the directory now and of the one the
page on its way was made from, and lies between the two: without removals `D` can
only have grown and ranks with it (`RankGrows`), without additions only shrunk.
`PageShown` is the step that reads a page. What `Listed` chooses exists because ranks
are a bijection of a finite set to 1 .. its size (`ListingExists`), and any choice has
every name at its rank (`PlaceIsRank`): facts about sorted sequences that need no
induction, only the cardinalities of subsets.

`EveryCallEnds` itself is beyond the prover, but what it rests on is not. `apc-fuse`
sets no timeout on its socket, so a call ends only if the two processes never wait for
each other and cannot go round in circles. `SomebodyCanMove` says the first: in step,
the guard of a step of the guest or of the server holds, for any buffer that
holds a response. `EveryStepCounts` says the second: `StepsLeft`, what is still to be
sent, handled, written and read of the call, falls with every step of either, and no
other step touches the call or the socket. From the two, the fairness of both
processes gives `EveryCallEnds`; this last inference needs ENABLED and an induction
on `StepsLeft`, and stays with TLC.

### 4.10 Only model-checked

- Liveness, which needs fairness and ENABLED: `LastFrameShown`, `SceneShown`,
  `CallbackSent`, `EveryRequestAnswered`, `EveryPostAnswered`, `EveryCallAnswered`,
  `WaitingMountSettled`, `EveryCallEnds`. Except for `EveryPostAnswered`, which rests on the
  two time limits of `mcp_http.rs` alone, the part that is safety is proved (4.2,
  4.4, 4.6 to 4.9): nothing is lost or awaited in vain and, for requests, mounts
  and remote calls, a number falls with each step. What is left to TLC is the
  inference from these and fairness.
  The refinements of section 3 are of safety
  specifications, and are proved.

## 5. Not modelled, and why

- Pixels, PNG encoding, drawing, layout, wording of answers: data no property
  tells apart.
- `slirp.rs`: a loop that hands packets and descriptors between libslirp and the
  VM. Its timer table is filled only for router advertisements, which the
  configuration turns off (`in6_enabled`, line 337); what is left to check is
  libslirp.
- VM set-up and argument parsing are straight-line calls; the self-test client
  only exercises the server. Build scripts and patches.
- Weak memory orders; a host whose client does not take its output; browserd,
  the guest kernel, smithay, AppKit and CoreAnimation beyond what the code relies
  on. Reference counts of IOSurfaces.
- File contents, times and owners; wheel and caps lock, which keep no state.
- Window locations, popups with their grabs, and keyboard state of the window
  manager.

## 6. Plan

Order: first what an agent relies on for every call (the two framebuffers, the two
transports with the guest's server), then what its calls act on (windows,
browser, mounts, files), then the way to the screen and from the user's hand
(redraw, input) and the wire of the file system, each module with its runs before
the next. Done: the modules of section 2 and the proofs of section 4. Left:

1. Model: locations in `WindowManager`, for the title bar's offset that drifts with
   each change of decoration, and popups.
