--------------------------- MODULE WindowManager ---------------------------
(***************************************************************************)
(* The guest compositor's window bookkeeping (apc-compositor/src/state.rs, *)
(* input.rs, grabs.rs, mcp_dispatch.rs): which windows are in the space    *)
(* and in which order, which are minimized, which has the keyboard, and    *)
(* the pointer grab that drags one.  Requests of the Wayland clients, the  *)
(* devices' events and MCP tool calls are handled one at a time by the     *)
(* event loop but arrive in any order; dead windows leave the space only   *)
(* when the loop refreshes it.                                             *)
(*                                                                         *)
(* Locations and sizes are left out, so any window of the space may be the *)
(* one under the pointer.  An MCP id is an index into the list of the      *)
(* windows in the space, bottom first, followed by the minimized ones.     *)
(***************************************************************************)
EXTENDS Naturals, Sequences, FiniteSets

CONSTANTS
    Windows,       \* toplevels the clients may create, each at most once
    Buttons,       \* pointer buttons
    LeftButton,    \* the one that operates the taskbar and the decorations
    None,          \* no window
    MaxMinimized   \* bound: entries of minimized_windows

ASSUME LeftAssumption == LeftButton \in Buttons
ASSUME NoneAssumption == None \notin Windows

VARIABLES
    alive,       \* toplevels that exist, those of window_order
    gone,        \* toplevels that have been destroyed
    space,       \* the elements of the space, bottom to top
    minimized,   \* minimized_windows, without the locations
    ssd,         \* ssd_windows
    focus,       \* the surface with the keyboard
    grab,        \* the grab on the pointer: what it drags and who began it
    pressed,     \* the buttons the pointer handle holds for pressed
    down,        \* the buttons that are down
    asked        \* windows that were sent a close while minimized (history)

vars == <<alive, gone, space, minimized, ssd, focus, grab, pressed, down, asked>>

NoGrab == [window |-> None, by |-> "nobody"]

Shown == {space[i] : i \in DOMAIN space}
Iconified == {minimized[i] : i \in DOMAIN minimized}

Init ==
    /\ alive = {} /\ gone = {} /\ ssd = {} /\ asked = {}
    /\ space = <<>> /\ minimized = <<>>
    /\ focus = None /\ grab = NoGrab
    /\ pressed = {} /\ down = {}

\* The entries of s that are in S, in their order.
Among(s, S) ==
    LET kept[n \in 0 .. Len(s)] ==
          IF n = 0 THEN <<>>
          ELSE IF s[n] \in S THEN Append(kept[n - 1], s[n]) ELSE kept[n - 1]
    IN  kept[Len(s)]

Without(s, w) == Among(s, Windows \ {w})

\* Space::map_element and raise_element: w ends on top.
OnTop(s, w) == Append(Without(s, w), w)

RemoveAt(s, i) == SubSeq(s, 1, i - 1) \o SubSeq(s, i + 1, Len(s))

-----------------------------------------------------------------------------
(* The handlers' shared steps *)

RaiseAndFocus(w) == space' = OnTop(space, w) /\ focus' = w

MinimizeKeepsFocus(w) ==
    /\ w \in Shown /\ Len(minimized) < MaxMinimized
    /\ space' = Without(space, w)
    /\ minimized' = Append(minimized, w)
    /\ UNCHANGED focus

\* minimize_window: the bottom window gets the keyboard.
Minimize(w) ==
    /\ w \in Shown /\ Len(minimized) < MaxMinimized
    /\ space' = Without(space, w)
    /\ minimized' = Append(minimized, w)
    /\ focus' = IF space' = <<>> THEN None ELSE Head(space')

UnminimizeNotMapped(i) ==
    /\ minimized' = RemoveAt(minimized, i)
    /\ focus' = minimized[i]
    /\ UNCHANGED space

\* unminimize_window
Unminimize(i) ==
    /\ minimized' = RemoveAt(minimized, i)
    /\ RaiseAndFocus(minimized[i])

-----------------------------------------------------------------------------
(* Requests of the clients *)

NewToplevel(w) ==
    /\ w \notin alive \cup gone
    /\ alive' = alive \cup {w}
    /\ RaiseAndFocus(w)
    /\ UNCHANGED <<gone, minimized, ssd, grab, pressed, down, asked>>

\* toplevel_destroyed leaves the space, the focus and the grab as they are.
ToplevelDestroyed(w) ==
    /\ w \in alive
    /\ alive' = alive \ {w} /\ gone' = gone \cup {w}
    /\ ssd' = ssd \ {w}
    /\ minimized' = Without(minimized, w)
    /\ UNCHANGED <<space, focus, grab, pressed, down, asked>>

\* move_request and resize_request check neither the serial nor the buttons.
GrabRequest(w) ==
    /\ w \in alive \cap Shown
    /\ grab' = [window |-> w, by |-> "client"]
    /\ UNCHANGED <<alive, gone, space, minimized, ssd, focus, pressed, down, asked>>

MaximizeRequest(w) ==
    /\ w \in alive \cap Shown
    /\ space' = OnTop(space, w)
    /\ UNCHANGED <<alive, gone, minimized, ssd, focus, grab, pressed, down, asked>>

MinimizeRequest(w) ==
    /\ w \in alive
    /\ Minimize(w)
    /\ UNCHANGED <<alive, gone, ssd, grab, pressed, down, asked>>

ShiftAlways(w) == space' = OnTop(space, w)

\* A window of the space that changes hands is shifted by its title bar,
\* which also raises it; a minimized one is not mapped.
ShiftIfShown(w) == space' = IF w \in Shown THEN OnTop(space, w) ELSE space

NewDecoration(w) ==
    /\ w \in alive \ ssd
    /\ ssd' = ssd \cup {w} /\ ShiftIfShown(w)
    /\ UNCHANGED <<alive, gone, minimized, focus, grab, pressed, down, asked>>

RequestClientSide(w) ==
    /\ w \in alive \cap ssd
    /\ ssd' = ssd \ {w} /\ ShiftIfShown(w)
    /\ UNCHANGED <<alive, gone, minimized, focus, grab, pressed, down, asked>>

\* request_mode(ServerSide) and unset_mode
RequestServerSide(w) ==
    /\ w \in alive \ ssd
    /\ ssd' = ssd \cup {w}
    /\ UNCHANGED <<alive, gone, space, minimized, focus, grab, pressed, down, asked>>

ClientRequest(w) ==
    \/ NewToplevel(w) \/ ToplevelDestroyed(w)
    \/ GrabRequest(w) \/ MaximizeRequest(w) \/ MinimizeRequest(w)
    \/ NewDecoration(w) \/ RequestClientSide(w) \/ RequestServerSide(w)

-----------------------------------------------------------------------------
(* The devices: handle_input *)

\* The smallest position of w in minimized_windows.
PositionOf(w) ==
    CHOOSE i \in DOMAIN minimized :
        minimized[i] = w /\ \A j \in DOMAIN minimized : minimized[j] = w => i <= j

\* A press in the taskbar; the pointer handle never sees it.
PressTaskbar ==
    /\ LeftButton \notin down /\ down' = down \cup {LeftButton}
    /\ \/ UNCHANGED <<space, minimized, focus>>
       \/ \E w \in alive \cap Iconified : Unminimize(PositionOf(w))
       \/ \E w \in (alive \cap Shown) \ (Iconified \cup {focus}) :
            RaiseAndFocus(w) /\ UNCHANGED minimized
    /\ UNCHANGED <<alive, gone, ssd, grab, pressed, asked>>

\* A press on a title bar or a resize edge; nor does it see this one.
PressDecoration(w) ==
    /\ LeftButton \notin down /\ down' = down \cup {LeftButton}
    /\ w \in Shown \cap ssd
    /\ RaiseAndFocus(w)
    /\ grab' = [window |-> w, by |-> "user"]
    /\ UNCHANGED <<alive, gone, minimized, ssd, pressed, asked>>

\* Any other press: on a window of the space, or on none.
PressElsewhere(b) ==
    /\ b \notin down /\ down' = down \cup {b}
    /\ \/ \E w \in Shown : RaiseAndFocus(w)
       \/ focus' = None /\ UNCHANGED space
    /\ pressed' = pressed \cup {b}
    /\ UNCHANGED <<alive, gone, minimized, ssd, grab, asked>>

\* The grabs' button handler, after the pointer handle has noted a release.
AfterRelease(b) ==
    /\ pressed' = pressed \ {b}
    /\ grab' = IF pressed' = {} THEN NoGrab ELSE grab

ReleaseSwallowed(b) ==
    /\ b \in down /\ down' = down \ {b}
    /\ IF b = LeftButton /\ b \notin pressed THEN UNCHANGED <<pressed, grab>>
       ELSE AfterRelease(b)
    /\ UNCHANGED <<alive, gone, space, minimized, ssd, focus, asked>>

Release(b) ==
    /\ b \in down /\ down' = down \ {b}
    /\ AfterRelease(b)
    /\ UNCHANGED <<alive, gone, space, minimized, ssd, focus, asked>>

\* The grabs' motion handler maps the window it drags, wherever that window is.
Drag == grab # NoGrab /\ space' = OnTop(space, grab.window)

DragMotion ==
    /\ Drag
    /\ UNCHANGED <<alive, gone, minimized, ssd, focus, grab, pressed, down, asked>>

DeviceEvent ==
    \/ PressTaskbar \/ DragMotion
    \/ \E w \in Windows : PressDecoration(w)
    \/ \E b \in Buttons : PressElsewhere(b) \/ Release(b)

-----------------------------------------------------------------------------
(* MCP tool calls, by the index the client names *)

Ids == 1 .. (Len(space) + Len(minimized))

WindowFocus(id) ==
    /\ \/ id <= Len(space) /\ RaiseAndFocus(space[id]) /\ UNCHANGED minimized
       \/ id > Len(space) /\ Unminimize(id - Len(space))
    /\ UNCHANGED <<alive, gone, ssd, grab, pressed, down, asked>>

\* A minimized window is not moved ("window not found").
WindowMove(id) ==
    /\ id <= Len(space)
    /\ space' = OnTop(space, space[id])
    /\ UNCHANGED <<alive, gone, minimized, ssd, focus, grab, pressed, down, asked>>

\* The client is asked to close its window, and need not; a minimized window
\* is forgotten at once, a visible one stays until it is destroyed.
WindowClose(id) ==
    /\ id > Len(space)
    /\ minimized' = RemoveAt(minimized, id - Len(space))
    /\ asked' = asked \cup {minimized[id - Len(space)]}
    /\ UNCHANGED <<alive, gone, space, ssd, focus, grab, pressed, down>>

\* A toggle: a minimized window comes back.
WindowMinimize(id) ==
    /\ \/ id <= Len(space) /\ Minimize(space[id])
       \/ id > Len(space) /\ Unminimize(id - Len(space))
    /\ UNCHANGED <<alive, gone, ssd, grab, pressed, down, asked>>

\* A click is a press and a release; on no window it leaves the focus alone.
MouseClick(b) ==
    /\ \/ \E w \in Shown : RaiseAndFocus(w)
       \/ UNCHANGED <<space, focus>>
    /\ AfterRelease(b)
    /\ UNCHANGED <<alive, gone, minimized, ssd, down, asked>>

\* mouse_move goes through the pointer handle, and so through the grab.
MouseMove ==
    /\ Drag
    /\ UNCHANGED <<alive, gone, minimized, ssd, focus, grab, pressed, down, asked>>

ToolCall ==
    \/ \E id \in Ids :
         WindowFocus(id) \/ WindowMove(id) \/ WindowClose(id) \/ WindowMinimize(id)
    \/ MouseMove \/ \E b \in Buttons : MouseClick(b)

\* space.refresh() after a round of events: dead windows go.
Refresh ==
    /\ Shown \cap gone # {}
    /\ space' = Among(space, Windows \ gone)
    /\ UNCHANGED <<alive, gone, minimized, ssd, focus, grab, pressed, down, asked>>

Next ==
    \/ \E w \in Windows : ClientRequest(w)
    \/ DeviceEvent \/ ToolCall \/ Refresh

Spec == Init /\ [][Next]_vars

-----------------------------------------------------------------------------
(* Properties *)

\* Keys never go to a window that exists but is not in the space, where the
\* user could not see what they do.
FocusIsShown == focus \in alive => focus \in Shown

\* A window that exists is in the space or minimized, so that the taskbar and
\* window_list offer it, unless it was sent a close while it was minimized.
EveryWindowReachable == alive \ asked \subseteq Shown \cup Iconified

\* A user's drag ends with the last button, even though the press that began
\* it never reached the pointer handle and other buttons and MCP clicks come
\* in between; only a client's request may drag with no button down.
UserDragNeedsButton == grab.by = "user" => down # {}

Times(w) ==
    Cardinality({i \in DOMAIN minimized : minimized[i] = w})
      + IF w \in Shown THEN 1 ELSE 0

\* A window gets two ids at once, one of the space and one among the minimized,
\* only when it was minimized in the middle of a drag that then goes on.
TwoIdsOnlyByDragging ==
    [][\A w \in Windows :
         Times(w) <= 1 /\ Times(w)' > 1 => grab.window = w /\ w \in Iconified]_vars
=============================================================================
